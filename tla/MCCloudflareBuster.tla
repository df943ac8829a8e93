------------------------- MODULE MCCloudflareBuster -------------------------
(* Instances of CloudflareBuster for TLC. *)
EXTENDS CloudflareBuster
CONSTANTS u1, u2, u3, r1, r2

=============================================================================
