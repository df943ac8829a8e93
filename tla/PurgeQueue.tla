----------------------------- MODULE PurgeQueue -----------------------------
(***************************************************************************)
(* What cloudflareBuster promises to the cache: URLs that are due wait     *)
(* until a request takes them; a request that fails makes its URLs due     *)
(* again, and one that succeeds does not touch what became due meanwhile.  *)
(***************************************************************************)
CONSTANTS Urls, Requests
VARIABLES due, purging

purgeVars == <<due, purging>>

InFlight == UNION {purging[r] : r \in Requests}

Init == due = {} /\ purging = [r \in Requests |-> {}]

Add(url) == due' = due \union {url} /\ UNCHANGED purging

Take(r) ==
    /\ purging[r] = {}
    /\ \E files \in (SUBSET due) \ {{}} :
        due' = due \ files /\ purging' = [purging EXCEPT ![r] = files]

Failed(r) ==
    /\ purging[r] # {}
    /\ due' = due \union purging[r]
    /\ purging' = [purging EXCEPT ![r] = {}]

Done(r) == purging[r] # {} /\ purging' = [purging EXCEPT ![r] = {}] /\ UNCHANGED due

Next == (\E url \in Urls : Add(url)) \/ (\E r \in Requests : Take(r) \/ Failed(r) \/ Done(r))

Spec == Init /\ [][Next]_purgeVars

=============================================================================
