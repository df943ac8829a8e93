---------------------------- MODULE QueryBuilder ----------------------------
(***************************************************************************)
(* internal/graphql.go: how queryBuilder merges the documents of a batch   *)
(* into one operation.  Syntax trees are abstracted to what is renamed,    *)
(* moved or shared: the field a query asks for, the variables it takes and *)
(* the fragments it comes with.                                            *)
(***************************************************************************)
EXTENDS Naturals, Sequences

CONSTANTS
    Query,      \* the calls of MakeRequest, and the alias each is given
    Document    \* per query: its field, its variables with their values, its fragments

\* Variables are a map from names to values.
ASSUME QueryBuilderAssumption ==
    \A q \in Query :
        /\ DOMAIN Document[q] = {"field", "vars", "fragments"}
        /\ Document[q].vars = [name \in DOMAIN Document[q].vars |-> Document[q].vars[name]]

\* Before the first query is added, op is nil.
EmptyBuilder == [selections |-> <<>>, definitions |-> {}, vars |-> <<>>, fragments |-> {}]

\* Variables keep their names.
BadRenamed(q, name) == name

\* newName := id + "_" + oldName
Renamed(q, name) == <<q, name>>

RenamedVars(q) == {Renamed(q, name) : name \in DOMAIN Document[q].vars}

\* The query's field under its alias, and the variables that are its arguments.
Selection(q) ==
    [alias |-> q, field |-> Document[q].field,
     arguments |-> [name \in DOMAIN Document[q].vars |-> Renamed(q, name)]]

\* qb.vars[newName] = vars[oldName], over whatever has that name already.
SetVars(vars, q) ==
    [v \in DOMAIN vars \union RenamedVars(q) |->
        IF v \in RenamedVars(q)
        THEN Document[q].vars[CHOOSE name \in DOMAIN Document[q].vars : Renamed(q, name) = v]
        ELSE vars[v]]

\* The operation of the first query is extended by the selection and the definitions of
\* the others.  A fragment is the same text in every document and is kept once.
add(qb, q) ==
    [selections |-> Append(qb.selections, Selection(q)),
     definitions |-> qb.definitions \union RenamedVars(q),
     vars |-> SetVars(qb.vars, q),
     fragments |-> qb.fragments \union Document[q].fragments]

\* A queryBuilder: op's selections and definitions, and vars and fragments.
Names == UNION {RenamedVars(q) : q \in Query}
Values == UNION {{Document[q].vars[name] : name \in DOMAIN Document[q].vars} : q \in Query}
Builder ==
    [selections : Seq({Selection(q) : q \in Query}),
     definitions : SUBSET Names,
     vars : UNION {[names -> Values] : names \in SUBSET Names},
     fragments : SUBSET (UNION {Document[q].fragments : q \in Query})]

\* What upstream makes of a selection: its field, and what its arguments stand for.
Evaluated(qb, selection) ==
    [field |-> selection.field,
     vars |-> [name \in DOMAIN selection.arguments |-> qb.vars[selection.arguments[name]]]]
=============================================================================
