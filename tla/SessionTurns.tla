---------------------------- MODULE SessionTurns ----------------------------
(* How the steps of a session are put into turns: the server numbers them
   (assemble_session in sessions.py), the client groups the numbered steps into
   the sections of its page (groupSessionTurns in lib/session.ts).  *)
EXTENDS Naturals, Sequences, FiniteSets

CONSTANT NoText \* the row carries no user text

\* a row of the session: the request and its latest user text
RowKey(row) == IF row.text = NoText THEN <<"request", row.id>>
                                    ELSE <<"user", row.text>>

\* the rows whose turn key is not that of the row before
TurnBreaks(rows) ==
    {k \in DOMAIN rows : k = 1 \/ RowKey(rows[k]) # RowKey(rows[k - 1])}

\* mutant: a user text that comes again keeps its number
TurnIndexByText(rows) ==
    [i \in DOMAIN rows |->
        Cardinality({RowKey(rows[k]) : k \in
                     1 .. (CHOOSE k \in 1 .. i : /\ RowKey(rows[k]) = RowKey(rows[i])
                                                /\ \A j \in 1 .. k - 1 :
                                                      RowKey(rows[j]) # RowKey(rows[i]))})]

\* turn_index: incremented at each break
TurnIndex(rows) ==
    [i \in DOMAIN rows |-> Cardinality({k \in TurnBreaks(rows) : k <= i})]

\* the steps as the page gets them
Steps(rows) ==
    [i \in DOMAIN rows |-> [id |-> rows[i].id, turn |-> TurnIndex(rows)[i]]]

\* the key a step is grouped by: its place if the server sent no turn
GroupKey(steps, i) == IF steps[i].turn > 0 THEN steps[i].turn ELSE i

\* a group starts where the key is not the one of the group before
GroupStarts(steps) ==
    {i \in DOMAIN steps :
        i = 1 \/ GroupKey(steps, i) # GroupKey(steps, i - 1)}

\* the places of the steps in the group that starts at i
GroupAt(steps, i) ==
    {j \in DOMAIN steps :
        j >= i /\ \A k \in GroupStarts(steps) : k <= i \/ j < k}

\* groupSessionTurns: what the page draws a section of
GroupSessionTurns(steps) ==
    {[index |-> GroupKey(steps, i), steps |-> GroupAt(steps, i)] :
        i \in GroupStarts(steps)}

\* a section is keyed and collapsed by its index, so two may not share one
KeysAreDistinct(steps) ==
    \A i, j \in GroupStarts(steps) :
        GroupKey(steps, i) = GroupKey(steps, j) => i = j
=============================================================================
