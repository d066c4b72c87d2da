----------------------------- MODULE Trajectory -----------------------------
(* The cells a logged request is shown as (buildTrajectoryCells.ts), their
   places on the overview strip (TrajectoryOverview.tsx) and where the arrow
   keys go among them (TrajectoryLedger.tsx, DetailPage.tsx).  A message is
   its role, whether it has reasoning and content, and its tool calls by id;
   the text is left out.  *)
EXTENDS Naturals, Sequences, FiniteSets, SequencesExt

CONSTANTS NoId,  \* a tool call without an id of its own
          NoCell \* no cell is selected

Kinds == {"SYSTEM", "USER", "ASSISTANT", "TOOL", "REASONING"}

KindForRole(role) == CASE role = "system" -> "SYSTEM"
                       [] role = "user"   -> "USER"
                       [] role = "tool"   -> "TOOL"
                       [] OTHER           -> "ASSISTANT"

\* `when` there is something to show, one cell of it
CellIf(when, cell) == IF when THEN <<cell>> ELSE <<>>

\* the cells of the i-th message: its reasoning, its content, each of its tool
\* calls, or one empty cell if it has none of these
MessageCells(message, i) ==
    LET said == [id   |-> <<i, "role", message.role>>, message |-> i, call |-> 0,
                 kind |-> KindForRole(message.role)]
        cells ==
          CellIf(message.reasoning,
                 [id |-> <<i, "reasoning", 0>>, message |-> i, call |-> 0,
                  kind |-> "REASONING"])
          \o CellIf(message.content, said)
          \o [t \in DOMAIN message.calls |->
                [id |-> <<i, "tool", IF message.calls[t] = NoId
                                     THEN t ELSE message.calls[t]>>,
                 message |-> i, call |-> t, kind |-> "TOOL"]]
    IN  IF cells = <<>> THEN <<said>> ELSE cells

BuildTrajectoryCells(messages) ==
    FlattenSeq([i \in DOMAIN messages |-> MessageCells(messages[i], i)])

\* findIndex: the first cell with the id, 0 if there is none
CellAt(cells, id) ==
    LET at == {i \in DOMAIN cells : cells[i].id = id}
    IN  IF at = {} THEN 0 ELSE CHOOSE i \in at : \A j \in at : i <= j

\* the lane a cell has on the strip
Placement(kind) == CASE kind \in {"SYSTEM", "USER"}          -> 0
                     [] kind \in {"REASONING", "ASSISTANT"}  -> 1
                     [] kind = "TOOL"                        -> 2

\* one span for each cell; a boundary before each user step but a first one
OverviewSpans(cells) ==
    {[id |-> cells[i].id, lane |-> Placement(cells[i].kind),
      boundary |-> cells[i].kind = "USER" /\ i > 1] : i \in DOMAIN cells}

\* where a key moves the selection from the cell at `current`
KeyTarget(cells, current, key) ==
    LET n == Len(cells)
    IN  CASE key = "ArrowDown" -> IF current < n THEN current + 1 ELSE n
          [] key = "ArrowUp"   -> IF current > 1 THEN current - 1 ELSE 1
          [] key = "Home"      -> 1
          [] key = "End"       -> n
=============================================================================
