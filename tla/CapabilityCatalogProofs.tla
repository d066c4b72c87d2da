----------------------- MODULE CapabilityCatalogProofs -----------------------
(* Proofs about CapabilityCatalog, for any threads and any number of catalogs. *)
EXTENDS CapabilityCatalog, TLAPS

(* The flag covers a refresh from the moment it is decided on to its last step: *)
(* a caller about to start a thread has created it, and whoever has a worker    *)
(* has set the flag, alone.                                                     *)
Flagged ==
    /\ \A c \in Callers : pc[c] = "start" <=> worker[c] = "created"
    /\ \A c \in Callers : worker[c] # "none" => inFlight
    /\ \A c \in Callers : worker[c] \in {"created", "fetching", "fetched"} => failure # "recent"

(* The answer a thread holds is no older than the table: nobody else has had the *)
(* chance to replace the table since the answer came.                            *)
AnswersAreNews == \A c \in Callers : worker[c] = "fetched" => answer[c] >= table /\ answer[c] # 0

IInv == TypeOK /\ SingleFlight /\ Flagged /\ AnswersAreNews

LEMMA InitInv == Init => IInv
  <1> SUFFICES ASSUME Init
               PROVE  IInv
    OBVIOUS
  <1> USE CatalogAssumption DEF Init
  <1>1. TypeOK
    <2>1. latest \in 1..MaxCatalogs /\ table \in 0..latest
      OBVIOUS
    <2>2. answer \in [Callers -> 0..latest]
      OBVIOUS
    <2> QED
      BY <2>1, <2>2 DEF TypeOK, Ages, Failures
  <1>2. SingleFlight /\ Flagged /\ AnswersAreNews
    BY DEF SingleFlight, Flagged, AnswersAreNews
  <1> QED
    BY <1>1, <1>2 DEF IInv

(* Every step keeps the invariant: one thread at most works on the table, and the *)
(* flag is set for as long as it does.                                            *)
LEMMA NextInv == IInv /\ [Next]_vars => IInv'
  <1> USE CatalogAssumption
          DEF IInv, TypeOK, SingleFlight, Flagged, AnswersAreNews, Ages, Failures, tables
  <1> SUFFICES ASSUME IInv, [Next]_vars
               PROVE  IInv'
    OBVIOUS
  <1>1. ASSUME NEW c \in Callers, Lookup(c)
        PROVE  IInv'
    BY <1>1 DEF Lookup, Goto
  <1>2. ASSUME NEW c \in Callers, Trigger(c)
        PROVE  IInv'
    BY <1>2 DEF Trigger, Goto, Become
  <1>3. ASSUME NEW c \in Callers, HoldBack(c)
        PROVE  IInv'
    BY <1>3 DEF HoldBack, Goto
  <1>4. ASSUME NEW c \in Callers, StartThread(c)
        PROVE  IInv'
    BY <1>4 DEF StartThread, Goto, Become
  <1>5. ASSUME NEW c \in Callers, StartFails(c)
        PROVE  IInv'
    BY <1>5 DEF StartFails, Goto, Become
  <1>6. ASSUME NEW c \in Callers, Answer(c)
        PROVE  IInv'
    BY <1>6 DEF Answer, Become
  <1>7. ASSUME NEW c \in Callers, Publish(c)
        PROVE  IInv'
    <2>1. TypeOK'
      BY <1>7 DEF Publish, Become
    <2>2. SingleFlight' /\ Flagged'
      BY <1>7 DEF Publish, Become
    <2>3. AnswersAreNews'
      BY <1>7 DEF Publish, Become
    <2> QED
      BY <2>1, <2>2, <2>3
  <1>8. ASSUME NEW c \in Callers, Finish(c)
        PROVE  IInv'
    BY <1>8 DEF Finish, Become
  <1>9. ASSUME NEW c \in Callers, Fail(c)
        PROVE  IInv'
    <2>1. TypeOK'
      <3>1. /\ answer' \in [Callers -> 0..latest']
            /\ worker' \in [Callers -> {"none", "created", "fetching", "fetched", "ending"}]
        BY <1>9 DEF Fail, Become
      <3> QED
        BY <1>9, <3>1 DEF Fail
    <2>2. SingleFlight' /\ Flagged'
      BY <1>9 DEF Fail, Become
    <2>3. AnswersAreNews'
      BY <1>9 DEF Fail, Become
    <2> QED
      BY <2>1, <2>2, <2>3
  <1>10. CASE NewCatalog
    BY <1>10 DEF NewCatalog
  <1>11. CASE TableAges
    BY <1>11 DEF TableAges
  <1>12. CASE CooldownEnds
    BY <1>12 DEF CooldownEnds
  <1>13. CASE UNCHANGED vars
    BY <1>13 DEF vars
  <1> QED
    BY <1>1, <1>2, <1>3, <1>4, <1>5, <1>6, <1>7, <1>8, <1>9, <1>10, <1>11, <1>12, <1>13
       DEF Next, Ask, Refresh

(* The inductive invariant, from which the others follow. *)
THEOREM Invariance == Spec => []IInv
  BY InitInv, NextInv, PTL DEF Spec

(* Every reachable state is well typed. *)
THEOREM TypeCorrect == Spec => []TypeOK
  BY Invariance, PTL DEF IInv

(* However many threads look models up, one at most fetches the catalog. *)
THEOREM OneRefresh == Spec => []SingleFlight
  BY Invariance, PTL DEF IInv

(* No refresh begins within the cooldown of a failed one. *)
THEOREM NoRefreshInCooldown == Spec => CooldownHolds
  <1>1. IInv /\ [Next]_vars =>
          [\A c \in Callers : worker[c] = "none" /\ worker'[c] # "none" => failure # "recent"]_vars
    <2> SUFFICES ASSUME IInv, Next,
                        NEW c \in Callers, worker[c] = "none", worker'[c] # "none"
                 PROVE  failure # "recent"
      BY DEF vars
    <2>1. ASSUME NEW d \in Callers, Trigger(d)
          PROVE  failure # "recent"
      BY <2>1 DEF Trigger
    <2>2. ASSUME NEW d \in Callers, Lookup(d) \/ HoldBack(d) \/ NewCatalog \/ TableAges \/ CooldownEnds
          PROVE  FALSE
      BY <2>2 DEF Lookup, HoldBack, NewCatalog, TableAges, CooldownEnds
    <2>3. ASSUME NEW d \in Callers, StartThread(d) \/ StartFails(d) \/ Refresh(d)
          PROVE  FALSE
      BY <2>3 DEF StartThread, StartFails, Refresh, Answer, Publish, Finish, Fail, Become,
                  IInv, TypeOK, Flagged
    <2> QED
      BY <2>1, <2>2, <2>3 DEF Next, Ask
  <1> QED
    BY <1>1, Invariance, PTL DEF Spec, CooldownHolds

(* No table is replaced by an older one, however slow fetches overlap with new *)
(* catalogs, failures and lookups.                                             *)
THEOREM NoOlderTable == Spec => TableNeverGoesBack
  <1>1. IInv /\ [Next]_vars => [table' >= table]_vars
    <2> SUFFICES ASSUME IInv, Next
                 PROVE  table' >= table
      BY DEF vars
    <2> USE DEF IInv, TypeOK
    <2>1. ASSUME NEW c \in Callers, Publish(c)
          PROVE  table' >= table
      BY <2>1 DEF Publish, AnswersAreNews
    <2>2. ASSUME NEW c \in Callers, Lookup(c) \/ Ask(c) \/ Answer(c) \/ Finish(c) \/ Fail(c)
          PROVE  table' >= table
      BY <2>2 DEF Lookup, Ask, Trigger, HoldBack, StartThread, StartFails, Answer, Finish, Fail, tables
    <2>3. NewCatalog \/ TableAges \/ CooldownEnds => table' >= table
      BY DEF NewCatalog, TableAges, CooldownEnds
    <2> QED
      BY <2>1, <2>2, <2>3 DEF Next, Refresh
  <1> QED
    BY <1>1, Invariance, PTL DEF Spec, TableNeverGoesBack
=============================================================================
