------------------------- MODULE ExecutorGate_proofs -------------------------
(* Proofs about ExecutorGate, for any finite number of calls.              *)
EXTENDS ExecutorGate, FiniteSetTheorems, TLAPS

\* The two sets that in_flight_ counts are finite.
LEMMA CountsAreFinite ==
  ASSUME TRUE
  PROVE  /\ IsFiniteSet(Calls)
         /\ IsFiniteSet(Tickets) /\ IsFiniteSet(Posted)
         /\ Cardinality(Tickets) \in Nat /\ Cardinality(Posted) \in Nat
<1>1. IsFiniteSet(Calls)
  BY FS_Union, KindsAssumption DEF Calls
<1>2. Tickets \in SUBSET Calls /\ Posted \in SUBSET Calls
  BY DEF Tickets, Posted, Calls
<1>3. IsFiniteSet(Tickets) /\ IsFiniteSet(Posted)
  BY <1>1, <1>2, FS_Subset
<1> QED BY <1>1, <1>3, FS_CardinalityType

\* Adding or removing one element.
LEMMA OneMore ==
  ASSUME NEW S, IsFiniteSet(S), NEW c, c \notin S
  PROVE  Cardinality(S \cup {c}) = Cardinality(S) + 1
BY FS_AddElement

LEMMA OneLess ==
  ASSUME NEW S, IsFiniteSet(S), NEW c \in S
  PROVE  Cardinality(S \ {c}) = Cardinality(S) - 1 /\ Cardinality(S) \in Nat \ {0}
BY FS_RemoveElement, FS_CardinalityType, FS_EmptySet

\* The four ways the count changes, and the one in which it does not.
LEMMA CountStep ==
  ASSUME InFlightIsExact,
         \/ /\ Tickets' = Tickets /\ Posted' = Posted /\ in_flight' = in_flight
         \/ \E c \in Calls :
              \/ /\ c \notin Tickets /\ Tickets' = Tickets \cup {c}
                 /\ Posted' = Posted /\ in_flight' = in_flight + 1
              \/ /\ c \in Tickets /\ Tickets' = Tickets \ {c}
                 /\ Posted' = Posted /\ in_flight' = in_flight - 1
              \/ /\ c \notin Posted /\ Posted' = Posted \cup {c}
                 /\ Tickets' = Tickets /\ in_flight' = in_flight + 1
              \/ /\ c \in Posted /\ Posted' = Posted \ {c}
                 /\ Tickets' = Tickets /\ in_flight' = in_flight - 1
  PROVE  InFlightIsExact' /\ in_flight' \in Nat
<1>1. /\ IsFiniteSet(Tickets) /\ IsFiniteSet(Posted)
      /\ Cardinality(Tickets) \in Nat /\ Cardinality(Posted) \in Nat
  BY CountsAreFinite
<1>2. CASE Tickets' = Tickets /\ Posted' = Posted /\ in_flight' = in_flight
  BY <1>1, <1>2 DEF InFlightIsExact
<1>3. ASSUME NEW c \in Calls, c \notin Tickets, Tickets' = Tickets \cup {c},
             Posted' = Posted, in_flight' = in_flight + 1
      PROVE  InFlightIsExact' /\ in_flight' \in Nat
  BY <1>1, <1>3, OneMore DEF InFlightIsExact
<1>4. ASSUME NEW c \in Calls, c \in Tickets, Tickets' = Tickets \ {c},
             Posted' = Posted, in_flight' = in_flight - 1
      PROVE  InFlightIsExact' /\ in_flight' \in Nat
  BY <1>1, <1>4, OneLess DEF InFlightIsExact
<1>5. ASSUME NEW c \in Calls, c \notin Posted, Posted' = Posted \cup {c},
             Tickets' = Tickets, in_flight' = in_flight + 1
      PROVE  InFlightIsExact' /\ in_flight' \in Nat
  BY <1>1, <1>5, OneMore DEF InFlightIsExact
<1>6. ASSUME NEW c \in Calls, c \in Posted, Posted' = Posted \ {c},
             Tickets' = Tickets, in_flight' = in_flight - 1
      PROVE  InFlightIsExact' /\ in_flight' \in Nat
  BY <1>1, <1>6, OneLess DEF InFlightIsExact
<1> QED BY <1>2, <1>3, <1>4, <1>5, <1>6

\* A step that moves no ticket and posts nothing.
LEMMA QuietCount ==
  ASSUME InFlightIsExact, in_flight' = in_flight,
         \A c \in Calls : HasTicket(c)' <=> HasTicket(c),
         \A c \in Completions : callback'[c] = "posted" <=> callback[c] = "posted"
  PROVE  InFlightIsExact' /\ in_flight' \in Nat
<1>1. Tickets' = Tickets /\ Posted' = Posted
  BY DEF Tickets, Posted
<1> QED BY <1>1, CountStep

\* A completion that is taken is posted with a ticket of its own.
LEMMA TakeCount ==
  ASSUME TypeOK, InFlightIsExact, NEW c \in Completions, Take(c),
         \A d \in Calls : HasTicket(d)' <=> HasTicket(d)
  PROVE  InFlightIsExact' /\ in_flight' \in Nat
<1>1. Tickets' = Tickets
  BY DEF Tickets
<1>2. c \notin Posted /\ Posted' = Posted \cup {c} /\ in_flight' = in_flight + 1
  BY DEF Posted, Take, TypeOK
<1>3. c \in Calls
  BY DEF Calls
<1> QED BY <1>1, <1>2, <1>3, CountStep

\* The count is exact after every step.
LEMMA CountNext ==
  ASSUME TypeOK, InFlightIsExact, CompletionStages, [Next]_vars
  PROVE  InFlightIsExact' /\ in_flight' \in Nat
<1> USE DEF gateVars, completionVars, waitVars
<1>c. Completions \subseteq Calls /\ Waits \subseteq Calls /\ Posts \subseteq Calls
  BY DEF Calls
<1>q. ASSUME NEW c \in Calls, NEW l \in Pc, Goto(c, l), l \notin {"idle", "refused", "left"},
             HasTicket(c), UNCHANGED <<callback, in_flight>>
      PROVE  InFlightIsExact' /\ in_flight' \in Nat
  <2>1. \A d \in Calls : HasTicket(d)' <=> HasTicket(d)
    BY <1>q DEF Goto, HasTicket, TypeOK
  <2> QED BY <1>q, <2>1, QuietCount
<1>u. ASSUME UNCHANGED <<pc, callback, in_flight>>
      PROVE  InFlightIsExact' /\ in_flight' \in Nat
  <2>1. \A d \in Calls : HasTicket(d)' <=> HasTicket(d)
    BY <1>u DEF HasTicket
  <2> QED BY <1>u, <2>1, QuietCount
<1>1. CASE UNCHANGED vars
  BY <1>1, <1>u DEF vars
<1>2. ASSUME NEW c \in Calls, Enter(c)
      PROVE  InFlightIsExact' /\ in_flight' \in Nat
  <2>1. Posted' = Posted
    BY <1>2 DEF Enter, Posted
  <2>2. CASE Closed
    <3>1. \A d \in Calls : HasTicket(d)' <=> HasTicket(d)
      BY <1>2, <2>2 DEF Enter, Goto, HasTicket, TypeOK
    <3> QED BY <1>2, <2>2, <3>1, QuietCount DEF Enter
  <2>3. CASE ~Closed
    <3>1. c \notin Tickets /\ Tickets' = Tickets \cup {c}
      BY <1>2, <2>3 DEF Enter, Goto, HasTicket, Tickets, TypeOK
    <3> QED BY <1>2, <2>1, <2>3, <3>1, CountStep DEF Enter
  <2> QED BY <2>2, <2>3
<1>3. ASSUME NEW c \in Calls, Release(c)
      PROVE  InFlightIsExact' /\ in_flight' \in Nat
  <2>1. Posted' = Posted /\ in_flight' = in_flight - 1
    BY <1>3 DEF Release, Posted
  <2>2. c \in Tickets /\ Tickets' = Tickets \ {c}
    BY <1>3 DEF Release, Goto, HasTicket, Tickets, TypeOK
  <2> QED BY <2>1, <2>2, CountStep
<1>4. ASSUME NEW c \in Completions, Create(c)
      PROVE  InFlightIsExact' /\ in_flight' \in Nat
  <2>1. \A d \in Calls : HasTicket(d)' <=> HasTicket(d)
    BY <1>4, <1>c DEF Create, Goto, HasTicket, TypeOK
  <2>2. \A d \in Completions : callback'[d] = "posted" <=> callback[d] = "posted"
    BY <1>4 DEF Create, CompletionStages, TypeOK
  <2> QED BY <1>4, <2>1, <2>2, QuietCount DEF Create
<1>5. ASSUME NEW c \in Completions, Created(c)
      PROVE  InFlightIsExact' /\ in_flight' \in Nat
  BY <1>5, <1>c, <1>q DEF Created, HasTicket, Pc
<1>6. ASSUME NEW c \in Completions, CreatorCompletes(c)
      PROVE  InFlightIsExact' /\ in_flight' \in Nat
  <2>1. \A d \in Calls : HasTicket(d)' <=> HasTicket(d)
    BY <1>6, <1>c DEF CreatorCompletes, Goto, HasTicket, TypeOK
  <2> QED BY <1>6, <2>1, TakeCount DEF CreatorCompletes
<1>7. ASSUME NEW c \in Completions, NativeCompletes(c)
      PROVE  InFlightIsExact' /\ in_flight' \in Nat
  <2>1. \A d \in Calls : HasTicket(d)' <=> HasTicket(d)
    BY <1>7 DEF NativeCompletes, HasTicket
  <2> QED BY <1>7, <2>1, TakeCount DEF NativeCompletes
<1>8. ASSUME NEW c \in Completions, Completed(c)
      PROVE  InFlightIsExact' /\ in_flight' \in Nat
  BY <1>8, <1>u DEF Completed
<1>9. ASSUME NEW c \in Completions, RunCompletion(c)
      PROVE  InFlightIsExact' /\ in_flight' \in Nat
  <2>1. Tickets' = Tickets
    BY <1>9, <1>c DEF RunCompletion, Goto, Tickets, HasTicket, TypeOK
  <2>2. c \in Posted /\ Posted' = Posted \ {c} /\ in_flight' = in_flight - 1
    BY <1>9 DEF RunCompletion, Posted, TypeOK
  <2> QED BY <2>1, <2>2, <1>c, CountStep
<1>10. ASSUME NEW c \in Waits, WaitStep(c)
       PROVE  InFlightIsExact' /\ in_flight' \in Nat
  <2>1. CASE UNCHANGED pc
    BY <1>10, <2>1, <1>u DEF WaitStep, GuardWait, ArmTimer, StartTimer, TimerExpires,
                             TakeResult, Unguard, CancelTimer
  <2>2. CASE ~UNCHANGED pc
    BY <1>10, <2>2, <1>c, <1>q DEF WaitStep, GuardWait, ArmTimer, StartTimer,
         TimerExpires, TakeResult, Unguard, CancelTimer, HasTicket, Pc
  <2> QED BY <2>1, <2>2
<1>11. ASSUME NEW c \in Waits, NativeStep(c)
       PROVE  InFlightIsExact' /\ in_flight' \in Nat
  BY <1>11, <1>u DEF NativeStep, NativeWorks, NativeAnswers, NativeFails
<1>12. CASE CloseBegins
  BY <1>12, <1>u DEF CloseBegins
<1>13. ASSUME NEW c \in Completions, CancelCompletion(c)
       PROVE  InFlightIsExact' /\ in_flight' \in Nat
  <2>1. CASE Take(c)
    <3>1. \A d \in Calls : HasTicket(d)' <=> HasTicket(d)
      BY <1>13 DEF CancelCompletion, HasTicket
    <3> QED BY <2>1, <3>1, TakeCount
  <2>2. CASE ~Take(c)
    BY <1>13, <2>2, <1>u DEF CancelCompletion
  <2> QED BY <2>1, <2>2
<1>14. ASSUME NEW c \in Waits, CancelWait(c)
       PROVE  InFlightIsExact' /\ in_flight' \in Nat
  BY <1>14, <1>u DEF CancelWait
<1>15. CASE CloseEnds \/ WaitForDrain
  BY <1>15, <1>u DEF CloseEnds, WaitForDrain
<1> QED
  BY <1>1, <1>2, <1>3, <1>4, <1>5, <1>6, <1>7, <1>8, <1>9, <1>10, <1>11, <1>12, <1>13,
     <1>14, <1>15 DEF Next, CallStep, CompletionStep, CloseStep

\* Every step keeps the types.
LEMMA TypeNext ==
  ASSUME TypeOK, InFlightIsExact, CompletionStages, [Next]_vars
  PROVE  TypeOK'
<1> USE DEF gateVars, completionVars, waitVars, Goto
<1>c. /\ Completions \subseteq Calls /\ Waits \subseteq Calls
      /\ in_flight' \in Nat
  BY CountNext DEF Calls
<1>1. CASE UNCHANGED vars
  BY <1>1 DEF vars, TypeOK, Pc
<1>2. ASSUME NEW c \in Calls, Enter(c)
      PROVE  TypeOK'
  BY <1>2, <1>c DEF Enter, TypeOK, Pc
<1>3. ASSUME NEW c \in Calls, Release(c)
      PROVE  TypeOK'
  BY <1>3, <1>c DEF Release, TypeOK, Pc
<1>4. ASSUME NEW c \in Completions, Create(c)
      PROVE  TypeOK'
  BY <1>4, <1>c DEF Create, TypeOK, Pc
<1>5. ASSUME NEW c \in Completions, Created(c)
      PROVE  TypeOK'
  BY <1>5, <1>c DEF Created, TypeOK, Pc
<1>6. ASSUME NEW c \in Completions, CreatorCompletes(c)
      PROVE  TypeOK'
  BY <1>6, <1>c DEF CreatorCompletes, Take, TypeOK, Pc
<1>7. ASSUME NEW c \in Completions, NativeCompletes(c)
      PROVE  TypeOK'
  BY <1>7, <1>c DEF NativeCompletes, Take, TypeOK, Pc
<1>8. ASSUME NEW c \in Completions, Completed(c)
      PROVE  TypeOK'
  BY <1>8, <1>c DEF Completed, TypeOK, Pc
<1>9. ASSUME NEW c \in Completions, RunCompletion(c)
      PROVE  TypeOK'
  BY <1>9, <1>c DEF RunCompletion, TypeOK, Pc
<1>10. ASSUME NEW c \in Completions, CancelCompletion(c)
       PROVE  TypeOK'
  BY <1>10, <1>c DEF CancelCompletion, Take, TypeOK, Pc
<1>11. ASSUME NEW c \in Waits, GuardWait(c)
       PROVE  TypeOK'
  BY <1>11, <1>c DEF GuardWait, TypeOK, Pc
<1>12. ASSUME NEW c \in Waits, ArmTimer(c)
       PROVE  TypeOK'
  BY <1>12, <1>c DEF ArmTimer, TypeOK, Pc
<1>13. ASSUME NEW c \in Waits, StartTimer(c)
       PROVE  TypeOK'
  BY <1>13, <1>c DEF StartTimer, TypeOK, Pc
<1>14. ASSUME NEW c \in Waits, TimerExpires(c)
       PROVE  TypeOK'
  BY <1>14, <1>c DEF TimerExpires, TypeOK, Pc
<1>15. ASSUME NEW c \in Waits, TakeResult(c)
       PROVE  TypeOK'
  BY <1>15, <1>c DEF TakeResult, TypeOK, Pc
<1>16. ASSUME NEW c \in Waits, Unguard(c)
       PROVE  TypeOK'
  BY <1>16, <1>c DEF Unguard, TypeOK, Pc
<1>17. ASSUME NEW c \in Waits, NativeWorks(c)
       PROVE  TypeOK'
  BY <1>17, <1>c DEF NativeWorks, TypeOK, Pc
<1>18. ASSUME NEW c \in Waits, NativeAnswers(c)
       PROVE  TypeOK'
  BY <1>18, <1>c DEF NativeAnswers, CompleteAwaitable, TypeOK, Pc
<1>19. ASSUME NEW c \in Waits, NativeFails(c)
       PROVE  TypeOK'
  BY <1>19, <1>c DEF NativeFails, CompleteAwaitable, TypeOK, Pc
<1>20. ASSUME NEW c \in Waits, CancelWait(c)
       PROVE  TypeOK'
  BY <1>20, <1>c DEF CancelWait, CompleteAwaitable, TypeOK, Pc
<1>21. ASSUME NEW c \in Waits, NEW who \in {"native", "closer"}, CancelTimer(c, who)
       PROVE  TypeOK'
  BY <1>21, <1>c DEF CancelTimer, TypeOK, Pc
<1>22. CASE CloseBegins \/ CloseEnds \/ WaitForDrain
  BY <1>22 DEF CloseBegins, CloseEnds, WaitForDrain, TypeOK, Pc
<1> QED
  BY <1>1, <1>2, <1>3, <1>4, <1>5, <1>6, <1>7, <1>8, <1>9, <1>10, <1>11,
     <1>12, <1>13, <1>14, <1>15, <1>16, <1>17, <1>18, <1>19, <1>20, <1>21,
     <1>22
  DEF Next, CallStep, CompletionStep, WaitStep, NativeStep, CloseStep

\* A completion only moves on through its stages.
LEMMA CompletionStagesNext ==
  ASSUME TypeOK, CompletionStages, WaitStages, [Next]_vars
  PROVE  CompletionStages'
<1> USE DEF gateVars, completionVars, waitVars, Goto, TypeOK
<1>c. /\ Completions \subseteq Calls /\ Waits \subseteq Calls
      /\ Completions \cap Waits = {} /\ Posts \cap Completions = {}
      /\ Posts \cap Waits = {}
  BY KindsAssumption DEF Calls
<1>1. CASE UNCHANGED vars
  BY <1>1 DEF vars, CompletionStages
<1>2. ASSUME NEW c \in Calls, Enter(c)
      PROVE  CompletionStages'
  BY <1>2, <1>c DEF Enter, CompletionStages
<1>3. ASSUME NEW c \in Calls, Release(c)
      PROVE  CompletionStages'
  BY <1>3, <1>c DEF Release, CompletionStages
<1>4. ASSUME NEW c \in Completions, Create(c)
      PROVE  CompletionStages'
  BY <1>4, <1>c DEF Create, CompletionStages
<1>5. ASSUME NEW c \in Completions, Created(c)
      PROVE  CompletionStages'
  BY <1>5, <1>c DEF Created, CompletionStages
<1>6. ASSUME NEW c \in Completions, CreatorCompletes(c)
      PROVE  CompletionStages'
  BY <1>6, <1>c DEF CreatorCompletes, Take, CompletionStages
<1>7. ASSUME NEW c \in Completions, NativeCompletes(c)
      PROVE  CompletionStages'
  BY <1>7, <1>c DEF NativeCompletes, Take, CompletionStages
<1>8. ASSUME NEW c \in Completions, Completed(c)
      PROVE  CompletionStages'
  BY <1>8, <1>c DEF Completed, CompletionStages
<1>9. ASSUME NEW c \in Completions, RunCompletion(c)
      PROVE  CompletionStages'
  BY <1>9, <1>c DEF RunCompletion, CompletionStages
<1>10. ASSUME NEW c \in Completions, CancelCompletion(c)
       PROVE  CompletionStages'
  BY <1>10, <1>c DEF CancelCompletion, Take, CompletionStages
<1>11. ASSUME NEW c \in Waits, GuardWait(c)
       PROVE  CompletionStages'
  BY <1>11, <1>c DEF GuardWait, CompletionStages
<1>12. ASSUME NEW c \in Waits, ArmTimer(c)
       PROVE  CompletionStages'
  BY <1>12, <1>c DEF ArmTimer, CompletionStages
<1>13. ASSUME NEW c \in Waits, StartTimer(c)
       PROVE  CompletionStages'
  BY <1>13, <1>c DEF StartTimer, CompletionStages
<1>14. ASSUME NEW c \in Waits, TimerExpires(c)
       PROVE  CompletionStages'
  BY <1>14, <1>c DEF TimerExpires, CompletionStages
<1>15. ASSUME NEW c \in Waits, TakeResult(c)
       PROVE  CompletionStages'
  BY <1>15, <1>c DEF TakeResult, CompletionStages
<1>16. ASSUME NEW c \in Waits, Unguard(c)
       PROVE  CompletionStages'
  BY <1>16, <1>c DEF Unguard, CompletionStages
<1>17. ASSUME NEW c \in Waits, NativeWorks(c)
       PROVE  CompletionStages'
  BY <1>17, <1>c DEF NativeWorks, CompletionStages
<1>18. ASSUME NEW c \in Waits, NativeAnswers(c)
       PROVE  CompletionStages'
  BY <1>18, <1>c DEF NativeAnswers, CompleteAwaitable, CompletionStages
<1>19. ASSUME NEW c \in Waits, NativeFails(c)
       PROVE  CompletionStages'
  BY <1>19, <1>c DEF NativeFails, CompleteAwaitable, CompletionStages
<1>20. ASSUME NEW c \in Waits, CancelWait(c)
       PROVE  CompletionStages'
  BY <1>20, <1>c DEF CancelWait, CompleteAwaitable, CompletionStages
<1>21. ASSUME NEW c \in Waits, NEW who \in {"native", "closer"}, CancelTimer(c, who)
       PROVE  CompletionStages'
  BY <1>21, <1>c DEF CancelTimer, CompletionStages
<1>22. CASE CloseBegins \/ CloseEnds \/ WaitForDrain
  BY <1>22 DEF CloseBegins, CloseEnds, WaitForDrain, CompletionStages
<1> QED
  BY <1>1, <1>2, <1>3, <1>4, <1>5, <1>6, <1>7, <1>8, <1>9, <1>10, <1>11,
     <1>12, <1>13, <1>14, <1>15, <1>16, <1>17, <1>18, <1>19, <1>20, <1>21,
     <1>22
  DEF Next, CallStep, CompletionStep, WaitStep, NativeStep, CloseStep

\* So does a wait, and native work is kept only with its answer.
LEMMA WaitStagesNext ==
  ASSUME TypeOK, WaitStages, LateAnswersAreUndone, [Next]_vars
  PROVE  WaitStages' /\ LateAnswersAreUndone'
<1> USE DEF gateVars, completionVars, waitVars, Goto, TypeOK
<1>c. /\ Completions \subseteq Calls /\ Waits \subseteq Calls
      /\ Completions \cap Waits = {} /\ Posts \cap Completions = {}
      /\ Posts \cap Waits = {}
  BY KindsAssumption DEF Calls
<1>1. CASE UNCHANGED vars
  BY <1>1 DEF vars, WaitStages, LateAnswersAreUndone
<1>2. ASSUME NEW c \in Calls, Enter(c)
      PROVE  WaitStages' /\ LateAnswersAreUndone'
  BY <1>2, <1>c DEF Enter, WaitStages, LateAnswersAreUndone
<1>3. ASSUME NEW c \in Calls, Release(c)
      PROVE  WaitStages' /\ LateAnswersAreUndone'
  BY <1>3, <1>c DEF Release, WaitStages, LateAnswersAreUndone
<1>4. ASSUME NEW c \in Completions, Create(c)
      PROVE  WaitStages' /\ LateAnswersAreUndone'
  BY <1>4, <1>c DEF Create, WaitStages, LateAnswersAreUndone
<1>5. ASSUME NEW c \in Completions, Created(c)
      PROVE  WaitStages' /\ LateAnswersAreUndone'
  BY <1>5, <1>c DEF Created, WaitStages, LateAnswersAreUndone
<1>6. ASSUME NEW c \in Completions, CreatorCompletes(c)
      PROVE  WaitStages' /\ LateAnswersAreUndone'
  BY <1>6, <1>c DEF CreatorCompletes, Take, WaitStages, LateAnswersAreUndone
<1>7. ASSUME NEW c \in Completions, NativeCompletes(c)
      PROVE  WaitStages' /\ LateAnswersAreUndone'
  BY <1>7, <1>c DEF NativeCompletes, Take, WaitStages, LateAnswersAreUndone
<1>8. ASSUME NEW c \in Completions, Completed(c)
      PROVE  WaitStages' /\ LateAnswersAreUndone'
  BY <1>8, <1>c DEF Completed, WaitStages, LateAnswersAreUndone
<1>9. ASSUME NEW c \in Completions, RunCompletion(c)
      PROVE  WaitStages' /\ LateAnswersAreUndone'
  BY <1>9, <1>c DEF RunCompletion, WaitStages, LateAnswersAreUndone
<1>10. ASSUME NEW c \in Completions, CancelCompletion(c)
       PROVE  WaitStages' /\ LateAnswersAreUndone'
  BY <1>10, <1>c DEF CancelCompletion, Take, WaitStages, LateAnswersAreUndone
<1>11. ASSUME NEW c \in Waits, GuardWait(c)
       PROVE  WaitStages' /\ LateAnswersAreUndone'
  BY <1>11, <1>c DEF GuardWait, WaitStages, LateAnswersAreUndone
<1>12. ASSUME NEW c \in Waits, ArmTimer(c)
       PROVE  WaitStages' /\ LateAnswersAreUndone'
  BY <1>12, <1>c DEF ArmTimer, WaitStages, LateAnswersAreUndone
<1>13. ASSUME NEW c \in Waits, StartTimer(c)
       PROVE  WaitStages' /\ LateAnswersAreUndone'
  BY <1>13, <1>c DEF StartTimer, WaitStages, LateAnswersAreUndone
<1>14. ASSUME NEW c \in Waits, TimerExpires(c)
       PROVE  WaitStages' /\ LateAnswersAreUndone'
  BY <1>14, <1>c DEF TimerExpires, WaitStages, LateAnswersAreUndone
<1>15. ASSUME NEW c \in Waits, TakeResult(c)
       PROVE  WaitStages' /\ LateAnswersAreUndone'
  BY <1>15, <1>c DEF TakeResult, WaitStages, LateAnswersAreUndone
<1>16. ASSUME NEW c \in Waits, Unguard(c)
       PROVE  WaitStages' /\ LateAnswersAreUndone'
  BY <1>16, <1>c DEF Unguard, WaitStages, LateAnswersAreUndone
<1>17. ASSUME NEW c \in Waits, NativeWorks(c)
       PROVE  WaitStages' /\ LateAnswersAreUndone'
  BY <1>17, <1>c DEF NativeWorks, WaitStages, LateAnswersAreUndone
<1>18. ASSUME NEW c \in Waits, NativeAnswers(c)
       PROVE  WaitStages' /\ LateAnswersAreUndone'
  BY <1>18, <1>c DEF NativeAnswers, CompleteAwaitable, WaitStages, LateAnswersAreUndone
<1>19. ASSUME NEW c \in Waits, NativeFails(c)
       PROVE  WaitStages' /\ LateAnswersAreUndone'
  BY <1>19, <1>c DEF NativeFails, CompleteAwaitable, WaitStages, LateAnswersAreUndone
<1>20. ASSUME NEW c \in Waits, CancelWait(c)
       PROVE  WaitStages' /\ LateAnswersAreUndone'
  BY <1>20, <1>c DEF CancelWait, CompleteAwaitable, WaitStages, LateAnswersAreUndone
<1>21. ASSUME NEW c \in Waits, NEW who \in {"native", "closer"}, CancelTimer(c, who)
       PROVE  WaitStages' /\ LateAnswersAreUndone'
  BY <1>21, <1>c DEF CancelTimer, WaitStages, LateAnswersAreUndone
<1>22. CASE CloseBegins \/ CloseEnds \/ WaitForDrain
  BY <1>22 DEF CloseBegins, CloseEnds, WaitForDrain, WaitStages, LateAnswersAreUndone
<1> QED
  BY <1>1, <1>2, <1>3, <1>4, <1>5, <1>6, <1>7, <1>8, <1>9, <1>10, <1>11,
     <1>12, <1>13, <1>14, <1>15, <1>16, <1>17, <1>18, <1>19, <1>20, <1>21,
     <1>22
  DEF Next, CallStep, CompletionStep, WaitStep, NativeStep, CloseStep

\* Nothing that waits for native code slips out of the reach of Close.
LEMMA CloseReachesNext ==
  ASSUME TypeOK, CompletionStages, WaitStages, CloseReaches, [Next]_vars
  PROVE  CloseReaches'
<1> USE DEF gateVars, completionVars, waitVars, Goto, TypeOK
<1>c. /\ Completions \subseteq Calls /\ Waits \subseteq Calls
      /\ Completions \cap Waits = {} /\ Posts \cap Completions = {}
      /\ Posts \cap Waits = {}
  BY KindsAssumption DEF Calls
<1>1. CASE UNCHANGED vars
  BY <1>1 DEF vars, CloseReaches, CompletionStages, WaitStages, Held, Closed
<1>2. ASSUME NEW c \in Calls, Enter(c)
      PROVE  CloseReaches'
  BY <1>2, <1>c DEF Enter, CloseReaches, CompletionStages, WaitStages, Held, Closed
<1>3. ASSUME NEW c \in Calls, Release(c)
      PROVE  CloseReaches'
  BY <1>3, <1>c DEF Release, CloseReaches, CompletionStages, WaitStages, Held, Closed
<1>4. ASSUME NEW c \in Completions, Create(c)
      PROVE  CloseReaches'
  BY <1>4, <1>c DEF Create, CloseReaches, CompletionStages, WaitStages, Held, Closed
<1>5. ASSUME NEW c \in Completions, Created(c)
      PROVE  CloseReaches'
  BY <1>5, <1>c DEF Created, CloseReaches, CompletionStages, WaitStages, Held, Closed
<1>6. ASSUME NEW c \in Completions, CreatorCompletes(c)
      PROVE  CloseReaches'
  BY <1>6, <1>c DEF CreatorCompletes, Take, CloseReaches, CompletionStages, WaitStages, Held, Closed
<1>7. ASSUME NEW c \in Completions, NativeCompletes(c)
      PROVE  CloseReaches'
  BY <1>7, <1>c DEF NativeCompletes, Take, CloseReaches, CompletionStages, WaitStages, Held, Closed
<1>8. ASSUME NEW c \in Completions, Completed(c)
      PROVE  CloseReaches'
  BY <1>8, <1>c DEF Completed, CloseReaches, CompletionStages, WaitStages, Held, Closed
<1>9. ASSUME NEW c \in Completions, RunCompletion(c)
      PROVE  CloseReaches'
  BY <1>9, <1>c DEF RunCompletion, CloseReaches, CompletionStages, WaitStages, Held, Closed
<1>10. ASSUME NEW c \in Completions, CancelCompletion(c)
       PROVE  CloseReaches'
  BY <1>10, <1>c DEF CancelCompletion, Take, CloseReaches, CompletionStages, WaitStages, Held, Closed
<1>11. ASSUME NEW c \in Waits, GuardWait(c)
       PROVE  CloseReaches'
  BY <1>11, <1>c DEF GuardWait, CloseReaches, CompletionStages, WaitStages, Held, Closed
<1>12. ASSUME NEW c \in Waits, ArmTimer(c)
       PROVE  CloseReaches'
  BY <1>12, <1>c DEF ArmTimer, CloseReaches, CompletionStages, WaitStages, Held, Closed
<1>13. ASSUME NEW c \in Waits, StartTimer(c)
       PROVE  CloseReaches'
  BY <1>13, <1>c DEF StartTimer, CloseReaches, CompletionStages, WaitStages, Held, Closed
<1>14. ASSUME NEW c \in Waits, TimerExpires(c)
       PROVE  CloseReaches'
  BY <1>14, <1>c DEF TimerExpires, CloseReaches, CompletionStages, WaitStages, Held, Closed
<1>15. ASSUME NEW c \in Waits, TakeResult(c)
       PROVE  CloseReaches'
  BY <1>15, <1>c DEF TakeResult, CloseReaches, CompletionStages, WaitStages, Held, Closed
<1>16. ASSUME NEW c \in Waits, Unguard(c)
       PROVE  CloseReaches'
  BY <1>16, <1>c DEF Unguard, CloseReaches, CompletionStages, WaitStages, Held, Closed
<1>17. ASSUME NEW c \in Waits, NativeWorks(c)
       PROVE  CloseReaches'
  BY <1>17, <1>c DEF NativeWorks, CloseReaches, CompletionStages, WaitStages, Held, Closed
<1>18. ASSUME NEW c \in Waits, NativeAnswers(c)
       PROVE  CloseReaches'
  BY <1>18, <1>c DEF NativeAnswers, CompleteAwaitable, CloseReaches, CompletionStages, WaitStages, Held, Closed
<1>19. ASSUME NEW c \in Waits, NativeFails(c)
       PROVE  CloseReaches'
  BY <1>19, <1>c DEF NativeFails, CompleteAwaitable, CloseReaches, CompletionStages, WaitStages, Held, Closed
<1>20. ASSUME NEW c \in Waits, CancelWait(c)
       PROVE  CloseReaches'
  BY <1>20, <1>c DEF CancelWait, CompleteAwaitable, CloseReaches, CompletionStages, WaitStages, Held, Closed
<1>21. ASSUME NEW c \in Waits, NEW who \in {"native", "closer"}, CancelTimer(c, who)
       PROVE  CloseReaches'
  BY <1>21, <1>c DEF CancelTimer, CloseReaches, CompletionStages, WaitStages, Held, Closed
<1>22. CASE CloseBegins \/ CloseEnds \/ WaitForDrain
  BY <1>22 DEF CloseBegins, CloseEnds, WaitForDrain, CloseReaches, CompletionStages, WaitStages, Held, Closed
<1> QED
  BY <1>1, <1>2, <1>3, <1>4, <1>5, <1>6, <1>7, <1>8, <1>9, <1>10, <1>11,
     <1>12, <1>13, <1>14, <1>15, <1>16, <1>17, <1>18, <1>19, <1>20, <1>21,
     <1>22
  DEF Next, CallStep, CompletionStep, WaitStep, NativeStep, CloseStep

\* The count is zero only when nobody is inside and nothing is posted.
LEMMA ZeroIsEmpty ==
  ASSUME InFlightIsExact, in_flight = 0
  PROVE  Tickets = {} /\ Posted = {}
<1>1. Cardinality(Tickets) = 0 /\ Cardinality(Posted) = 0
  BY CountsAreFinite DEF InFlightIsExact
<1> QED BY <1>1, CountsAreFinite, FS_EmptySet

\* A closed gate that nobody is inside has nothing held either.
LEMMA ClosedAndEmpty ==
  ASSUME TypeOK, CloseReaches, closer = "closed", Tickets = {}
  PROVE  Held = {}
<1> SUFFICES ASSUME NEW c \in Held PROVE FALSE
  OBVIOUS
<1>1. c \in Calls /\ pc[c] \in {"declined", "declining"}
  BY DEF CloseReaches, Closed, Held, Calls
<1>2. c \in Tickets
  BY <1>1 DEF Tickets, HasTicket
<1> QED BY <1>2

\* What a step does to the phase of the gate and to what is inside: calls come
\* in only while it is open, and it drains only when it is closed and empty.
LEMMA GateStep ==
  ASSUME GateInv, [Next]_vars
  PROVE  /\ drained' # drained =>
              /\ drained' /\ ~drained
              /\ closer = "closed" /\ Unfinished = {} /\ UNCHANGED <<closer, Unfinished>>
         /\ closer' # closer =>
              /\ closer = "open" \/ closer' = "closed"
              /\ closer' # "open" /\ UNCHANGED <<drained, Unfinished>>
         /\ Closed => Unfinished' \subseteq Unfinished
         /\ Unfinished' \subseteq Unfinished \/ Unfinished \subseteq Unfinished'
<1> USE DEF gateVars, completionVars, waitVars, Goto, GateInv
<1>c. /\ Completions \subseteq Calls /\ Waits \subseteq Calls
  BY DEF Calls
<1> DEFINE Still == /\ UNCHANGED <<drained, closer>>
                    /\ Closed => Unfinished' \subseteq Unfinished
                    /\ Unfinished' \subseteq Unfinished \/ Unfinished \subseteq Unfinished'
           U(c) == \/ c \in Calls /\ HasTicket(c)
                   \/ c \in Completions /\ callback[c] \in {"posted", "held"}
<1>d. Unfinished = {c \in Calls : U(c)} /\ Unfinished' = {c \in Calls : U(c)'}
  BY <1>c DEF Unfinished, Tickets, Posted, Held
<1>1. CASE UNCHANGED vars
  <2>1. UNCHANGED <<Unfinished, drained, closer>>
    BY <1>1 DEF vars, Unfinished, Tickets, Posted, Held, HasTicket
  <2> QED BY <2>1
<1>2. ASSUME NEW c \in Calls, Enter(c)
      PROVE  Still
  BY <1>2, <1>d DEF Enter, HasTicket, TypeOK
<1>3. ASSUME NEW c \in Calls, Release(c)
      PROVE  Still
  BY <1>3, <1>d DEF Release, HasTicket, TypeOK
<1>4. ASSUME NEW c \in Completions, \/ Create(c) \/ Created(c) \/ CreatorCompletes(c)
                                    \/ NativeCompletes(c) \/ Completed(c)
      PROVE  Still
  <2>1. Unfinished' = Unfinished
    BY <1>4, <1>c, <1>d DEF Create, Created, CreatorCompletes, NativeCompletes, Completed,
         Take, HasTicket, TypeOK
  <2> QED BY <1>4, <2>1 DEF Create, Created, CreatorCompletes, NativeCompletes, Completed
<1>5. ASSUME NEW c \in Completions, RunCompletion(c)
      PROVE  Still
  <2>1. Unfinished' \subseteq Unfinished
    BY <1>5, <1>c, <1>d DEF RunCompletion, HasTicket, TypeOK
  <2> QED BY <1>5, <2>1 DEF RunCompletion
<1>6. ASSUME NEW c \in Completions, CancelCompletion(c)
      PROVE  Still
  <2>1. Unfinished' = Unfinished
    BY <1>6, <1>d DEF CancelCompletion, Take, HasTicket, TypeOK
  <2> QED BY <1>6, <2>1 DEF CancelCompletion
<1>7. ASSUME NEW c \in Waits, WaitStep(c) \/ NativeStep(c) \/ CancelWait(c)
      PROVE  Still
  <2>1. \A d \in Calls : HasTicket(d)' <=> HasTicket(d)
    BY <1>7, <1>c DEF WaitStep, GuardWait, ArmTimer, StartTimer, TimerExpires, TakeResult,
         Unguard, CancelTimer, NativeStep, NativeWorks, NativeAnswers, NativeFails,
         CancelWait, HasTicket, TypeOK
  <2>2. UNCHANGED <<drained, closer, callback>>
    BY <1>7 DEF WaitStep, GuardWait, ArmTimer, StartTimer, TimerExpires, TakeResult,
         Unguard, CancelTimer, NativeStep, NativeWorks, NativeAnswers, NativeFails,
         CancelWait
  <2>3. Unfinished' = Unfinished
    BY <1>d, <2>1, <2>2
  <2> QED BY <2>2, <2>3
<1>8. ASSUME CloseBegins \/ CloseEnds \/ WaitForDrain
      PROVE  UNCHANGED Unfinished
  BY <1>8, <1>d DEF CloseBegins, CloseEnds, WaitForDrain, HasTicket
<1>9. CASE CloseBegins \/ CloseEnds
  BY <1>8, <1>9 DEF CloseBegins, CloseEnds
<1>10. CASE WaitForDrain
  <2>1. Unfinished = {}
    BY <1>10, ZeroIsEmpty, ClosedAndEmpty DEF WaitForDrain, Unfinished
  <2> QED BY <1>8, <1>10, <2>1 DEF WaitForDrain
<1> QED
  BY <1>1, <1>2, <1>3, <1>4, <1>5, <1>6, <1>7, <1>9, <1>10
  DEF Next, CallStep, CompletionStep, CloseStep

LEMMA GateInvInit == Init => GateInv
<1> SUFFICES ASSUME Init PROVE GateInv
  OBVIOUS
<1>1. Tickets = {} /\ Posted = {} /\ Held = {}
  BY DEF Init, Tickets, HasTicket, Posted, Held
<1>2. InFlightIsExact
  BY <1>1, FS_EmptySet DEF Init, InFlightIsExact
<1>3. TypeOK
  BY DEF Init, TypeOK, Pc
<1>4. CompletionStages /\ WaitStages /\ LateAnswersAreUndone
  BY DEF Init, CompletionStages, WaitStages, LateAnswersAreUndone, Calls
<1>5. CloseReaches /\ DrainedStaysClosed /\ DrainedIsFinal
  BY <1>1 DEF Init, CloseReaches, DrainedStaysClosed, DrainedIsFinal, Closed, Calls
<1> QED BY <1>2, <1>3, <1>4, <1>5 DEF GateInv

LEMMA GateInvNext == GateInv /\ [Next]_vars => GateInv'
<1> SUFFICES ASSUME GateInv, [Next]_vars PROVE GateInv'
  OBVIOUS
<1> USE DEF GateInv
<1>1. TypeOK' /\ InFlightIsExact'
  BY TypeNext, CountNext
<1>2. CompletionStages' /\ WaitStages' /\ LateAnswersAreUndone' /\ CloseReaches'
  BY CompletionStagesNext, WaitStagesNext, CloseReachesNext
<1>3. DrainedStaysClosed' /\ DrainedIsFinal'
  BY GateStep DEF DrainedStaysClosed, DrainedIsFinal, Closed
<1> QED BY <1>1, <1>2, <1>3

\* The gate invariant holds of every behaviour.
THEOREM GateInvariant == Spec => []GateInv
BY GateInvInit, GateInvNext, PTL DEF Spec

\* The types of the gate, for any calls and waits.
THEOREM TypesHold == Spec => []TypeOK
<1>1. GateInv => TypeOK
  BY DEF GateInv
<1> QED BY <1>1, GateInvariant, PTL

\* in_flight_ counts the admissions exactly, for any number of calls.
THEOREM InFlightCounts == Spec => []InFlightIsExact
<1>1. GateInv => InFlightIsExact
  BY DEF GateInv
<1> QED BY <1>1, GateInvariant, PTL

\* Close leaves nothing waiting for native code.
THEOREM CloseIsComplete == Spec => []CloseCancelsAll
<1>1. GateInv => CloseCancelsAll
  BY DEF GateInv, CloseReaches, CloseCancelsAll, Closed
<1> QED BY <1>1, GateInvariant, PTL

\* A drained gate is empty and stays so.
THEOREM DrainIsFinal == Spec => []DrainedIsFinal
<1>1. GateInv => DrainedIsFinal
  BY DEF GateInv
<1> QED BY <1>1, GateInvariant, PTL

\* A completion runs at most once, and exactly once if the gate has drained.
THEOREM CompletionsRunOnce == Spec => []CompletesOnce
<1>1. GateInv => CompletesOnce
  BY DEF GateInv, CompletesOnce, CompletionStages, DrainedIsFinal, Unfinished, Posted,
         Held, TypeOK
<1> QED BY <1>1, GateInvariant, PTL

\* Native work is kept exactly when its waiter got it.
THEOREM NoAnswerIsLost == Spec => []LateAnswersAreUndone
<1>1. GateInv => LateAnswersAreUndone
  BY DEF GateInv
<1> QED BY <1>1, GateInvariant, PTL

\* The gate of executor_lifetime.h implements DrainGate.
THEOREM GateImplementsDrainGate == Spec => IsDrainGate
<1>1. Init => Gate!Init
  BY DEF Init, Gate!Init, Unfinished, Tickets, Posted, Held, HasTicket
<1>2. GateInv /\ [Next]_vars => [Gate!Next]_(Gate!vars)
  BY GateStep DEF GateInv, TypeOK, DrainedStaysClosed, Closed, Gate!Next, Gate!Enter,
       Gate!Leave, Gate!Close, Gate!Drain, Gate!vars
<1> QED BY <1>1, <1>2, GateInvariant, PTL DEF Spec, IsDrainGate, Gate!Spec

=============================================================================
