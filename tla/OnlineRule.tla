----------------------------- MODULE OnlineRule -----------------------------
(***************************************************************************)
(* What an online replay promises: the rule of GuardRule, where a job is   *)
(* admitted only with the score that the outcomes completed by then give   *)
(* it.  There are no completed lists, signatures or pauses here.           *)
(***************************************************************************)
EXTENDS GuardRule, OutcomeHistory

NoTimeout == -1

VARIABLE theta  \* head-of-line timeout that replaces the wrapper, or NoTimeout

onlineVars == <<vars, avail, theta>>

Retired == {o \in Rank : start[o] # NotStarted /\ o \notin running}
FinishOf == [o \in Rank |-> Done(o)]
ScoreOnArrival(i) == Predict(i, Rebuilt(i, Retired, FinishOf))

\* The oldest job that has waited theta if there is one, else the base choice.
TimedOut == {q \in waiting : t - a_us[q] >= theta}
ChosenByTimeout(j) ==
  /\ j \in waiting
  /\ \/ j \in TimedOut /\ \A q \in TimedOut : j <= q
     \/ TimedOut = {} /\ \A q \in waiting \ {j} : Before(j, q)

OnlineInit == Init /\ avail \in Logs /\ score = Baseline

\* The score of the next arrival is settled once every earlier completion is known.
Settle ==
  /\ ~CompletionDue /\ ArrivalDue
  /\ score' = [score EXCEPT ![next] = ScoreOnArrival(next)]
  /\ UNCHANGED <<a_us, s_us, pol, t, next, waiting, running, start, dispatchIndex,
                 order, account>>

ArriveScored == Arrive /\ score[next] = ScoreOnArrival(next)

Choose(j) == IF theta = NoTimeout THEN Chosen(j) ELSE ChosenByTimeout(j)

OnlineNext ==
  /\ \/ \E c \in Rank : Charge(c)
     \/ Settle
     \/ ArriveScored
     \/ \E j \in Rank : Choose(j) /\ Serve(j)
     \/ Tick
  /\ UNCHANGED <<avail, theta>>

OnlineSpec == OnlineInit /\ [][OnlineNext]_onlineVars
=============================================================================
