---- MODULE DialerProofs ----
(***************************************************************************)
(* The dialer keeps the campaign's rate and calls nobody twice unknowingly, *)
(* for any number of contacts and workers, any rate and any number of       *)
(* faults.                                                                  *)
(***************************************************************************)
EXTENDS Dialer, FiniteSetTheorems, TLAPS

\* The jobs a call of whose contact the scheduler still knows of.
Known == {"mark", "remaining", "complete", "done"}

\* The places of the count that are taken: by calls sent, and by jobs about to send one.
RateInv == window.calls + Cardinality(Admitted) <= Lesser(counter, rate) + window.extra

\* Every call of a job was either lost to it, or is the one it knows of.
CallInv == \A k \in Contacts : calls[k] <= unknown[k] + (IF job[k] \in Known THEN 1 ELSE 0)

\* Only the job that set the counter to 1 is about to give it its 60 s.
ExpiryInv ==
  /\ \A k \in Contacts : job[k] = "expire" => counter # 0 /\ ~expires
  /\ \A k, l \in Contacts : job[k] = "expire" /\ job[l] = "expire" => k = l

IInv == TypeOK /\ RateInv /\ CallInv /\ ExpiryInv

----
(* Sets of jobs *)

LEMMA LesserBounds ==
  ASSUME NEW m \in Nat, NEW n \in Nat
  PROVE  Lesser(m, n) \in Nat /\ Lesser(m, n) <= m /\ Lesser(m, n) <= n
BY DEF Lesser

\* The jobs at some steps are finitely many.
LEMMA JobsFinite ==
  ASSUME NEW S
  PROVE  IsFiniteSet({k \in Contacts : job[k] \in S}) /\ IsFiniteSet({k \in Contacts : job'[k] \in S})
<1>1. {k \in Contacts : job[k] \in S} \subseteq Contacts OBVIOUS
<1>2. {k \in Contacts : job'[k] \in S} \subseteq Contacts OBVIOUS
<1> QED BY <1>1, <1>2, ContactsAssumption, FS_Subset

LEMMA AdmittedFinite == IsFiniteSet(Admitted) /\ IsFiniteSet(Admitted')
<1>1. Admitted \subseteq Contacts /\ Admitted' \subseteq Contacts BY DEF Admitted
<1> QED BY <1>1, ContactsAssumption, FS_Subset

LEMMA AdmittedNat == Cardinality(Admitted) \in Nat /\ Cardinality(Admitted') \in Nat
BY AdmittedFinite, FS_CardinalityType

LEMMA AtWorkNat == Cardinality(AtWork) \in Nat /\ Cardinality(AtWork') \in Nat
BY JobsFinite, FS_CardinalityType DEF AtWork

\* A job that moves among the running steps, or away from them, makes no more workers
\* busy.
LEMMA WorkersKept ==
  ASSUME TypeOK, NEW k \in Contacts, job[k] \in Running, NEW to,
         job' = [job EXCEPT ![k] = to]
  PROVE  Cardinality(AtWork') <= Workers
<1>1. AtWork' \subseteq AtWork BY DEF AtWork, TypeOK
<1>2. Cardinality(AtWork') <= Cardinality(AtWork)
  BY <1>1, JobsFinite, FS_Subset DEF AtWork
<1> QED BY <1>2, AtWorkNat, RateAssumption DEF TypeOK

\* A job at step p is about to send a call, and has its place in the count.
Counted(p) == p = "dial" \/ (p = "expire" /\ ~OverLimit(1))

\* How a step of one job changes the set of those about to send a call.
LEMMA AdmittedEnters ==
  ASSUME TypeOK, NEW k \in Contacts, NEW to, job' = [job EXCEPT ![k] = to], rate' = rate,
         ~Counted(job[k]), Counted(to)
  PROVE  Cardinality(Admitted') = Cardinality(Admitted) + 1
<1>1. Admitted' = Admitted \cup {k} /\ k \notin Admitted BY DEF Admitted, Counted, OverLimit, TypeOK
<1> QED BY <1>1, AdmittedFinite, FS_AddElement

LEMMA AdmittedLeaves ==
  ASSUME TypeOK, NEW k \in Contacts, NEW to, job' = [job EXCEPT ![k] = to], rate' = rate,
         Counted(job[k]), ~Counted(to)
  PROVE  Cardinality(Admitted') = Cardinality(Admitted) - 1
<1>1. Admitted' = Admitted \ {k} /\ k \in Admitted BY DEF Admitted, Counted, OverLimit, TypeOK
<1> QED BY <1>1, AdmittedFinite, FS_RemoveElement

LEMMA AdmittedStays ==
  ASSUME TypeOK, NEW k \in Contacts, NEW to, job' = [job EXCEPT ![k] = to], rate' = rate,
         Counted(job[k]) <=> Counted(to)
  PROVE  Admitted' = Admitted
BY DEF Admitted, Counted, OverLimit, TypeOK

----
(* The steps *)

LEMMA InitInv == Init => IInv
<1> SUFFICES ASSUME Init PROVE IInv OBVIOUS
<1>0. rate \in Nat BY RateAssumption DEF Init
<1>1. AtWork = {} /\ Admitted = {} BY DEF Init, AtWork, Admitted, Running
<1>2. Cardinality(AtWork) = 0 /\ Cardinality(Admitted) = 0 BY <1>1, FS_EmptySet
<1>3. TypeOK
  <2>1. open \in BOOLEAN /\ expires \in BOOLEAN /\ (expires => counter # 0) BY DEF Init
  <2>2. Cardinality(AtWork) <= Workers /\ counter \in 0..rate + 1 /\ faults \in 0..MaxFaults
    BY <1>0, <1>2, RateAssumption, FaultsAssumption DEF Init
  <2> QED BY <2>1, <2>2 DEF Init, TypeOK
<1>4. RateInv BY <1>0, <1>2 DEF Init, RateInv, Lesser
<1>5. CallInv BY DEF Init, CallInv, Known
<1>6. ExpiryInv BY DEF Init, ExpiryInv
<1> QED BY <1>3, <1>4, <1>5, <1>6 DEF IInv

\* A worker takes a job only when it is free.
LEMMA TakeKeepsInv ==
  ASSUME IInv, NEW k \in Contacts, Take(k)
  PROVE  IInv'
<1> USE DEF IInv
<1>1. AtWork' = AtWork \cup {k} /\ k \notin AtWork BY DEF Take, Moves, AtWork, Running, TypeOK
<1>2. IsFiniteSet(AtWork) BY JobsFinite DEF AtWork
<1>3. Cardinality(AtWork') = Cardinality(AtWork) + 1 BY <1>1, <1>2, FS_AddElement
<1>4. Cardinality(AtWork') <= Workers
  BY <1>3, AtWorkNat, RateAssumption DEF Take
<1>5. TypeOK' BY <1>4 DEF Take, Moves, TypeOK, Running, rateVars
<1>6. Admitted' = Admitted BY DEF Take, Moves, Admitted, OverLimit, rateVars, TypeOK
<1>7. RateInv' BY <1>6 DEF Take, RateInv, rateVars
<1>8. CallInv' BY DEF Take, Moves, CallInv, Known, TypeOK
<1>9. ExpiryInv' BY DEF Take, Moves, ExpiryInv, TypeOK, rateVars
<1> QED BY <1>5, <1>7, <1>8, <1>9

\* Whatever a worker does, the state keeps its type,
LEMMA WorkKeepsType ==
  ASSUME IInv, NEW k \in Contacts, Work(k)
  PROVE  TypeOK'
<1> USE DEF IInv
<1>1. PICK to \in Running \cup {"queued", "done", "dead"} :
        job[k] \in Running /\ job' = [job EXCEPT ![k] = to]
  BY DEF Work, ReadCampaign, Count, SetExpiry, Originate, MarkCalling, HandleFailure,
         Remaining, CompleteCampaign, Moves, Running
<1>2. Cardinality(AtWork') <= Workers BY <1>1, WorkersKept
<1>3. job' \in [Contacts -> Running \cup {"queued", "done", "dead"}] BY <1>1 DEF TypeOK
<1>4. faults' \in 0..MaxFaults
  BY FaultsAssumption DEF TypeOK, Work, ReadCampaign, Count, SetExpiry, Originate, MarkCalling,
     HandleFailure, Remaining, CompleteCampaign, Fault, Writes, SetsContact, MarksForRetry
<1> QED
  <2> USE <1>2, <1>3, <1>4 DEF TypeOK, rateVars
  <2>1. CASE ReadCampaign(k) BY <2>1 DEF ReadCampaign
  <2>2. CASE Count(k) BY <2>2, RateAssumption DEF Count, Lesser
  <2>3. CASE SetExpiry(k)
    <3>1. expires' \in BOOLEAN /\ counter' = counter /\ counter # 0 BY <2>3 DEF SetExpiry, ExpiryInv, Moves
    <3>2. window' \in [calls : Nat, extra : Nat]
      <4>1. window' = window \/ window' = [window EXCEPT !.extra = @ + 1] BY <2>3 DEF SetExpiry
      <4> QED BY <4>1
    <3> QED BY <2>3, <3>1, <3>2 DEF SetExpiry
  <2>4. CASE Originate(k) BY <2>4 DEF Originate
  <2>5. CASE MarkCalling(k) BY <2>5 DEF MarkCalling, Writes, SetsContact
  <2>6. CASE HandleFailure(k) BY <2>6 DEF HandleFailure, Writes, SetsContact, MarksForRetry
  <2>7. CASE Remaining(k) BY <2>7 DEF Remaining
  <2>8. CASE CompleteCampaign(k) BY <2>8 DEF CompleteCampaign, Writes
  <2> QED BY <2>1, <2>2, <2>3, <2>4, <2>5, <2>6, <2>7, <2>8 DEF Work

\* and the calls stay within the rate,
LEMMA WorkKeepsRate ==
  ASSUME IInv, NEW k \in Contacts, Work(k)
  PROVE  RateInv'
<1> USE DEF IInv
<1>0. rate \in Nat /\ counter \in Nat /\ counter <= rate + 1 /\ window \in [calls : Nat, extra : Nat]
  BY RateAssumption DEF TypeOK
<1>01. rate' = rate
  BY DEF Work, ReadCampaign, Count, SetExpiry, Originate, MarkCalling, HandleFailure, Remaining,
         CompleteCampaign, rateVars
<1>1. CASE ReadCampaign(k)
  <2>1. PICK to \in {"dead", "done", "queued", "count"} : Moves(k, "campaign", to)
    BY <1>1 DEF ReadCampaign
  <2>2. Admitted' = Admitted BY <1>01, <2>1, AdmittedStays DEF Moves, Counted
  <2> QED BY <1>1, <2>2 DEF ReadCampaign, RateInv, rateVars
<1>2. CASE Count(k)
  <2> DEFINE up == Lesser(counter + 1, rate + 1)
  <2>1. ASSUME NEW to, Moves(k, "count", to), Counted(to), counter' = up, up <= rate, UNCHANGED window
        PROVE  RateInv'
    <3>1. Cardinality(Admitted') = Cardinality(Admitted) + 1
      BY <1>01, <2>1, AdmittedEnters DEF Moves, Counted
    <3>2. counter' = counter + 1 BY <1>0, <2>1 DEF Lesser
    <3> QED BY <1>0, <1>01, <2>1, <3>1, <3>2, AdmittedNat DEF RateInv, Lesser
  <2>2. ASSUME NEW to, Moves(k, "count", to), ~Counted(to), counter' = up, UNCHANGED window
        PROVE  RateInv'
    <3>1. Admitted' = Admitted BY <1>01, <2>2, AdmittedStays DEF Moves, Counted
    <3> QED BY <1>0, <1>01, <2>2, <3>1, AdmittedNat DEF RateInv, Lesser
  <2>3. CASE Moves(k, "count", "dial") /\ window' = [window EXCEPT !.extra = @ + 1] /\ UNCHANGED counter
    <3>1. Cardinality(Admitted') = Cardinality(Admitted) + 1
      BY <1>01, <2>3, AdmittedEnters DEF Moves, Counted
    <3> QED BY <1>0, <1>01, <2>3, <3>1, AdmittedNat DEF RateInv, Lesser
  <2>4. CASE counter = 0 /\ Moves(k, "count", "expire") /\ counter' = up /\ UNCHANGED window
    <3>1. CASE OverLimit(1) BY <2>2, <2>4, <3>1 DEF Counted
    <3>2. CASE ~OverLimit(1)
      <4>1. up <= rate BY <1>0, <2>4, <3>2 DEF OverLimit, Lesser
      <4>2. Counted("expire") BY <3>2 DEF Counted
      <4> QED BY <2>1, <2>4, <4>1, <4>2
    <3> QED BY <3>1, <3>2
  <2>5. CASE counter # 0 /\ ~OverLimit(counter') /\ Moves(k, "count", "dial") /\ counter' = up
             /\ UNCHANGED window
    <3>1. up <= rate BY <1>0, <2>5 DEF OverLimit, Lesser
    <3>2. Counted("dial") BY DEF Counted
    <3> QED BY <2>1, <2>5, <3>1, <3>2
  <2>6. CASE Moves(k, "count", "queued") /\ counter' = up /\ UNCHANGED window
    <3>1. ~Counted("queued") BY DEF Counted
    <3> QED BY <2>2, <2>6, <3>1
  <2> QED BY <1>2, <2>3, <2>4, <2>5, <2>6 DEF Count
<1>3. CASE SetExpiry(k)
  <2>1. CASE ~OverLimit(1)
    <3>1. Moves(k, "expire", "dial") BY <1>3, <2>1 DEF SetExpiry
    <3>2. Admitted' = Admitted BY <1>01, <2>1, <3>1, AdmittedStays DEF Moves, Counted
    <3> QED BY <1>3, <2>1, <3>2 DEF SetExpiry, RateInv
  <2>2. CASE OverLimit(1) /\ Moves(k, "expire", "queued") /\ UNCHANGED window
    <3>1. Admitted' = Admitted BY <1>01, <2>2, AdmittedStays DEF Moves, Counted
    <3> QED BY <1>3, <2>2, <3>1 DEF SetExpiry, RateInv
  <2>3. CASE OverLimit(1) /\ Moves(k, "expire", "dial") /\ window' = [window EXCEPT !.extra = @ + 1]
    <3>1. Cardinality(Admitted') = Cardinality(Admitted) + 1
      BY <1>01, <2>3, AdmittedEnters DEF Moves, Counted
    <3>2. counter' = counter BY <1>3 DEF SetExpiry
    <3> QED BY <1>0, <1>01, <2>3, <3>1, <3>2, AdmittedNat DEF RateInv, Lesser
  <2> QED BY <1>3, <2>1, <2>2, <2>3 DEF SetExpiry
<1>4. CASE Originate(k)
  <2>1. PICK to \in {"mark", "retry"} : Moves(k, "dial", to) BY <1>4 DEF Originate
  <2>2. Cardinality(Admitted') = Cardinality(Admitted) - 1
    BY <1>01, <2>1, AdmittedLeaves DEF Moves, Counted
  <2>3. counter' = counter BY <1>4 DEF Originate, rateVars
  <2> QED BY <1>0, <1>01, <1>4, <2>2, <2>3, AdmittedNat DEF Originate, RateInv, Lesser
<1>5. CASE MarkCalling(k) \/ HandleFailure(k) \/ Remaining(k) \/ CompleteCampaign(k)
  <2>1. PICK from \in {"mark", "retry", "remaining", "complete"},
             to \in {"remaining", "queued", "complete", "done"} : Moves(k, from, to)
    BY <1>5 DEF MarkCalling, HandleFailure, Remaining, CompleteCampaign
  <2>2. Admitted' = Admitted BY <1>01, <2>1, AdmittedStays DEF Moves, Counted
  <2> QED BY <1>5, <2>2 DEF MarkCalling, HandleFailure, Remaining, CompleteCampaign, RateInv, rateVars
<1> QED BY <1>1, <1>2, <1>3, <1>4, <1>5 DEF Work

\* and no call is forgotten that the scheduler could know of.
LEMMA WorkKeepsCalls ==
  ASSUME IInv, NEW k \in Contacts, Work(k)
  PROVE  CallInv' /\ ExpiryInv'
<1> USE DEF IInv
<1>1. CallInv'
  <2>1. CASE Originate(k) BY <2>1 DEF Originate, CallInv, Moves, Known, TypeOK
  <2>2. CASE ~Originate(k)
    <3>1. calls' = calls /\ unknown' = unknown
      BY <2>2 DEF Work, ReadCampaign, Count, SetExpiry, MarkCalling, HandleFailure, Remaining, CompleteCampaign
    <3>2. job[k] \in Known => job'[k] \in Known
      BY <2>2 DEF Work, ReadCampaign, Count, SetExpiry, MarkCalling, HandleFailure, Remaining,
                  CompleteCampaign, Moves, Known, TypeOK
    <3>3. \A l \in Contacts \ {k} : job'[l] = job[l]
      BY <2>2 DEF Work, ReadCampaign, Count, SetExpiry, MarkCalling, HandleFailure, Remaining,
                  CompleteCampaign, Moves, TypeOK
    <3> QED BY <3>1, <3>2, <3>3 DEF CallInv, TypeOK
  <2> QED BY <2>1, <2>2
<1>2. ExpiryInv'
  <2>1. CASE Count(k) BY <2>1, RateAssumption DEF Count, ExpiryInv, Moves, Lesser, TypeOK
  <2>2. CASE SetExpiry(k) BY <2>2 DEF SetExpiry, ExpiryInv, Moves, TypeOK
  <2>3. CASE ~Count(k) /\ ~SetExpiry(k)
    BY <2>3 DEF Work, ReadCampaign, Originate, MarkCalling, HandleFailure, Remaining,
                CompleteCampaign, ExpiryInv, Moves, TypeOK, rateVars
  <2> QED BY <2>1, <2>2, <2>3
<1> QED BY <1>1, <1>2

\* What happens around the jobs.
LEMMA AroundKeepsInv ==
  ASSUME IInv, CounterExpires \/ SetStatus \/ Clock \/ Crash
  PROVE  IInv'
<1> USE DEF IInv
<1>1. CASE CounterExpires
  <2>1. AtWork' = AtWork /\ Admitted' = Admitted BY <1>1 DEF CounterExpires, AtWork, Admitted, OverLimit
  <2>2. counter' \in 0..rate + 1 /\ window' \in [calls : Nat, extra : Nat]
    <3>1. rate \in Nat /\ rate' = rate BY <1>1, RateAssumption DEF CounterExpires, TypeOK
    <3> QED BY <1>1, <3>1, AdmittedNat DEF CounterExpires
  <2>5. expires' \in BOOLEAN /\ ~expires' BY <1>1 DEF CounterExpires
  <2>6. TypeOK' BY <1>1, <2>1, <2>2, <2>5 DEF CounterExpires, TypeOK
  <2>3. RateInv'
    <3>1. rate \in Nat /\ rate' = rate BY <1>1, RateAssumption DEF CounterExpires, TypeOK
    <3> QED BY <1>1, <2>1, <3>1, AdmittedNat DEF CounterExpires, RateInv, Lesser
  <2>4. CallInv' /\ ExpiryInv' BY <1>1 DEF CounterExpires, CallInv, ExpiryInv
  <2> QED BY <2>6, <2>3, <2>4
<1>2. CASE SetStatus \/ Clock
  <2>1. AtWork' = AtWork /\ Admitted' = Admitted
    BY <1>2 DEF SetStatus, Clock, AtWork, Admitted, OverLimit, rateVars
  <2>2. TypeOK'
    <3>1. open' \in BOOLEAN BY <1>2 DEF SetStatus, Clock, TypeOK
    <3>2. status' \in {"active", "paused", "completed"} BY <1>2 DEF SetStatus, Clock, TypeOK
    <3> QED BY <1>2, <2>1, <3>1, <3>2 DEF SetStatus, Clock, TypeOK, rateVars
  <2>3. RateInv' BY <1>2, <2>1 DEF SetStatus, Clock, RateInv, rateVars
  <2>4. CallInv' /\ ExpiryInv' BY <1>2 DEF SetStatus, Clock, CallInv, ExpiryInv, rateVars
  <2> QED BY <2>2, <2>3, <2>4
<1>3. CASE Crash
  <2>1. AtWork' = {} /\ Admitted' = {} BY <1>3 DEF Crash, AtWork, Admitted, Running, TypeOK
  <2>2. Cardinality(AtWork') = 0 /\ Cardinality(Admitted') = 0 BY <2>1, FS_EmptySet
  <2>3. TypeOK' BY <1>3, <2>2, RateAssumption, FaultsAssumption DEF Crash, Fault, TypeOK, rateVars
  <2>4. RateInv' BY <1>3, <2>2, AdmittedNat, RateAssumption DEF Crash, RateInv, Lesser, TypeOK, rateVars
  <2>5. CallInv' BY <1>3 DEF Crash, CallInv, Known, AtWork, Running, TypeOK
  <2>6. ExpiryInv' BY <1>3 DEF Crash, ExpiryInv, AtWork, Running, TypeOK, rateVars
  <2> QED BY <2>3, <2>4, <2>5, <2>6
<1> QED BY <1>1, <1>2, <1>3

LEMMA NextKeepsInv == IInv /\ [Next]_vars => IInv'
<1> SUFFICES ASSUME IInv, [Next]_vars PROVE IInv' OBVIOUS
<1>1. ASSUME NEW k \in Contacts, Take(k) PROVE IInv' BY <1>1, TakeKeepsInv
<1>2. ASSUME NEW k \in Contacts, Work(k) PROVE IInv'
  BY <1>2, WorkKeepsType, WorkKeepsRate, WorkKeepsCalls DEF IInv
<1>3. ASSUME CounterExpires \/ SetStatus \/ Clock \/ Crash PROVE IInv' BY <1>3, AroundKeepsInv
<1>4. CASE UNCHANGED vars
  <2>1. AtWork' = AtWork /\ Admitted' = Admitted BY <1>4 DEF vars, rateVars, AtWork, Admitted, OverLimit
  <2> QED BY <1>4, <2>1 DEF vars, rateVars, IInv, TypeOK, RateInv, CallInv, ExpiryInv
<1> QED BY <1>1, <1>2, <1>3, <1>4 DEF Next

LEMMA Invariant == Spec => []IInv
BY InitInv, NextKeepsInv, PTL DEF Spec

----
(* The theorems *)

\* Every variable keeps its type, no more workers are busy than there are, and no contact
\* is called again unless a call to it had been lost from sight (handle_outbound_call,
\* handle_call_failure).
THEOREM NobodyCalledTwice == Spec => []DialInv
<1>1. IInv => DialInv
  BY DEF IInv, CallInv, DialInv, CalledOnce, TypeOK
<1> QED BY Invariant, <1>1, PTL

\* In the life of the counter no more calls are sent than the rate allows, besides those
\* the counter could not count, however the workers interleave with its expiry
\* (increment_rate_counter, handle_outbound_call).
THEOREM RateKept == Spec => []RateHeld
<1>1. IInv => RateHeld
  BY AdmittedNat, RateAssumption DEF IInv, RateInv, RateHeld, Lesser, TypeOK
<1> QED BY Invariant, <1>1, PTL
====
