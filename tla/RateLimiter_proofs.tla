------------------------- MODULE RateLimiter_proofs -------------------------
(***************************************************************************)
(* The properties of RateLimiter, for every limit, window, clock           *)
(* resolution and number of requests.                                      *)
(***************************************************************************)
EXTENDS RateLimiter, FiniteSetTheorems, TLAPS

(* The requests that have been answered. *)
Answered == {r \in Requests : stage[r] \in Answers}

(* Stamps, pipelines and entries are in the past, and an entry belongs to  *)
(* an answered request of the present epoch.                               *)
PastInv ==
    /\ IsFiniteSet(Answered)
    /\ bucket \subseteq Answered
    /\ \A r \in Requests : stage[r] # "new" => stamp[r] <= clock
    /\ \A r \in Checked \cup bucket :
          stamp[r] <= done[r] /\ done[r] <= clock /\ during[r] <= epoch
    /\ \A r \in bucket : during[r] = epoch

(* What a check of the present epoch recorded is still in the sorted set,  *)
(* unless its stamp is out of every window that can still be asked for.    *)
KeptInv ==
    \A r \in Checked : during[r] = epoch =>
        /\ done[r] + 2 * Window <= deadline
        /\ stamp[r] + Window > clock => r \in bucket

SpikeInv ==
    \A t, e \in Nat :
        /\ IsFiniteSet(AdmittedWithin(t, e))
        /\ Cardinality(AdmittedWithin(t, e)) <= MaxRequests

CauseSet(r) ==
    {q \in Requests \ {r} :
        /\ stage[q] \in Answers /\ during[q] = during[r]
        /\ done[q] <= done[r] /\ stamp[q] + Window > stamp[r]}

LimiterInv ==
    TypeOK /\ PastInv /\ KeptInv /\ SpikeInv /\ RejectionHasCause /\ RetryAfterInRange

USE RateLimiterAssumption

LEMMA WindowType == Window \in Nat /\ Window >= TicksPerSecond /\ Window >= 1
  BY DEF Window

-----------------------------------------------------------------------------
LEMMA InitLimiterInv == Init => LimiterInv
<1> SUFFICES ASSUME Init PROVE LimiterInv
  OBVIOUS
<1>1. TypeOK
  BY DEF Init, TypeOK, Stages
<1>2. Answered = {} /\ Checked = {} /\ \A t, e \in Nat : AdmittedWithin(t, e) = {}
  BY DEF Init, Answered, Answers, Checked, AdmittedWithin, Admitted
<1>3. PastInv
  BY <1>2, FS_EmptySet DEF Init, PastInv
<1>4. KeptInv
  BY <1>2 DEF KeptInv
<1>5. SpikeInv
  BY <1>2, FS_EmptySet DEF SpikeInv
<1>6. RejectionHasCause /\ RetryAfterInRange
  BY DEF Init, RejectionHasCause, RetryAfterInRange
<1>7. QED
  BY <1>1, <1>3, <1>4, <1>5, <1>6 DEF LimiterInv

-----------------------------------------------------------------------------
(* Answering one more request keeps the answered requests finite.          *)

LEMMA AnswerOne ==
    ASSUME TypeOK, NEW r \in Requests, NEW answer \in Answers,
           stage' = [stage EXCEPT ![r] = answer], IsFiniteSet(Answered)
    PROVE  /\ Answered' = Answered \cup {r}
           /\ IsFiniteSet(Answered')
<1>1. Answered' = Answered \cup {r}
  BY DEF TypeOK, Answered
<1>2. QED
  BY <1>1, FS_AddElement

(* A rejection keeps its cause while no answered request changes.          *)
LEMMA CausesKept ==
    ASSUME TypeOK, RejectionHasCause, NEW r \in Requests,
           stage[r] = "rejected", UNCHANGED stamp, IsFiniteSet(Answered'),
           \A q \in Answered : /\ q \in Answered'
                               /\ done'[q] = done[q] /\ during'[q] = during[q]
    PROVE  Cardinality(CauseSet(r)') >= MaxRequests
<1>1. r \in Answered
  BY DEF Answered, Answers
<1>2. CauseSet(r) \subseteq CauseSet(r)'
  BY <1>1 DEF CauseSet, Answered
<1>3. CauseSet(r)' \subseteq Answered'
  BY DEF CauseSet, Answered
<1>4. IsFiniteSet(CauseSet(r)') /\ IsFiniteSet(CauseSet(r))
  BY <1>2, <1>3, FS_Subset
<1>5. Cardinality(CauseSet(r)) <= Cardinality(CauseSet(r)')
  BY <1>2, <1>4, FS_Subset
<1>6. Cardinality(CauseSet(r)) >= MaxRequests
  BY DEF RejectionHasCause, CauseSet
<1>7. Cardinality(CauseSet(r)) \in Nat /\ Cardinality(CauseSet(r)') \in Nat
  BY <1>4, FS_CardinalityType
<1>8. QED
  BY <1>5, <1>6, <1>7

(* An executed pipeline, whatever its request is answered.                 *)
LEMMA RecordKeepsSets ==
    ASSUME LimiterInv, NEW r \in Requests, stage[r] = "stamped", NEW answer \in Answers,
           Record(r), stage' = [stage EXCEPT ![r] = answer], UNCHANGED <<clock, epoch, stamp>>
    PROVE  PastInv' /\ KeptInv'
<1> USE WindowType DEF LimiterInv, TypeOK, Record
<1>1. /\ Answered' = Answered \cup {r} /\ IsFiniteSet(Answered')
      /\ r \notin Answered
  BY AnswerOne DEF PastInv, Answered, Answers
<1>2. /\ done'[r] = clock /\ during'[r] = epoch
      /\ \A q \in Requests \ {r} : done'[q] = done[q] /\ during'[q] = during[q]
      /\ \A q \in Requests \ {r} : stage'[q] = stage[q]
      /\ stage'[r] = answer
  OBVIOUS
<1>3. Trimmed(r) \subseteq bucket
  BY DEF Trimmed
<1>4. r \notin bucket /\ r \notin Checked
  BY <1>1 DEF PastInv, Checked
<1>5. Checked' \subseteq Checked \cup {r}
  BY <1>2 DEF Checked
<1>6. PastInv'
  <2>1. bucket' \subseteq Answered'
    BY <1>1, <1>3 DEF PastInv
  <2>2. \A q \in Requests : stage'[q] # "new" => stamp'[q] <= clock'
    BY <1>2 DEF PastInv
  <2>3. \A q \in (Checked \cup bucket)' : q = r \/ (q \in Checked \cup bucket /\ q # r)
    BY <1>3, <1>4, <1>5
  <2>4. \A q \in (Checked \cup bucket)' :
           stamp'[q] <= done'[q] /\ done'[q] <= clock' /\ during'[q] <= epoch'
    BY <1>2, <2>3, <2>2 DEF PastInv, Checked
  <2>5. \A q \in bucket' : during'[q] = epoch'
    BY <1>2, <1>3, <1>4 DEF PastInv
  <2>6. QED
    BY <1>1, <2>1, <2>2, <2>4, <2>5 DEF PastInv
<1>7. KeptInv'
  <2> SUFFICES ASSUME NEW q \in Checked', during'[q] = epoch'
               PROVE  /\ done'[q] + 2 * Window <= deadline'
                      /\ stamp'[q] + Window > clock' => q \in bucket'
    BY DEF KeptInv
  <2>1. q \in Requests /\ done'[q] <= clock
    BY <1>6 DEF PastInv, Checked
  <2>2. done'[q] \in Nat
    BY <2>1, <1>2
  <2>3. done'[q] + 2 * Window <= deadline'
    BY <2>1, <2>2
  <2>4. ASSUME q # r, stamp[q] + Window > clock PROVE q \in bucket'
    <3>1. q \in Checked /\ during[q] = epoch
      BY <1>2, <1>5, <2>1, <2>4
    <3>2. q \in bucket /\ done[q] + 2 * Window <= deadline /\ stamp[q] <= done[q]
      BY <2>4, <3>1 DEF KeptInv, PastInv
    <3>3. stamp[r] <= clock
      BY DEF PastInv
    <3>4. clock < deadline
      BY <2>1, <2>4, <3>2
    <3>5. stamp[q] + Window > stamp[r]
      BY <2>1, <2>4, <3>3
    <3>6. QED
      BY <3>2, <3>4, <3>5 DEF Trimmed
  <2>5. QED
    BY <2>3, <2>4
<1>8. QED
  BY <1>6, <1>7

(* A request that is not admitted disturbs no window.                      *)
LEMMA SpikeUntouched ==
    ASSUME TypeOK, SpikeInv, NEW r \in Requests, stage[r] \notin Answers,
           NEW answer \in Stages \ {"admitted"}, stage' = [stage EXCEPT ![r] = answer],
           \A q \in Requests \ {r} :
              stamp'[q] = stamp[q] /\ done'[q] = done[q] /\ during'[q] = during[q]
    PROVE  SpikeInv'
<1>1. Admitted' = Admitted /\ r \notin Admitted /\ Admitted \subseteq Requests
  BY DEF TypeOK, Admitted, Answers
<1>2. \A t, e \in Nat : AdmittedWithin(t, e)' = AdmittedWithin(t, e)
  BY <1>1 DEF AdmittedWithin
<1>3. QED
  BY <1>2 DEF SpikeInv

-----------------------------------------------------------------------------
(* One lemma per action.                                                   *)

LEMMA TickKeepsInv == ASSUME LimiterInv, Tick PROVE LimiterInv'
<1> USE DEF LimiterInv, Tick, redisVars, requestVars
<1>1. TypeOK'
  BY DEF TypeOK
<1>2. clock \in Nat /\ clock' = clock + 1 /\ \A r \in Requests : stamp[r] \in Nat /\ done[r] \in Nat
  BY DEF TypeOK
<1>3. Answered' = Answered /\ Checked' = Checked /\ Admitted' = Admitted
  BY DEF Answered, Checked, Admitted
<1>4. PastInv'
  BY <1>2, <1>3 DEF PastInv, Checked, TypeOK
<1>5. KeptInv'
  BY <1>2, <1>3, WindowType DEF KeptInv, Checked
<1>6. SpikeInv'
  BY <1>3 DEF SpikeInv, AdmittedWithin
<1>7. RejectionHasCause' /\ RetryAfterInRange'
  BY DEF RejectionHasCause, RetryAfterInRange
<1>8. QED
  BY <1>1, <1>4, <1>5, <1>6, <1>7

LEMMA RestartKeepsInv == ASSUME LimiterInv, RestartRedis PROVE LimiterInv'
<1> USE DEF LimiterInv, RestartRedis, requestVars
<1>1. TypeOK'
  BY DEF TypeOK
<1>2. Answered' = Answered /\ Checked' = Checked /\ Admitted' = Admitted
  BY DEF Answered, Checked, Admitted
<1>3. epoch' = epoch + 1 /\ epoch \in Nat /\ \A r \in Requests : during[r] \in Nat
  BY DEF TypeOK
<1>4. PastInv'
  BY <1>2, <1>3 DEF PastInv, Checked
<1>5. KeptInv'
  BY <1>2, <1>3 DEF KeptInv, PastInv, Checked
<1>6. SpikeInv'
  BY <1>2 DEF SpikeInv, AdmittedWithin
<1>7. RejectionHasCause' /\ RetryAfterInRange'
  BY DEF RejectionHasCause, RetryAfterInRange
<1>8. QED
  BY <1>1, <1>4, <1>5, <1>6, <1>7

LEMMA StampKeepsInv == ASSUME LimiterInv, NEW r \in Requests, Stamp(r) PROVE LimiterInv'
<1> USE DEF LimiterInv, Stamp, redisVars
<1>1. TypeOK'
  BY DEF TypeOK, Stages
<1>2. /\ stage'[r] = "stamped" /\ stamp'[r] = clock /\ stage[r] = "new"
      /\ \A q \in Requests \ {r} : stage'[q] = stage[q] /\ stamp'[q] = stamp[q]
  BY DEF TypeOK
<1>3. Answered' = Answered /\ Checked' = Checked /\ Admitted' = Admitted
  BY <1>2 DEF Answered, Answers, Checked, Admitted
<1>4. r \notin Answered /\ r \notin Checked /\ r \notin bucket
  BY <1>2 DEF Answered, Answers, Checked, PastInv
<1>5. PastInv'
  <2>1. \A q \in Requests : stage'[q] # "new" => stamp'[q] <= clock
    BY <1>2 DEF PastInv, TypeOK
  <2>2. \A q \in Checked \cup bucket : q \in Requests /\ q # r /\ stamp'[q] = stamp[q]
    BY <1>2, <1>4 DEF Checked, TypeOK
  <2>3. QED
    BY <1>3, <2>1, <2>2 DEF PastInv
<1>6. KeptInv'
  BY <1>2, <1>3, <1>4 DEF KeptInv, Checked
<1>7. SpikeInv'
  BY <1>2, SpikeUntouched DEF Answers, Stages
<1>8. RejectionHasCause'
  <2>1. \A q \in Requests : stage'[q] = "rejected" => CauseSet(q)' = CauseSet(q)
    BY <1>2 DEF CauseSet, Answers
  <2>2. QED
    BY <1>2, <2>1 DEF RejectionHasCause, CauseSet
<1>9. RetryAfterInRange'
  BY <1>2 DEF RetryAfterInRange
<1>10. QED
  BY <1>1, <1>5, <1>6, <1>7, <1>8, <1>9

LEMMA AdmitKeepsInv == ASSUME LimiterInv, NEW r \in Requests, Admit(r) PROVE LimiterInv'
<1> USE DEF LimiterInv
<1>1. TypeOK'
  BY DEF TypeOK, Admit, Record, Stages, Answers, Trimmed, Window
<1>2. PastInv' /\ KeptInv'
  BY RecordKeepsSets DEF Admit, Answers
<1>3. /\ stage[r] = "stamped" /\ stage'[r] = "admitted"
      /\ done'[r] = clock /\ during'[r] = epoch
      /\ \A q \in Requests \ {r} :
            stage'[q] = stage[q] /\ done'[q] = done[q] /\ during'[q] = during[q]
      /\ UNCHANGED <<clock, epoch, stamp>>
  BY DEF TypeOK, Admit, Record
<1>4. Admitted' = Admitted \cup {r} /\ r \notin Admitted
  BY <1>3 DEF Admitted
<1>5. IsFiniteSet(bucket') /\ Cardinality(bucket') <= MaxRequests
  BY <1>2, FS_Subset DEF PastInv, Admit, Record, RequestCount
<1>6. SpikeInv'
  <2> SUFFICES ASSUME NEW t \in Nat, NEW e \in Nat
               PROVE  /\ IsFiniteSet(AdmittedWithin(t, e)')
                      /\ Cardinality(AdmittedWithin(t, e)') <= MaxRequests
    BY DEF SpikeInv
  <2>1. CASE ~(epoch = e /\ t <= stamp[r] /\ clock < t + Window)
    <3>1. AdmittedWithin(t, e)' = AdmittedWithin(t, e)
      BY <1>3, <1>4, <2>1 DEF AdmittedWithin, Admitted
    <3>2. QED
      BY <3>1 DEF SpikeInv
  <2>2. CASE epoch = e /\ t <= stamp[r] /\ clock < t + Window
    <3>1. ASSUME NEW q \in AdmittedWithin(t, e)' PROVE q \in bucket'
      <4>1. q \in Checked' /\ during'[q] = epoch' /\ t <= stamp'[q]
        BY <1>3, <2>2, <3>1 DEF AdmittedWithin, Admitted, Checked
      <4>2. clock' < t + Window /\ stamp'[q] \in Nat /\ clock' \in Nat
        BY <1>1, <1>3, <2>2, <4>1 DEF TypeOK, Checked
      <4>3. stamp'[q] + Window > clock'
        BY <4>1, <4>2, WindowType
      <4>4. QED
        BY <1>2, <4>1, <4>3 DEF KeptInv
    <3>2. AdmittedWithin(t, e)' \subseteq bucket'
      BY <3>1
    <3>3. /\ IsFiniteSet(AdmittedWithin(t, e)')
          /\ Cardinality(AdmittedWithin(t, e)') <= Cardinality(bucket')
      BY <1>5, <3>2, FS_Subset
    <3>4. Cardinality(bucket') \in Nat /\ Cardinality(AdmittedWithin(t, e)') \in Nat
      BY <1>5, <3>3, FS_CardinalityType
    <3>5. QED
      BY <1>5, <3>3, <3>4
  <2>3. QED
    BY <2>1, <2>2
<1>7. IsFiniteSet(Answered')
  BY <1>2 DEF PastInv
<1>8. RejectionHasCause'
  <2> SUFFICES ASSUME NEW x \in Requests, stage'[x] = "rejected"
               PROVE  Cardinality(CauseSet(x)') >= MaxRequests
    BY DEF RejectionHasCause, CauseSet
  <2>1. stage[x] = "rejected"
    BY <1>3
  <2>2. \A q \in Answered : /\ q \in Answered'
                            /\ done'[q] = done[q] /\ during'[q] = during[q]
    BY <1>3 DEF Answered, Answers
  <2>3. QED
    BY <1>3, <1>7, <2>1, <2>2, CausesKept
<1>9. RetryAfterInRange'
  BY <1>3 DEF RetryAfterInRange, Admit
<1>10. QED
  BY <1>1, <1>2, <1>6, <1>8, <1>9

(* int() of a time within the window, and at least 1, is a second of it.   *)
LEMMA SecondsInRange ==
    ASSUME NEW left \in Nat, left <= Window
    PROVE  left \div TicksPerSecond \in 0..WindowSeconds
<1> DEFINE q == left \div TicksPerSecond
<1>1. q \in Nat /\ TicksPerSecond * q <= left
  OBVIOUS
<1>2. TicksPerSecond * q <= TicksPerSecond * WindowSeconds
  BY <1>1 DEF Window
<1>3. q <= WindowSeconds
  BY <1>1, <1>2
<1>4. QED
  BY <1>1, <1>3

LEMMA RejectKeepsInv == ASSUME LimiterInv, NEW r \in Requests, Reject(r) PROVE LimiterInv'
<1> USE DEF LimiterInv
<1>1. PICK oldest \in Requests :
         /\ IsOldest(oldest, Trimmed(r) \cup {r})
         /\ retry' = [retry EXCEPT ![r] = RetryAfter(r, oldest)]
  BY DEF Reject
<1>2. RetryAfter(r, oldest) \in 1..WindowSeconds
  <2>1. stamp[oldest] <= stamp[r] /\ stamp[oldest] + Window > stamp[r]
    BY <1>1, WindowType DEF IsOldest, Trimmed, TypeOK
  <2>2. stamp[oldest] + Window - stamp[r] \in Nat /\ stamp[oldest] + Window - stamp[r] <= Window
    BY <2>1, WindowType DEF TypeOK
  <2>3. (stamp[oldest] + Window - stamp[r]) \div TicksPerSecond \in 0..WindowSeconds
    BY <2>2, SecondsInRange
  <2>4. QED
    BY <2>3 DEF RetryAfter
<1>3. TypeOK'
  BY <1>1, <1>2 DEF TypeOK, Reject, Record, Stages, Answers, Trimmed, Window
<1>4. PastInv' /\ KeptInv'
  BY RecordKeepsSets DEF Reject, Answers
<1>5. /\ stage[r] = "stamped" /\ stage'[r] = "rejected"
      /\ done'[r] = clock /\ during'[r] = epoch
      /\ \A q \in Requests \ {r} :
            /\ stage'[q] = stage[q] /\ done'[q] = done[q] /\ during'[q] = during[q]
            /\ retry'[q] = retry[q]
      /\ UNCHANGED <<clock, epoch, stamp>>
      /\ stage' = [stage EXCEPT ![r] = "rejected"]
  BY <1>1 DEF TypeOK, Reject, Record
<1>6. SpikeInv'
  BY <1>5, SpikeUntouched DEF Answers, Stages
<1>7. Cardinality(CauseSet(r)') >= MaxRequests
  <2>1. IsFiniteSet(bucket')
    BY <1>4, FS_Subset DEF PastInv
  <2>2. r \in bucket' /\ Cardinality(bucket') > MaxRequests
    BY DEF Reject, Record, RequestCount
  <2>3. Cardinality(bucket' \ {r}) >= MaxRequests /\ IsFiniteSet(bucket' \ {r})
    <3>1. Cardinality(bucket') \in Nat
      BY <2>1, FS_CardinalityType
    <3>2. /\ IsFiniteSet(bucket' \ {r})
          /\ Cardinality(bucket' \ {r}) = Cardinality(bucket') - 1
      BY <2>1, <2>2, FS_RemoveElement
    <3>3. QED
      BY <2>2, <3>1, <3>2
  <2>4. bucket' \ {r} \subseteq CauseSet(r)'
    <3> SUFFICES ASSUME NEW q \in bucket' \ {r} PROVE q \in CauseSet(r)'
      OBVIOUS
    <3>1. q \in Trimmed(r) /\ q \in bucket
      BY DEF Reject, Record, Trimmed
    <3>2. q \in Requests /\ stage[q] \in Answers /\ during[q] = epoch /\ done[q] <= clock
      BY <3>1 DEF PastInv, Answered
    <3>3. stamp[q] + Window > stamp[r]
      BY <3>1 DEF Trimmed
    <3>4. QED
      BY <1>5, <3>2, <3>3 DEF CauseSet
  <2>5. CauseSet(r)' \subseteq Answered'
    BY DEF CauseSet, Answered
  <2>6. IsFiniteSet(CauseSet(r)')
    BY <1>4, <2>5, FS_Subset DEF PastInv
  <2>7. Cardinality(bucket' \ {r}) <= Cardinality(CauseSet(r)')
    BY <2>4, <2>6, FS_Subset
  <2>8. QED
    BY <2>3, <2>6, <2>7, FS_CardinalityType
<1>8. RejectionHasCause'
  <2> SUFFICES ASSUME NEW x \in Requests, stage'[x] = "rejected"
               PROVE  Cardinality(CauseSet(x)') >= MaxRequests
    BY DEF RejectionHasCause, CauseSet
  <2>1. CASE x = r
    BY <1>7, <2>1
  <2>2. CASE x # r
    <3>1. stage[x] = "rejected"
      BY <1>5, <2>2
    <3>2. \A q \in Answered : /\ q \in Answered'
                              /\ done'[q] = done[q] /\ during'[q] = during[q]
      BY <1>5 DEF Answered, Answers
    <3>3. IsFiniteSet(Answered')
      BY <1>4 DEF PastInv
    <3>4. QED
      BY <1>5, <3>1, <3>2, <3>3, CausesKept
  <2>3. QED
    BY <2>1, <2>2
<1>9. RetryAfterInRange'
  <2>1. retry'[r] \in 1..WindowSeconds
    BY <1>1, <1>2 DEF TypeOK
  <2>2. QED
    BY <1>5, <2>1 DEF RetryAfterInRange
<1>10. QED
  BY <1>3, <1>4, <1>6, <1>8, <1>9

LEMMA FailOpenKeepsInv == ASSUME LimiterInv, NEW r \in Requests, FailOpen(r) PROVE LimiterInv'
<1> USE DEF LimiterInv
<1>1. TypeOK'
  BY DEF TypeOK, FailOpen, Record, Stages, Answers, Trimmed, Window
<1>2. /\ stage[r] = "stamped" /\ stage'[r] = "failed_open"
      /\ stage' = [stage EXCEPT ![r] = "failed_open"]
      /\ \A q \in Requests \ {r} :
            stage'[q] = stage[q] /\ done'[q] = done[q] /\ during'[q] = during[q]
      /\ UNCHANGED <<clock, epoch, stamp, retry>>
  BY DEF TypeOK, FailOpen, Record
<1>3. Checked' = Checked /\ r \notin Checked
  BY <1>2 DEF Checked
<1>4. Answered' = Answered \cup {r} /\ IsFiniteSet(Answered')
  BY <1>2, AnswerOne DEF PastInv, Answers
<1>5. PastInv' /\ KeptInv'
  <2>1. CASE Record(r)
    BY <1>2, <2>1, RecordKeepsSets DEF Answers
  <2>2. CASE UNCHANGED <<bucket, deadline, done, during>>
    <3>1. PastInv'
      BY <1>2, <1>3, <1>4, <2>2 DEF PastInv, TypeOK
    <3>2. KeptInv'
      BY <1>2, <1>3, <2>2 DEF KeptInv
    <3>3. QED
      BY <3>1, <3>2
  <2>3. QED
    BY <2>1, <2>2 DEF FailOpen
<1>6. SpikeInv'
  BY <1>2, SpikeUntouched DEF Answers, Stages
<1>7. RejectionHasCause'
  <2> SUFFICES ASSUME NEW x \in Requests, stage'[x] = "rejected"
               PROVE  Cardinality(CauseSet(x)') >= MaxRequests
    BY DEF RejectionHasCause, CauseSet
  <2>1. stage[x] = "rejected"
    BY <1>2
  <2>2. \A q \in Answered : /\ q \in Answered'
                            /\ done'[q] = done[q] /\ during'[q] = during[q]
    BY <1>2 DEF Answered, Answers
  <2>3. QED
    BY <1>2, <1>4, <2>1, <2>2, CausesKept
<1>8. RetryAfterInRange'
  BY <1>2 DEF RetryAfterInRange
<1>9. QED
  BY <1>1, <1>5, <1>6, <1>7, <1>8

LEMMA NextLimiterInv == LimiterInv /\ [Next]_vars => LimiterInv'
<1> SUFFICES ASSUME LimiterInv, [Next]_vars PROVE LimiterInv'
  OBVIOUS
<1>1. CASE UNCHANGED vars
  BY <1>1 DEF vars, redisVars, requestVars, LimiterInv, TypeOK, PastInv, KeptInv, SpikeInv,
     RejectionHasCause, RetryAfterInRange, Answered, Checked, Admitted, AdmittedWithin
<1>2. QED
  BY <1>1, TickKeepsInv, RestartKeepsInv, StampKeepsInv, AdmitKeepsInv, RejectKeepsInv,
     FailOpenKeepsInv DEF Next

LEMMA LimiterInvariant == Spec => []LimiterInv
  BY InitLimiterInv, NextLimiterInv, PTL DEF Spec

-----------------------------------------------------------------------------
(* However requests overtake each other, the checks that begin and end in  *)
(* one window admit at most MaxRequests.                                   *)
THEOREM SlidingWindow == Spec => []NoBoundarySpike
<1>1. LimiterInv => NoBoundarySpike
  BY DEF LimiterInv, TypeOK, SpikeInv, NoBoundarySpike, Admitted
<1>2. QED
  BY <1>1, LimiterInvariant, PTL

(* A rejection has a cause: only a window that already holds MaxRequests other requests rejects.    *)
THEOREM RejectsOnlyOverLimit == Spec => []RejectionHasCause
<1>1. LimiterInv => RejectionHasCause
  BY DEF LimiterInv
<1>2. QED
  BY <1>1, LimiterInvariant, PTL

(* A Retry-After is at least a second and at most the window.              *)
THEOREM RetryAfterBounded == Spec => []RetryAfterInRange
<1>1. LimiterInv => RetryAfterInRange
  BY DEF LimiterInv
<1>2. QED
  BY <1>1, LimiterInvariant, PTL
=============================================================================
