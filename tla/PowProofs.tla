------------------------------ MODULE PowProofs ------------------------------
(***************************************************************************)
(* Proofs about module Pow, for any requests, keys, durations and clock:   *)
(* its invariants, its action properties, and that it implements module    *)
(* ChallengeLedger.                                                        *)
(***************************************************************************)
EXTENDS Pow, TLAPS

IInv == TypeOK /\ EvictionInv /\ HistoryInv

-----------------------------------------------------------------------------
(* Lemmas about the operators.                                             *)

\* The truncated milliseconds of an instant are an instant.
LEMMA MillisType == \A t \in Instant : Millis(t) \in Instant
<1>1. ASSUME NEW t \in Nat, NEW d \in Nat \ {0} PROVE t \div d \in 0..t
  OBVIOUS
<1> QED BY <1>1, NeverAssumption, TicksPerMilliAssumption DEF Instant, Millis

\* The fields of challenges and of entries.
LEMMA ChallengeType ==
  ASSUME NEW c \in Challenge
  PROVE  /\ c.nonce \in Request /\ c.claimed \in BOOLEAN
         /\ c.expires_at \in Instant /\ c.difficulty \in Difficulty
         /\ c.difficulty \in 0..255
BY DifficultyAssumption DEF Challenge

\* A drawn challenge still expires before Never.
LEMMA DrawnType ==
  ASSUME NEW t \in 0..MaxTime, NEW k \in Key PROVE t + Duration[k] \in Instant
BY MaxTimeAssumption, DurationAssumption, NeverAssumption DEF Instant

-----------------------------------------------------------------------------
(* Types                                                                   *)

LEMMA TypeStep ==
  TypeOK /\ DrawnIsFresh /\ ReadIsDrawn /\ [Next]_vars => TypeOK'
<1> SUFFICES ASSUME TypeOK, DrawnIsFresh, ReadIsDrawn, [Next]_vars PROVE TypeOK'
  OBVIOUS
<1> USE DEF TypeOK, QueueTypeOK, queueVars, requestVars, Goto, Inserted
<1>1. ASSUME NEW r \in Request, StartGet(r) PROVE TypeOK'
  <2>1. PICK d \in Difficulty :
          challenge' = [challenge EXCEPT ![r] =
            [nonce |-> r, claimed |-> FALSE,
             expires_at |-> now + Duration[key[r]], difficulty |-> d]]
    BY <1>1 DEF StartGet
  <2>2. now + Duration[key[r]] \in Instant
    BY DrawnType
  <2>3. challenge' \in [Request -> Challenge \cup {NoChallenge}]
    BY <2>1, <2>2 DEF Challenge
  <2> QED BY <1>1, <2>3 DEF StartGet, Underway
<1>2. ASSUME NEW r \in Request, ReadChallenge(r) PROVE TypeOK'
  <2>1. Told \subseteq Request
    BY ChallengeType DEF Told, DrawnIsFresh, ReadIsDrawn
  <2>2. PICK s \in [nonce : Told, zeros : Work] \cup {Guess(r)} :
          solution' = [solution EXCEPT ![r] = s]
    BY <1>2 DEF ReadChallenge
  <2>3. s \in Solution
    BY <2>1, <2>2 DEF Solution, Guess
  <2>4. solution' \in [Request -> Solution]
    BY <2>2, <2>3
  <2> QED BY <1>2, <2>4 DEF ReadChallenge, Underway, Answers, Rejections
<1>3. ASSUME NEW r \in Request, CasInsert(r) PROVE TypeOK'
  BY <1>3 DEF CasInsert, Underway
<1>4. ASSUME NEW r \in Request, CasExisting(r) PROVE TypeOK'
  BY <1>4 DEF CasExisting, Answers
<1>5. ASSUME NEW r \in Request, PushEntry(r) PROVE TypeOK'
  <2>1. Entry(r) \in EvictionEntry
    BY <1>5, ChallengeType DEF PushEntry, DrawnIsFresh, Entry, EvictionEntry
  <2> QED BY <1>5, <2>1 DEF PushEntry, Push, Underway
<1>6. ASSUME NEW r \in Request, LoadWakeup(r) PROVE TypeOK'
  BY <1>6 DEF LoadWakeup, Underway, Answers
<1>7. ASSUME NEW r \in Request, NotifyEvictor(r) PROVE TypeOK'
  <2>1. challenge[r].expires_at \in Instant
    BY <1>7, ChallengeType DEF NotifyEvictor, DrawnIsFresh
  <2> QED BY <1>7, <2>1 DEF NotifyEvictor, SendWakeup, Answers
<1>8. ASSUME NEW r \in Request, CasClaim(r) PROVE TypeOK'
  <2>1. challenge[r] \in Challenge
    BY <1>8 DEF CasClaim, ReadIsDrawn
  <2>2. challenge_set' = [challenge_set EXCEPT
          ![key[r]] = [challenge[r] EXCEPT !.claimed = TRUE]]
    BY <1>8 DEF CasClaim
  <2>3. [challenge[r] EXCEPT !.claimed = TRUE] \in Challenge
    BY <2>1 DEF Challenge
  <2> QED BY <1>8, <2>2, <2>3 DEF CasClaim, Answers, Rejections
<1>9. ASSUME NEW r \in Request, CasClaimFails(r) PROVE TypeOK'
  BY <1>9 DEF CasClaimFails, Answers, Rejections
<1>10. ASSUME NEW e \in to_expire, RemoveExpired(e) PROVE TypeOK'
  BY <1>10 DEF RemoveExpired, TakeExpired
<1>11. ASSUME RecvWakeup, UNCHANGED <<now, challenge_set, requestVars>> PROVE TypeOK'
  BY <1>11, MillisType DEF RecvWakeup, Rearm
<1>12. ASSUME PopExpired, UNCHANGED <<now, challenge_set, requestVars>> PROVE TypeOK'
  BY <1>12, NeverAssumption DEF PopExpired, Earliest, EvictionEntry, Instant
<1>13. ASSUME ReturnWakeup, UNCHANGED <<now, challenge_set, requestVars>> PROVE TypeOK'
  BY <1>13 DEF ReturnWakeup
<1>14. ASSUME StoreWakeup, UNCHANGED <<now, challenge_set, requestVars>> PROVE TypeOK'
  BY <1>14, MillisType DEF StoreWakeup, Rearm
<1>15. CASE Tick
  BY <1>15, MaxTimeAssumption DEF Tick
<1>16. CASE UNCHANGED vars
  BY <1>16 DEF vars
<1> QED
  BY <1>1, <1>2, <1>3, <1>4, <1>5, <1>6, <1>7, <1>8, <1>9, <1>10, <1>11,
     <1>12, <1>13, <1>14, <1>15, <1>16 DEF Next, Proceed, Evict

-----------------------------------------------------------------------------
(* One eviction for every challenge                                        *)

\* Steps that leave the map and the entries alone, and no request pushing that
\* was not: the invariant is about nothing else.
LEMMA EvictionUnchanged ==
  ASSUME TypeOK, EvictionInv, now \in Nat, now' \in Nat, now <= now',
         UNCHANGED <<heap, to_expire, challenge_set, key>>,
         to_expire # {} => UNCHANGED evictor,
         \A r \in Request : pc'[r] = "push" <=> pc[r] = "push",
         \A r \in Request : pc[r] = "push" => challenge'[r] = challenge[r]
  PROVE  EvictionInv'
<1>1. PushIsPending'
  BY DEF EvictionInv, PushIsPending, Stored, Queued
<1>2. EntryIsCurrent'
  BY DEF EvictionInv, EntryIsCurrent, Stored, Queued
<1>3. PoppedHasExpired'
  BY DEF EvictionInv, PoppedHasExpired, TypeOK, QueueTypeOK, EvictionEntry, Instant
<1>4. StoredIsScheduled'
  BY DEF EvictionInv, StoredIsScheduled, Stored, Queued
<1> QED BY <1>1, <1>2, <1>3, <1>4 DEF EvictionInv

LEMMA EvictionStep == IInv /\ [Next]_vars => EvictionInv'
<1> SUFFICES ASSUME IInv, [Next]_vars PROVE EvictionInv'
  OBVIOUS
<1>0. /\ TypeOK /\ TypeOK' /\ EvictionInv /\ HistoryInv
      /\ now \in Nat /\ now' \in Nat
  BY TypeStep, MaxTimeAssumption DEF IInv, HistoryInv, TypeOK
<1>1. ASSUME NEW r \in Request, StartGet(r) PROVE EvictionInv'
  BY <1>0, <1>1, EvictionUnchanged DEF StartGet, Goto, TypeOK, queueVars
<1>2. ASSUME NEW r \in Request, ReadChallenge(r) PROVE EvictionInv'
  BY <1>0, <1>2, EvictionUnchanged DEF ReadChallenge, Goto, TypeOK, queueVars
<1>3. ASSUME NEW r \in Request, CasInsert(r) PROVE EvictionInv'
  <2>1. /\ challenge[r] \in Challenge /\ challenge[r].nonce = r /\ challenge[r] # NoChallenge
        /\ ~Stored(key[r])
    BY <1>0, <1>3 DEF CasInsert, HistoryInv, DrawnIsFresh, TypeOK, Stored
  <2>2. \A e \in Queued : e.key # key[r]
    BY <2>1, <1>0 DEF EvictionInv, EntryIsCurrent
  <2>3. \A q \in Request : pc[q] = "push" => key[q] # key[r]
    BY <2>1, <1>0 DEF EvictionInv, PushIsPending
  <2>4. UNCHANGED <<now, heap, to_expire, evictor, key, challenge>> /\ Queued' = Queued
    BY <1>3 DEF CasInsert, queueVars, Queued
  <2>5. PushIsPending'
    BY <2>1, <2>2, <2>3, <2>4, <1>0, <1>3
    DEF CasInsert, Goto, EvictionInv, PushIsPending, Stored, TypeOK
  <2>6. EntryIsCurrent'
    BY <2>2, <2>4, <1>0, <1>3
    DEF CasInsert, EvictionInv, EntryIsCurrent, Stored, TypeOK
  <2>7. PoppedHasExpired'
    BY <2>4, <1>0 DEF EvictionInv, PoppedHasExpired
  <2>8. StoredIsScheduled'
    BY <2>4, <1>0, <1>3
    DEF CasInsert, Goto, EvictionInv, StoredIsScheduled, Stored, TypeOK
  <2> QED BY <2>5, <2>6, <2>7, <2>8 DEF EvictionInv
<1>4. ASSUME NEW r \in Request, CasExisting(r) PROVE EvictionInv'
  BY <1>0, <1>4, EvictionUnchanged DEF CasExisting, Goto, TypeOK, queueVars
<1>5. ASSUME NEW r \in Request, PushEntry(r) PROVE EvictionInv'
  <2>1. /\ heap' = heap \cup {Entry(r)} /\ Queued' = Queued \cup {Entry(r)}
        /\ UNCHANGED <<now, to_expire, evictor, key, challenge, challenge_set>>
    BY <1>5 DEF PushEntry, Push, Queued
  <2>2. pc[r] = "push" /\ pc' = [pc EXCEPT ![r] = "load"]
    BY <1>5 DEF PushEntry, Goto
  <2>3. Entry(r).key = key[r] /\ Entry(r).expires_at = challenge[r].expires_at
    BY DEF Entry
  <2>4. /\ Stored(key[r]) /\ challenge_set[key[r]].nonce = r
        /\ challenge_set[key[r]].expires_at = challenge[r].expires_at
        /\ \A e \in Queued : e.key # key[r]
    BY <1>0, <2>2 DEF EvictionInv, PushIsPending
  <2>5. PushIsPending'
    BY <2>1, <2>2, <2>3, <2>4, <1>0 DEF EvictionInv, PushIsPending, Stored, TypeOK
  <2>6. EntryIsCurrent'
    BY <2>1, <2>3, <2>4, <1>0 DEF EvictionInv, EntryIsCurrent, Stored, Queued
  <2>7. PoppedHasExpired'
    BY <2>1, <1>0 DEF EvictionInv, PoppedHasExpired
  <2>8. StoredIsScheduled'
    BY <2>1, <2>2, <2>3, <1>0 DEF EvictionInv, StoredIsScheduled, Stored, TypeOK
  <2> QED BY <2>5, <2>6, <2>7, <2>8 DEF EvictionInv
<1>6. ASSUME NEW r \in Request, LoadWakeup(r) PROVE EvictionInv'
  BY <1>0, <1>6, EvictionUnchanged DEF LoadWakeup, Goto, TypeOK, queueVars
<1>7. ASSUME NEW r \in Request, NotifyEvictor(r) PROVE EvictionInv'
  BY <1>0, <1>7, EvictionUnchanged DEF NotifyEvictor, SendWakeup, Goto, TypeOK
<1>8. ASSUME NEW r \in Request, CasClaim(r) PROVE EvictionInv'
  <2>1. challenge[r] \in Challenge /\ challenge[r] # NoChallenge
    BY <1>0, <1>8 DEF CasClaim, HistoryInv, ReadIsDrawn, TypeOK
  <2>2. challenge_set' = [challenge_set EXCEPT
          ![key[r]] = [challenge[r] EXCEPT !.claimed = TRUE]]
    BY <1>8 DEF CasClaim
  <2>3. /\ [challenge[r] EXCEPT !.claimed = TRUE] \in Challenge
        /\ [challenge[r] EXCEPT !.claimed = TRUE].nonce = challenge[r].nonce
        /\ [challenge[r] EXCEPT !.claimed = TRUE].expires_at = challenge[r].expires_at
    BY <2>1 DEF Challenge
  <2>4. \A k \in Key :
          /\ Stored(k)' <=> Stored(k)
          /\ Stored(k) => /\ challenge_set'[k].nonce = challenge_set[k].nonce
                          /\ challenge_set'[k].expires_at = challenge_set[k].expires_at
    BY <2>1, <2>2, <2>3, <1>0, <1>8, NoChallengeAssumption
    DEF CasClaim, Stored, TypeOK
  <2>5. UNCHANGED <<now, heap, to_expire, evictor, key, challenge>> /\ Queued' = Queued
    BY <1>8 DEF CasClaim, queueVars, Queued
  <2>6. \A q \in Request : pc'[q] = "push" <=> pc[q] = "push"
    BY <1>0, <1>8 DEF CasClaim, Goto, TypeOK
  <2>7. PushIsPending'
    BY <2>4, <2>5, <2>6, <1>0 DEF EvictionInv, PushIsPending, TypeOK
  <2>8. EntryIsCurrent'
    BY <2>4, <2>5, <1>0
    DEF EvictionInv, EntryIsCurrent, TypeOK, QueueTypeOK, EvictionEntry, Queued
  <2>9. PoppedHasExpired'
    BY <2>5, <1>0 DEF EvictionInv, PoppedHasExpired
  <2>10. StoredIsScheduled'
    BY <2>4, <2>5, <2>6, <1>0 DEF EvictionInv, StoredIsScheduled
  <2> QED BY <2>7, <2>8, <2>9, <2>10 DEF EvictionInv
<1>9. ASSUME NEW r \in Request, CasClaimFails(r) PROVE EvictionInv'
  BY <1>0, <1>9, EvictionUnchanged DEF CasClaimFails, Goto, TypeOK, queueVars
<1>10. ASSUME NEW e \in to_expire, RemoveExpired(e) PROVE EvictionInv'
  <2>1. /\ to_expire' = to_expire \ {e} /\ e \in Queued
        /\ UNCHANGED <<now, heap, evictor, key, challenge, pc>>
        /\ challenge_set' = [challenge_set EXCEPT ![e.key] = NoChallenge]
    BY <1>10 DEF RemoveExpired, TakeExpired, requestVars, Queued
  <2>2. Queued' = Queued \ {e}
    BY <2>1, <1>0 DEF EvictionInv, EntryIsCurrent, Queued
  <2>3. \A f \in Queued' : f.key # e.key
    BY <2>1, <2>2, <1>0 DEF EvictionInv, EntryIsCurrent
  <2>4. \A q \in Request : pc[q] = "push" => key[q] # e.key
    BY <2>1, <1>0 DEF EvictionInv, PushIsPending
  <2>5. PushIsPending'
    BY <2>1, <2>2, <2>4, <1>0 DEF EvictionInv, PushIsPending, Stored, TypeOK
  <2>6. EntryIsCurrent'
    BY <2>1, <2>2, <2>3, <1>0 DEF EvictionInv, EntryIsCurrent, Stored, TypeOK
  <2>7. PoppedHasExpired'
    BY <2>1, <1>0 DEF EvictionInv, PoppedHasExpired
  <2>8. StoredIsScheduled'
    BY <2>1, <2>2, <1>0 DEF EvictionInv, StoredIsScheduled, Stored, TypeOK
  <2> QED BY <2>5, <2>6, <2>7, <2>8 DEF EvictionInv
<1>11. ASSUME RecvWakeup, UNCHANGED <<now, challenge_set, requestVars>>
       PROVE  EvictionInv'
  BY <1>0, <1>11, EvictionUnchanged DEF RecvWakeup, requestVars
<1>12. ASSUME PopExpired, UNCHANGED <<now, challenge_set, requestVars>>
       PROVE  EvictionInv'
  <2>1. /\ to_expire = {}
        /\ to_expire' = {e \in heap : e.expires_at <= now}
        /\ heap' = heap \ to_expire' /\ evictor' = "remove_expired"
        /\ UNCHANGED <<now, key, challenge, challenge_set, pc>>
    BY <1>0, <1>12 DEF PopExpired, EvictionInv, PoppedHasExpired, requestVars
  <2>2. Queued' = Queued
    BY <2>1 DEF Queued
  <2>3. PushIsPending'
    BY <2>1, <2>2, <1>0 DEF EvictionInv, PushIsPending, Stored
  <2>4. EntryIsCurrent'
    BY <2>1, <2>2, <1>0 DEF EvictionInv, EntryIsCurrent, Stored
  <2>5. PoppedHasExpired'
    BY <2>1 DEF PoppedHasExpired
  <2>6. StoredIsScheduled'
    BY <2>1, <2>2, <1>0 DEF EvictionInv, StoredIsScheduled, Stored
  <2> QED BY <2>3, <2>4, <2>5, <2>6 DEF EvictionInv
<1>13. ASSUME ReturnWakeup, UNCHANGED <<now, challenge_set, requestVars>>
       PROVE  EvictionInv'
  BY <1>0, <1>13, EvictionUnchanged DEF ReturnWakeup, requestVars
<1>14. ASSUME StoreWakeup, UNCHANGED <<now, challenge_set, requestVars>>
       PROVE  EvictionInv'
  <2>1. to_expire = {}
    BY <1>0, <1>14 DEF StoreWakeup, EvictionInv, PoppedHasExpired
  <2> QED BY <2>1, <1>0, <1>14, EvictionUnchanged DEF StoreWakeup, requestVars
<1>15. CASE Tick
  BY <1>0, <1>15, EvictionUnchanged DEF Tick, queueVars, requestVars
<1>16. CASE UNCHANGED vars
  BY <1>0, <1>16, EvictionUnchanged DEF vars, queueVars, requestVars
<1> QED
  BY <1>1, <1>2, <1>3, <1>4, <1>5, <1>6, <1>7, <1>8, <1>9, <1>10, <1>11,
     <1>12, <1>13, <1>14, <1>15, <1>16 DEF Next, Proceed, Evict

-----------------------------------------------------------------------------
(* What the answers say of the map                                         *)

\* Steps that leave the map alone and give no request its challenge or attempt.
LEMMA SharedHistoryUnchanged ==
  ASSUME TypeOK, HistoryInv, now \in Nat, now' \in Nat, now <= now',
         UNCHANGED <<challenge_set, key>>,
         \A r \in Request : /\ Inserted(r)' <=> Inserted(r)
                            /\ Attempted(r)' <=> Attempted(r),
         \A r \in Request :
           Inserted(r) \/ Attempted(r) => challenge'[r] = challenge[r]
  PROVE  StoredIsDrawn' /\ StoredUntilExpired' /\ ClaimedIsAttempted' /\ OneAttempt'
<1>1. StoredIsDrawn'
  <2> SUFFICES ASSUME NEW k \in Key, Stored(k)'
               PROVE  LET c == challenge_set[k] IN
                      /\ Inserted(c.nonce)'
                      /\ key[c.nonce] = k
                      /\ c.expires_at = challenge'[c.nonce].expires_at
                      /\ c.difficulty = challenge'[c.nonce].difficulty
    BY DEF StoredIsDrawn
  <2>1. challenge_set[k] \in Challenge /\ Stored(k)
    BY DEF Stored, TypeOK
  <2>2. challenge_set[k].nonce \in Request
    BY <2>1, ChallengeType
  <2> QED BY <2>1, <2>2 DEF HistoryInv, StoredIsDrawn
<1>2. StoredUntilExpired'
  <2> SUFFICES ASSUME NEW r \in Request, Inserted(r)'
               PROVE  \/ Stored(key[r])' /\ challenge_set[key[r]].nonce = r
                      \/ Expired(r)'
    BY DEF StoredUntilExpired
  <2>1. challenge'[r] = challenge[r] /\ challenge[r] \in Challenge
    BY DEF HistoryInv, DrawnIsFresh, TypeOK
  <2>2. challenge[r].expires_at \in Nat
    BY <2>1, ChallengeType, NeverAssumption DEF Instant
  <2> QED BY <2>1, <2>2 DEF HistoryInv, StoredUntilExpired, Expired, Stored
<1>3. ClaimedIsAttempted'
  BY DEF HistoryInv, ClaimedIsAttempted, Stored
<1>4. OneAttempt'
  BY DEF HistoryInv, OneAttempt
<1> QED BY <1>1, <1>2, <1>3, <1>4

\* The rest of the history is about the locals of the requests.
LEMMA HistoryUnchanged ==
  ASSUME TypeOK, HistoryInv, now \in Nat, now' \in Nat, now <= now',
         UNCHANGED <<challenge_set, key>>,
         \A r \in Request : /\ Inserted(r)' <=> Inserted(r)
                            /\ Attempted(r)' <=> Attempted(r)
                            /\ pc'[r] \in {"cas", "claim", "Existing"} => pc'[r] = pc[r],
         UNCHANGED challenge
  PROVE  HistoryInv'
<1>1. StoredIsDrawn' /\ StoredUntilExpired' /\ ClaimedIsAttempted' /\ OneAttempt'
  BY SharedHistoryUnchanged
<1>2. DrawnIsFresh'
  <2> SUFFICES ASSUME NEW r \in Request, pc'[r] = "cas" \/ Inserted(r)'
               PROVE  /\ challenge[r] # NoChallenge
                      /\ challenge[r].nonce = r
                      /\ ~challenge[r].claimed
                      /\ challenge[r].expires_at <= now' + Duration[key[r]]
    BY DEF DrawnIsFresh
  <2>1. pc[r] = "cas" \/ Inserted(r)
    OBVIOUS
  <2>2. challenge[r] \in Challenge
    BY <2>1 DEF HistoryInv, DrawnIsFresh, TypeOK
  <2>3. challenge[r].expires_at \in Nat /\ Duration[key[r]] \in Nat
    BY <2>2, ChallengeType, NeverAssumption, DurationAssumption DEF Instant, TypeOK
  <2> QED BY <2>1, <2>3 DEF HistoryInv, DrawnIsFresh
<1>3. ReadIsDrawn'
  <2>1. \A r \in Request : challenge[r] # NoChallenge => challenge[r].nonce \in Request
    BY ChallengeType DEF TypeOK
  <2> QED BY <2>1 DEF HistoryInv, ReadIsDrawn
<1> QED BY <1>1, <1>2, <1>3 DEF HistoryInv

LEMMA HistoryStep == IInv /\ [Next]_vars => HistoryInv'
<1> SUFFICES ASSUME IInv, [Next]_vars PROVE HistoryInv'
  OBVIOUS
<1>0. /\ TypeOK /\ TypeOK' /\ EvictionInv /\ HistoryInv
      /\ now \in Nat /\ now' \in Nat /\ now <= now
  BY TypeStep, MaxTimeAssumption DEF IInv, HistoryInv, TypeOK
<1>1. ASSUME NEW r \in Request, StartGet(r) PROVE HistoryInv'
  <2>1. PICK d \in Difficulty :
          challenge' = [challenge EXCEPT ![r] =
            [nonce |-> r, claimed |-> FALSE,
             expires_at |-> now + Duration[key[r]], difficulty |-> d]]
    BY <1>1 DEF StartGet
  <2>2. /\ pc[r] = "new" /\ pc' = [pc EXCEPT ![r] = "cas"]
        /\ UNCHANGED <<now, challenge_set, key>>
    BY <1>1 DEF StartGet, Goto
  <2>3. challenge'[r] # NoChallenge
    <3>1. now + Duration[key[r]] \in Instant
      BY <1>0, DrawnType DEF TypeOK
    <3>2. [nonce |-> r, claimed |-> FALSE,
           expires_at |-> now + Duration[key[r]], difficulty |-> d] \in Challenge
      BY <3>1 DEF Challenge
    <3> QED BY <3>2, <2>1, <1>0, NoChallengeAssumption DEF TypeOK
  <2>4. \A q \in Request : /\ Inserted(q)' <=> Inserted(q)
                           /\ Attempted(q)' <=> Attempted(q)
                           /\ q # r => pc'[q] = pc[q] /\ challenge'[q] = challenge[q]
    BY <2>1, <2>2, <1>0 DEF Inserted, Attempted, TypeOK
  <2>5. \A q \in Request : Inserted(q) \/ Attempted(q) => challenge'[q] = challenge[q]
    BY <2>2, <2>4 DEF Inserted, Attempted
  <2>6. StoredIsDrawn' /\ StoredUntilExpired' /\ ClaimedIsAttempted' /\ OneAttempt'
    BY <1>0, <2>2, <2>4, <2>5, SharedHistoryUnchanged
  <2>7. DrawnIsFresh'
    <3>1. /\ challenge'[r].nonce = r /\ ~challenge'[r].claimed
          /\ challenge'[r].expires_at = now + Duration[key[r]]
      BY <2>1, <1>0 DEF TypeOK
    <3>2. now + Duration[key[r]] <= now + Duration[key[r]]
      BY <1>0, DurationAssumption DEF TypeOK
    <3> QED BY <3>1, <3>2, <2>2, <2>3, <2>4, <1>0 DEF HistoryInv, DrawnIsFresh
  <2>8. ReadIsDrawn'
    <3>1. \A q \in Request : challenge[q] # NoChallenge => challenge[q].nonce \in Request
      BY <1>0, ChallengeType DEF TypeOK
    <3> QED BY <3>1, <2>2, <2>4, <2>5, <1>0
        DEF HistoryInv, ReadIsDrawn, Attempted, TypeOK
  <2> QED BY <2>6, <2>7, <2>8 DEF HistoryInv
<1>2. ASSUME NEW r \in Request, ReadChallenge(r) PROVE HistoryInv'
  <2>1. /\ pc[r] = "new" /\ UNCHANGED <<now, challenge_set, key>>
        /\ challenge' = [challenge EXCEPT ![r] = challenge_set[key[r]]]
        /\ pc' = [pc EXCEPT ![r] =
             IF challenge_set[key[r]] = NoChallenge THEN "NonceNotFound"
             ELSE IF challenge_set[key[r]].claimed THEN "AlreadyClaimed" ELSE "claim"]
    BY <1>2 DEF ReadChallenge, Goto
  <2>2. \A q \in Request : /\ Inserted(q)' <=> Inserted(q)
                           /\ Attempted(q)' <=> Attempted(q)
                           /\ q # r => pc'[q] = pc[q] /\ challenge'[q] = challenge[q]
    BY <2>1, <1>0 DEF Inserted, Attempted, TypeOK
  <2>3. \A q \in Request : Inserted(q) \/ Attempted(q) => challenge'[q] = challenge[q]
    BY <2>1, <2>2 DEF Inserted, Attempted
  <2>4. StoredIsDrawn' /\ StoredUntilExpired' /\ ClaimedIsAttempted' /\ OneAttempt'
    BY <1>0, <2>1, <2>2, <2>3, SharedHistoryUnchanged
  <2>5. DrawnIsFresh'
    <3>1. pc'[r] # "cas" /\ ~Inserted(r)'
      BY <2>1, <1>0 DEF Inserted, TypeOK
    <3> QED BY <3>1, <2>1, <2>2, <1>0 DEF HistoryInv, DrawnIsFresh
  <2>6. ReadIsDrawn'
    <3>1. \A q \in Request : challenge[q] # NoChallenge => challenge[q].nonce \in Request
      BY <1>0, ChallengeType DEF TypeOK
    <3>2. pc'[r] = "claim" =>
            /\ challenge'[r] # NoChallenge
            /\ challenge'[r].nonce \in Request
            /\ Inserted(challenge'[r].nonce)
            /\ key[challenge'[r].nonce] = key[r]
            /\ challenge'[r] = challenge[challenge'[r].nonce]
      <4> SUFFICES ASSUME pc'[r] = "claim"
                   PROVE  /\ challenge'[r] # NoChallenge
                          /\ challenge'[r].nonce \in Request
                          /\ Inserted(challenge'[r].nonce)
                          /\ key[challenge'[r].nonce] = key[r]
                          /\ challenge'[r] = challenge[challenge'[r].nonce]
        OBVIOUS
      <4> DEFINE c == challenge_set[key[r]]
      <4>1. challenge'[r] = c /\ c # NoChallenge /\ ~c.claimed /\ c \in Challenge
        BY <2>1, <1>0 DEF TypeOK
      <4>2. /\ c.nonce \in Request /\ Inserted(c.nonce) /\ key[c.nonce] = key[r]
            /\ c.expires_at = challenge[c.nonce].expires_at
            /\ c.difficulty = challenge[c.nonce].difficulty
        BY <4>1, <1>0, ChallengeType DEF HistoryInv, StoredIsDrawn, Stored, TypeOK
      <4>3. /\ ~challenge[c.nonce].claimed /\ challenge[c.nonce] \in Challenge
            /\ challenge[c.nonce].nonce = c.nonce
        BY <4>2, <1>0 DEF HistoryInv, DrawnIsFresh, TypeOK
      <4>4. c = challenge[c.nonce]
        <5>1. c.claimed = challenge[c.nonce].claimed
          BY <4>1, <4>3, ChallengeType
        <5> QED BY <5>1, <4>1, <4>2, <4>3 DEF Challenge
      <4> QED BY <4>1, <4>2, <4>4
    <3>3. pc'[r] \notin {"Existing", "Ok", "BadProofOfWork"}
      BY <2>1, <1>0 DEF TypeOK
    <3> QED BY <3>1, <3>2, <3>3, <2>1, <2>2, <2>3, <1>0
        DEF HistoryInv, ReadIsDrawn, Attempted
  <2> QED BY <2>4, <2>5, <2>6 DEF HistoryInv
<1>3. ASSUME NEW r \in Request, CasInsert(r) PROVE HistoryInv'
  <2>1. /\ pc[r] = "cas" /\ pc' = [pc EXCEPT ![r] = "push"]
        /\ ~Stored(key[r])
        /\ challenge_set' = [challenge_set EXCEPT ![key[r]] = challenge[r]]
        /\ UNCHANGED <<now, key, challenge>>
    BY <1>3 DEF CasInsert, Goto, Stored
  <2>2. /\ challenge[r] # NoChallenge /\ challenge[r] \in Challenge
        /\ challenge[r].nonce = r /\ ~challenge[r].claimed
    BY <2>1, <1>0 DEF HistoryInv, DrawnIsFresh, TypeOK
  <2>3. ~Inserted(r) /\ Inserted(r)'
    BY <2>1, <1>0 DEF Inserted, TypeOK
  <2>4. \A q \in Request : /\ q # r => (Inserted(q)' <=> Inserted(q))
                           /\ Attempted(q)' <=> Attempted(q)
                           /\ pc'[q] = "cas" => pc[q] = "cas"
                           /\ pc'[q] \in {"claim", "Existing"} => pc'[q] = pc[q]
    BY <2>1, <1>0 DEF Inserted, Attempted, TypeOK
  <2>5. \A q \in Request : challenge[q] # NoChallenge => challenge[q].nonce \in Request
    BY <1>0, ChallengeType DEF TypeOK
  <2>6. /\ Stored(key[r])' /\ challenge_set'[key[r]] = challenge[r]
        /\ \A k \in Key \ {key[r]} : challenge_set'[k] = challenge_set[k]
    BY <2>1, <2>2, <1>0 DEF Stored, TypeOK
  <2>7. DrawnIsFresh'
    BY <2>1, <2>3, <2>4, <1>0 DEF HistoryInv, DrawnIsFresh
  <2>8. StoredIsDrawn'
    <3>1. \A k \in Key : Stored(k) => challenge_set[k].nonce \in Request
      BY <1>0, ChallengeType DEF Stored, TypeOK
    <3> QED BY <3>1, <2>1, <2>2, <2>3, <2>4, <2>6, <1>0
        DEF HistoryInv, StoredIsDrawn, Stored
  <2>9. StoredUntilExpired'
    <3>1. \A q \in Request : key[q] \in Key
      BY <1>0 DEF TypeOK
    <3> QED BY <3>1, <2>1, <2>2, <2>4, <2>6, <1>0
        DEF HistoryInv, StoredUntilExpired, Stored, Expired
  <2>10. ReadIsDrawn'
    BY <2>1, <2>3, <2>4, <2>5, <1>0 DEF HistoryInv, ReadIsDrawn
  <2>11. ClaimedIsAttempted'
    <3>1. \A q \in Request : Attempted(q) => challenge[q].nonce # r
      BY <2>3, <1>0 DEF HistoryInv, ReadIsDrawn
    <3> QED BY <3>1, <2>1, <2>2, <2>4, <2>6, <1>0
        DEF HistoryInv, ClaimedIsAttempted, Stored
  <2>12. OneAttempt'
    BY <2>1, <2>4, <1>0 DEF HistoryInv, OneAttempt
  <2> QED BY <2>7, <2>8, <2>9, <2>10, <2>11, <2>12 DEF HistoryInv
<1>4. ASSUME NEW r \in Request, CasExisting(r) PROVE HistoryInv'
  <2>1. /\ pc[r] = "cas" /\ pc' = [pc EXCEPT ![r] = "Existing"]
        /\ Stored(key[r])
        /\ UNCHANGED <<now, challenge_set, key>>
        /\ challenge' = [challenge EXCEPT ![r] = challenge_set[key[r]]]
    BY <1>4 DEF CasExisting, Goto, Stored
  <2>2. \A q \in Request : /\ Inserted(q)' <=> Inserted(q)
                           /\ Attempted(q)' <=> Attempted(q)
                           /\ q # r => pc'[q] = pc[q] /\ challenge'[q] = challenge[q]
    BY <2>1, <1>0 DEF Inserted, Attempted, TypeOK
  <2>3. \A q \in Request : Inserted(q) \/ Attempted(q) => challenge'[q] = challenge[q]
    BY <2>1, <2>2 DEF Inserted, Attempted
  <2>4. StoredIsDrawn' /\ StoredUntilExpired' /\ ClaimedIsAttempted' /\ OneAttempt'
    BY <1>0, <2>1, <2>2, <2>3, SharedHistoryUnchanged
  <2>5. pc'[r] = "Existing" /\ challenge'[r] = challenge_set[key[r]]
    BY <2>1, <1>0 DEF TypeOK
  <2>6. DrawnIsFresh'
    BY <2>1, <2>2, <2>5, <1>0 DEF HistoryInv, DrawnIsFresh, Inserted
  <2>7. ReadIsDrawn'
    <3>1. /\ challenge_set[key[r]] # NoChallenge
          /\ challenge_set[key[r]].nonce \in Request
          /\ Inserted(challenge_set[key[r]].nonce)
      BY <2>1, <1>0, ChallengeType DEF HistoryInv, StoredIsDrawn, Stored, TypeOK
    <3>2. \A q \in Request : challenge[q] # NoChallenge => challenge[q].nonce \in Request
      BY <1>0, ChallengeType DEF TypeOK
    <3> QED BY <3>1, <3>2, <2>1, <2>2, <2>3, <2>5, <1>0
        DEF HistoryInv, ReadIsDrawn, Attempted
  <2> QED BY <2>4, <2>6, <2>7 DEF HistoryInv
<1>5. ASSUME NEW r \in Request, PushEntry(r) PROVE HistoryInv'
  <2>1. \A q \in Request : /\ Inserted(q)' <=> Inserted(q)
                           /\ Attempted(q)' <=> Attempted(q)
                           /\ pc'[q] \in {"cas", "claim", "Existing"} => pc'[q] = pc[q]
    BY <1>0, <1>5 DEF PushEntry, Goto, Inserted, Attempted, TypeOK
  <2> QED BY <2>1, <1>0, <1>5, HistoryUnchanged DEF PushEntry
<1>6. ASSUME NEW r \in Request, LoadWakeup(r) PROVE HistoryInv'
  <2>1. \A q \in Request : /\ Inserted(q)' <=> Inserted(q)
                           /\ Attempted(q)' <=> Attempted(q)
                           /\ pc'[q] \in {"cas", "claim", "Existing"} => pc'[q] = pc[q]
    BY <1>0, <1>6 DEF LoadWakeup, Goto, Inserted, Attempted, TypeOK
  <2> QED BY <2>1, <1>0, <1>6, HistoryUnchanged DEF LoadWakeup
<1>7. ASSUME NEW r \in Request, NotifyEvictor(r) PROVE HistoryInv'
  <2>1. \A q \in Request : /\ Inserted(q)' <=> Inserted(q)
                           /\ Attempted(q)' <=> Attempted(q)
                           /\ pc'[q] \in {"cas", "claim", "Existing"} => pc'[q] = pc[q]
    BY <1>0, <1>7 DEF NotifyEvictor, Goto, Inserted, Attempted, TypeOK
  <2> QED BY <2>1, <1>0, <1>7, HistoryUnchanged DEF NotifyEvictor
<1>8. ASSUME NEW r \in Request, CasClaim(r) PROVE HistoryInv'
  <2> DEFINE c == challenge[r]
  <2>1. /\ pc[r] = "claim" /\ UNCHANGED <<now, key, challenge>>
        /\ challenge_set[key[r]] = c
        /\ \E a \in {"Ok", "BadProofOfWork"} : pc' = [pc EXCEPT ![r] = a]
    BY <1>8 DEF CasClaim, Goto
  <2>2. /\ c \in Challenge /\ c # NoChallenge /\ c.nonce \in Request
        /\ Inserted(c.nonce) /\ key[c.nonce] = key[r] /\ c = challenge[c.nonce]
    BY <2>1, <1>0, ChallengeType DEF HistoryInv, ReadIsDrawn, TypeOK
  <2>3. ~c.claimed
    BY <2>2, <1>0 DEF HistoryInv, DrawnIsFresh
  <2>4. /\ challenge_set' = [challenge_set EXCEPT ![key[r]] = [c EXCEPT !.claimed = TRUE]]
        /\ [c EXCEPT !.claimed = TRUE] \in Challenge
        /\ [c EXCEPT !.claimed = TRUE].nonce = c.nonce
        /\ [c EXCEPT !.claimed = TRUE].claimed = TRUE
        /\ [c EXCEPT !.claimed = TRUE].expires_at = c.expires_at
        /\ [c EXCEPT !.claimed = TRUE].difficulty = c.difficulty
    BY <2>1, <2>2, <1>8 DEF CasClaim, Challenge
  <2>5. /\ Stored(key[r]) /\ Stored(key[r])'
        /\ challenge_set'[key[r]] = [c EXCEPT !.claimed = TRUE]
        /\ \A k \in Key \ {key[r]} : challenge_set'[k] = challenge_set[k]
    BY <2>1, <2>2, <2>4, <1>0, NoChallengeAssumption DEF Stored, TypeOK
  <2>6. Attempted(r)' /\ ~Attempted(r)
    BY <2>1, <1>0 DEF Attempted, TypeOK
  <2>7. \A q \in Request : /\ Inserted(q)' <=> Inserted(q)
                           /\ q # r => (Attempted(q)' <=> Attempted(q))
                           /\ pc'[q] \in {"cas", "claim", "Existing"} => pc'[q] = pc[q]
    BY <2>1, <1>0 DEF Inserted, Attempted, TypeOK
  <2>8. \A q \in Request : key[q] \in Key
    BY <1>0 DEF TypeOK
  <2>9. \A q \in Request : challenge[q] # NoChallenge => challenge[q].nonce \in Request
    BY <1>0, ChallengeType DEF TypeOK
  <2>10. \A q \in Request : Attempted(q) => challenge[q].nonce # c.nonce
    <3>1. ~challenge_set[key[r]].claimed /\ key[r] \in Key
      BY <2>1, <2>3, <2>8
    <3> QED BY <3>1, <2>1, <2>5, <1>0 DEF HistoryInv, ClaimedIsAttempted
  <2>11. DrawnIsFresh'
    BY <2>1, <2>7, <1>0 DEF HistoryInv, DrawnIsFresh
  <2>12. StoredIsDrawn'
    <3>1. \A k \in Key : Stored(k) => challenge_set[k].nonce \in Request
      BY <1>0, ChallengeType DEF Stored, TypeOK
    <3> QED BY <3>1, <2>1, <2>2, <2>4, <2>5, <2>7, <1>0
        DEF HistoryInv, StoredIsDrawn, Stored
  <2>13. StoredUntilExpired'
    BY <2>1, <2>4, <2>5, <2>7, <2>8, <1>0
    DEF HistoryInv, StoredUntilExpired, Stored, Expired
  <2>14. ReadIsDrawn'
    BY <2>1, <2>2, <2>7, <2>9, <1>0 DEF HistoryInv, ReadIsDrawn
  <2>15. ClaimedIsAttempted'
    <3>1. \A k \in Key \ {key[r]} : Stored(k) => challenge_set[k].nonce # c.nonce
      BY <2>2, <1>0 DEF HistoryInv, StoredIsDrawn
    <3> SUFFICES ASSUME NEW k \in Key, Stored(k)'
                 PROVE  challenge_set'[k].claimed <=>
                          \E q \in Request : /\ Attempted(q)'
                                            /\ challenge[q].nonce = challenge_set'[k].nonce
      BY <2>1 DEF ClaimedIsAttempted
    <3>2. CASE k = key[r]
      <4>1. challenge_set'[k].claimed = TRUE /\ challenge_set'[k].nonce = c.nonce
        BY <3>2, <2>4, <2>5
      <4>2. Attempted(r)' /\ challenge[r].nonce = challenge_set'[k].nonce
        BY <4>1, <2>6
      <4> QED BY <4>1, <4>2
    <3>3. CASE k # key[r]
      <4>1. challenge_set'[k] = challenge_set[k] /\ Stored(k)
        BY <3>3, <2>5 DEF Stored
      <4>2. challenge_set[k].nonce # c.nonce
        BY <3>1, <3>3, <4>1
      <4> QED BY <4>1, <4>2, <2>7, <1>0 DEF HistoryInv, ClaimedIsAttempted
    <3> QED BY <3>2, <3>3
  <2>16. OneAttempt'
    BY <2>1, <2>7, <2>10, <1>0 DEF HistoryInv, OneAttempt
  <2> QED BY <2>11, <2>12, <2>13, <2>14, <2>15, <2>16 DEF HistoryInv
<1>9. ASSUME NEW r \in Request, CasClaimFails(r) PROVE HistoryInv'
  <2>1. \A q \in Request : /\ Inserted(q)' <=> Inserted(q)
                           /\ Attempted(q)' <=> Attempted(q)
                           /\ pc'[q] \in {"cas", "claim", "Existing"} => pc'[q] = pc[q]
    BY <1>0, <1>9 DEF CasClaimFails, Goto, Inserted, Attempted, TypeOK
  <2> QED BY <2>1, <1>0, <1>9, HistoryUnchanged DEF CasClaimFails
<1>10. ASSUME NEW e \in to_expire, RemoveExpired(e) PROVE HistoryInv'
  <2>1. /\ challenge_set' = [challenge_set EXCEPT ![e.key] = NoChallenge]
        /\ UNCHANGED <<now, pc, key, challenge>>
    BY <1>10 DEF RemoveExpired, requestVars
  <2>2. e.key \in Key
    BY <1>0 DEF TypeOK, QueueTypeOK, EvictionEntry
  <2>3. /\ ~Stored(e.key)'
        /\ \A k \in Key \ {e.key} : challenge_set'[k] = challenge_set[k]
    BY <2>1, <2>2, <1>0 DEF Stored, TypeOK
  <2>4. \A q \in Request : (Inserted(q)' <=> Inserted(q)) /\ (Attempted(q)' <=> Attempted(q))
    BY <2>1 DEF Inserted, Attempted
  <2>5. Stored(e.key) /\ challenge_set[e.key].expires_at <= now
    BY <1>0 DEF EvictionInv, EntryIsCurrent, PoppedHasExpired, Queued
  <2>6. challenge[challenge_set[e.key].nonce].expires_at <= now
    <3> DEFINE c == challenge_set[e.key]
    <3>1. c \in Challenge /\ c.nonce \in Request /\ Inserted(c.nonce)
      BY <2>2, <2>5, <1>0, ChallengeType DEF HistoryInv, StoredIsDrawn, Stored, TypeOK
    <3>2. c.expires_at = challenge[c.nonce].expires_at
      BY <2>2, <2>5, <1>0 DEF HistoryInv, StoredIsDrawn
    <3> QED BY <3>2, <2>5
  <2>7. DrawnIsFresh'
    BY <2>1, <2>4, <1>0 DEF HistoryInv, DrawnIsFresh
  <2>8. StoredIsDrawn'
    <3>1. \A k \in Key : Stored(k) => challenge_set[k].nonce \in Request
      BY <1>0, ChallengeType DEF Stored, TypeOK
    <3> QED BY <3>1, <2>1, <2>3, <2>4, <1>0 DEF HistoryInv, StoredIsDrawn, Stored
  <2>9. StoredUntilExpired'
    <3>1. \A q \in Request : key[q] \in Key
      BY <1>0 DEF TypeOK
    <3> QED BY <3>1, <2>1, <2>3, <2>4, <2>6, <1>0
        DEF HistoryInv, StoredUntilExpired, Stored, Expired
  <2>10. ReadIsDrawn'
    <3>1. \A q \in Request : challenge[q] # NoChallenge => challenge[q].nonce \in Request
      BY <1>0, ChallengeType DEF TypeOK
    <3> QED BY <3>1, <2>1, <2>4, <1>0 DEF HistoryInv, ReadIsDrawn
  <2>11. ClaimedIsAttempted'
    BY <2>1, <2>3, <2>4, <1>0 DEF HistoryInv, ClaimedIsAttempted, Stored
  <2>12. OneAttempt'
    BY <2>1, <2>4, <1>0 DEF HistoryInv, OneAttempt
  <2> QED BY <2>7, <2>8, <2>9, <2>10, <2>11, <2>12 DEF HistoryInv
<1>11. ASSUME RecvWakeup \/ PopExpired \/ ReturnWakeup \/ StoreWakeup,
              UNCHANGED <<now, challenge_set, requestVars>>
       PROVE  HistoryInv'
  BY <1>0, <1>11, HistoryUnchanged DEF requestVars, Inserted, Attempted
<1>12. CASE Tick
  BY <1>0, <1>12, HistoryUnchanged DEF Tick, requestVars, Inserted, Attempted
<1>13. CASE UNCHANGED vars
  BY <1>0, <1>13, HistoryUnchanged DEF vars, requestVars, Inserted, Attempted
<1> QED
  BY <1>1, <1>2, <1>3, <1>4, <1>5, <1>6, <1>7, <1>8, <1>9, <1>10, <1>11,
     <1>12, <1>13 DEF Next, Proceed, Evict

-----------------------------------------------------------------------------
(* The inductive invariant and what follows from it                        *)

LEMMA InitIInv == Init => IInv
<1> SUFFICES ASSUME Init PROVE IInv
  OBVIOUS
<1> USE DEF Init, QueueInit
<1>1. TypeOK
  BY NeverAssumption, MaxTimeAssumption
  DEF TypeOK, QueueTypeOK, Instant, Guess, Solution
<1>2. EvictionInv
  BY DEF EvictionInv, PushIsPending, EntryIsCurrent, PoppedHasExpired,
         StoredIsScheduled, Queued, Stored
<1>3. HistoryInv
  BY DEF HistoryInv, DrawnIsFresh, StoredIsDrawn, StoredUntilExpired,
         ReadIsDrawn, ClaimedIsAttempted, OneAttempt, Stored, Inserted, Attempted
<1> QED BY <1>1, <1>2, <1>3 DEF IInv

\* Types, evictions and history support each other: the three are inductive
\* together and none of them is alone.
THEOREM Invariance == Spec => []IInv
<1>1. Init => IInv
  BY InitIInv
<1>2. IInv /\ [Next]_vars => IInv'
  BY TypeStep, EvictionStep, HistoryStep DEF IInv, HistoryInv
<1> QED BY <1>1, <1>2, PTL DEF Spec

\* Every variable has its type.
THEOREM TypeCorrect == Spec => []TypeOK
<1>1. IInv => TypeOK
  BY DEF IInv
<1> QED BY <1>1, Invariance, PTL

\* Every challenge in the map has exactly one eviction ahead of it.
THEOREM EvictionCorrect == Spec => []EvictionInv
<1>1. IInv => EvictionInv
  BY DEF IInv
<1> QED BY <1>1, Invariance, PTL

\* The map holds what the answers of get and check_solution imply.
THEOREM HistoryCorrect == Spec => []HistoryInv
<1>1. IInv => HistoryInv
  BY DEF IInv
<1> QED BY <1>1, Invariance, PTL

-----------------------------------------------------------------------------
(* Action properties                                                       *)

\* Only a cas of get fills the map, only one of check_solution changes what it
\* holds, and only the background task empties it.
LEMMA MapStep ==
  ASSUME TypeOK, [Next]_vars
  PROVE  \/ UNCHANGED challenge_set
         \/ \E r \in Request : CasInsert(r) \/ CasClaim(r)
         \/ \E e \in to_expire : RemoveExpired(e)
BY DEF Next, Proceed, Evict, StartGet, ReadChallenge, CasExisting, PushEntry,
       LoadWakeup, NotifyEvictor, CasClaimFails, Tick, vars

\* A challenge leaves the map, or gives way to another, only once it has expired.
THEOREM EvictionNeverEarly == Spec => NoEarlyEviction
<1> DEFINE Leaves(k) ==
      Stored(k) /\ (challenge_set'[k] = NoChallenge
                      \/ challenge_set'[k].nonce # challenge_set[k].nonce)
<1>1. ASSUME IInv, [Next]_vars, NEW k \in Key, Leaves(k)
      PROVE  challenge_set[k].expires_at <= now
  <2>0. TypeOK /\ EvictionInv /\ HistoryInv
    BY <1>1 DEF IInv
  <2>1. CASE UNCHANGED challenge_set
    BY <1>1, <2>1 DEF Stored
  <2>2. ASSUME NEW r \in Request, CasInsert(r) PROVE FALSE
    BY <1>1, <2>0, <2>2 DEF CasInsert, Stored, TypeOK
  <2>3. ASSUME NEW r \in Request, CasClaim(r) PROVE FALSE
    <3>1. challenge[r] \in Challenge /\ challenge_set[key[r]] = challenge[r]
      BY <2>0, <2>3 DEF CasClaim, HistoryInv, ReadIsDrawn, TypeOK
    <3>2. /\ [challenge[r] EXCEPT !.claimed = TRUE].nonce = challenge[r].nonce
          /\ [challenge[r] EXCEPT !.claimed = TRUE] \in Challenge
      BY <3>1 DEF Challenge
    <3>3. challenge_set' = [challenge_set EXCEPT
            ![key[r]] = [challenge[r] EXCEPT !.claimed = TRUE]]
      BY <2>3 DEF CasClaim
    <3> QED BY <1>1, <2>0, <3>1, <3>2, <3>3, NoChallengeAssumption DEF Stored, TypeOK
  <2>4. ASSUME NEW e \in to_expire, RemoveExpired(e)
        PROVE  challenge_set[k].expires_at <= now
    <3>1. k = e.key
      BY <1>1, <2>0, <2>4 DEF RemoveExpired, TypeOK, Stored
    <3> QED BY <2>0, <3>1
        DEF EvictionInv, EntryIsCurrent, PoppedHasExpired, Queued
  <2> QED BY <1>1, <2>0, <2>1, <2>2, <2>3, <2>4, MapStep
<1>2. IInv /\ [Next]_vars =>
        [\A k \in Key : Leaves(k) => challenge_set[k].expires_at <= now]_vars
  BY <1>1
<1> QED BY <1>2, Invariance, PTL DEF Spec, NoEarlyEviction

\* A request takes up an attempt only by a cas of check_solution.
LEMMA AttemptStep ==
  ASSUME TypeOK, [Next]_vars, NEW r \in Request, ~Attempted(r), Attempted(r)'
  PROVE  CasClaim(r)
<1>1. ASSUME NEW q \in Request, StartGet(q) \/ ReadChallenge(q) \/ Proceed(q)
      PROVE  CasClaim(r)
  <2>1. \E l : pc' = [pc EXCEPT ![q] = l]
    BY <1>1 DEF StartGet, ReadChallenge, Proceed, CasInsert, CasExisting, PushEntry,
                LoadWakeup, NotifyEvictor, CasClaim, CasClaimFails, Goto
  <2>2. q = r
    BY <2>1 DEF Attempted, TypeOK
  <2> QED BY <1>1, <2>2
      DEF StartGet, ReadChallenge, Proceed, CasInsert, CasExisting, PushEntry,
          LoadWakeup, NotifyEvictor, CasClaimFails, Goto, Attempted, TypeOK
<1>2. ASSUME Evict \/ Tick \/ UNCHANGED vars PROVE FALSE
  BY <1>2 DEF Evict, RemoveExpired, Tick, vars, requestVars, Attempted
<1> QED BY <1>1, <1>2 DEF Next

\* The rate limit: an attempt is taken up only when all the earlier ones of the
\* same address on the same chain were at challenges that have expired.
THEOREM RateLimit == Spec => OneAttemptUntilExpiry
<1>1. ASSUME IInv, [Next]_vars, NEW r \in Request, ~Attempted(r), Attempted(r)',
             NEW q \in Request, Attempted(q), key[q] = key[r]
      PROVE  challenge[q].nonce # challenge[r].nonce /\ Expired(q)
  <2>0. TypeOK /\ HistoryInv
    BY <1>1 DEF IInv
  <2>1. pc[r] = "claim" /\ challenge_set[key[r]] = challenge[r] /\ key[r] \in Key
    BY <1>1, <2>0, AttemptStep DEF CasClaim, TypeOK
  <2>2. /\ challenge[r] # NoChallenge /\ ~challenge[r].claimed
    BY <2>0, <2>1, ChallengeType DEF HistoryInv, ReadIsDrawn, DrawnIsFresh, TypeOK
  <2>3. challenge[q].nonce # challenge[r].nonce
    BY <1>1, <2>0, <2>1, <2>2 DEF HistoryInv, ClaimedIsAttempted, Stored
  <2> DEFINE n == challenge[q].nonce
  <2>4. /\ n \in Request /\ Inserted(n) /\ key[n] = key[r]
        /\ challenge[q] = challenge[n]
    BY <1>1, <2>0, ChallengeType DEF HistoryInv, ReadIsDrawn, TypeOK
  <2>5. Expired(n)
    BY <2>0, <2>1, <2>3, <2>4 DEF HistoryInv, StoredUntilExpired
  <2> QED BY <2>3, <2>4, <2>5 DEF Expired
<1>2. IInv /\ [Next]_vars =>
        [\A r \in Request : ~Attempted(r) /\ Attempted(r)' =>
           \A q \in Request : Attempted(q) /\ key[q] = key[r] =>
             challenge[q].nonce # challenge[r].nonce /\ Expired(q)]_vars
  BY <1>1
<1> QED BY <1>2, Invariance, PTL DEF Spec, OneAttemptUntilExpiry

-----------------------------------------------------------------------------
(* A client that hashes what the server hashes                             *)

\* A submitted nonce was told by some get; a claim that has read a later
\* challenge than the one it was worked for comes after that one's expiry.
SubmittedInv ==
  \A r \in Request :
    LET n == solution[r].nonce IN
    /\ n = r \/ Inserted(n)
    /\ pc[r] = "claim" /\ Inserted(n) /\ key[n] = key[r] /\ n # challenge[r].nonce
         => Expired(n)

\* What a rejection is excused by stays so.
LEMMA ExcusesStay ==
  ASSUME IInv, TypeOK', [Next]_vars, NEW n \in Request, Inserted(n)
  PROVE  /\ key' = key /\ Inserted(n)' /\ challenge'[n] = challenge[n]
         /\ Expired(n) => Expired(n)'
         /\ \A r \in Request : AttemptedByAnother(r, n) => AttemptedByAnother(r, n)'
<1>0. TypeOK /\ HistoryInv /\ now \in Nat
  BY MaxTimeAssumption DEF IInv, TypeOK
<1>1. ASSUME NEW q \in Request, StartGet(q) \/ ReadChallenge(q) \/ Proceed(q)
      PROVE  /\ key' = key /\ now' = now
             /\ \A r \in Request \ {q} : pc'[r] = pc[r] /\ challenge'[r] = challenge[r]
             /\ Inserted(q) => Inserted(q)' /\ challenge'[q] = challenge[q]
             /\ ~Attempted(q)
  BY <1>0, <1>1
  DEF StartGet, ReadChallenge, Proceed, CasInsert, CasExisting, PushEntry, LoadWakeup,
      NotifyEvictor, CasClaim, CasClaimFails, Goto, Inserted, Attempted, TypeOK
<1>2. ASSUME Evict \/ Tick \/ UNCHANGED vars
      PROVE  UNCHANGED requestVars /\ (now' = now \/ now' = now + 1)
  BY <1>2 DEF Evict, RemoveExpired, Tick, vars
<1>3. challenge[n] \in Challenge /\ challenge[n].expires_at \in Nat
  BY <1>0, ChallengeType, NeverAssumption DEF HistoryInv, DrawnIsFresh, TypeOK, Instant
<1>4. CASE \E q \in Request : StartGet(q) \/ ReadChallenge(q) \/ Proceed(q)
  <2> PICK q \in Request : StartGet(q) \/ ReadChallenge(q) \/ Proceed(q)
    BY <1>4
  <2>1. \A r \in Request : Attempted(r) => Attempted(r)' /\ challenge'[r] = challenge[r]
    BY <1>1 DEF Attempted
  <2>2. Inserted(n)' /\ challenge'[n] = challenge[n]
    BY <1>1 DEF Inserted
  <2> QED BY <1>1, <2>1, <2>2 DEF Expired, AttemptedByAnother
<1>5. CASE Evict \/ Tick \/ UNCHANGED vars
  BY <1>0, <1>2, <1>3, <1>5
  DEF requestVars, Inserted, Attempted, Expired, AttemptedByAnother
<1> QED BY <1>4, <1>5 DEF Next

\* The map has moved on from n only if n has expired.
LEMMA OthersExpired ==
  ASSUME IInv, NEW k \in Key, Stored(k)
  PROVE  \A n \in Request : Inserted(n) /\ key[n] = k /\ challenge_set[k].nonce # n
           => Expired(n)
BY DEF IInv, HistoryInv, StoredUntilExpired

\* Requests other than the one that moves keep their locals, and one that
\* submits or is rejected comes from the three handlers' steps of claims.
LEMMA ClaimStep ==
  ASSUME TypeOK, [Next]_vars, NEW r \in Request,
         pc'[r] \in {"claim"} \cup Rejections
  PROVE  \/ UNCHANGED <<pc[r], challenge[r], solution[r]>>
         \/ ReadChallenge(r)
         \/ CasClaim(r) /\ UNCHANGED <<challenge, solution>>
         \/ CasClaimFails(r) /\ UNCHANGED <<challenge, solution>>
<1>1. ASSUME NEW q \in Request, StartGet(q) \/ ReadChallenge(q) \/ Proceed(q), q # r
      PROVE  UNCHANGED <<pc[r], challenge[r], solution[r]>>
  BY <1>1
  DEF StartGet, ReadChallenge, Proceed, CasInsert, CasExisting, PushEntry, LoadWakeup,
      NotifyEvictor, CasClaim, CasClaimFails, Goto, TypeOK
<1>2. ASSUME StartGet(r) \/ CasInsert(r) \/ CasExisting(r) \/ PushEntry(r)
             \/ LoadWakeup(r) \/ NotifyEvictor(r)
      PROVE  FALSE
  BY <1>2
  DEF StartGet, CasInsert, CasExisting, PushEntry, LoadWakeup, NotifyEvictor, Goto,
      TypeOK, Rejections
<1>3. CASE Evict \/ Tick \/ UNCHANGED vars
  BY <1>3 DEF Evict, RemoveExpired, Tick, vars, requestVars
<1> QED BY <1>1, <1>2, <1>3 DEF Next, Proceed, CasClaim, CasClaimFails

LEMMA SolutionKept ==
  ASSUME TypeOK, [Next]_vars, NEW r \in Request
  PROVE  UNCHANGED solution[r] \/ ReadChallenge(r)
BY DEF Next, Proceed, Evict, StartGet, ReadChallenge, CasInsert, CasExisting, PushEntry,
       LoadWakeup, NotifyEvictor, CasClaim, CasClaimFails, RemoveExpired, Tick, vars,
       requestVars, TypeOK

LEMMA SubmittedStep == IInv /\ SubmittedInv /\ [Next]_vars => SubmittedInv'
<1> SUFFICES ASSUME IInv, SubmittedInv, [Next]_vars,
                    NEW r \in Request, NEW n, n = solution'[r].nonce
             PROVE  /\ n = r \/ Inserted(n)'
                    /\ /\ pc'[r] = "claim" /\ Inserted(n)' /\ key'[n] = key'[r]
                       /\ n # challenge'[r].nonce
                       => Expired(n)'
  BY DEF SubmittedInv
<1>0. TypeOK /\ TypeOK' /\ HistoryInv
  BY TypeStep DEF IInv, HistoryInv
<1>1. CASE ReadChallenge(r)
  <2>1. n = r \/ n \in Told
    BY <1>0, <1>1 DEF ReadChallenge, Guess, TypeOK
  <2>2. \A t \in Told : t \in Request /\ Inserted(t)
    BY <1>0, ChallengeType DEF Told, HistoryInv, DrawnIsFresh, ReadIsDrawn, TypeOK, Inserted
  <2>3. n = r \/ (n \in Request /\ Inserted(n) /\ Inserted(n)')
    BY <2>1, <2>2, <1>0, ExcusesStay
  <2>4. ASSUME pc'[r] = "claim", Inserted(n)', key'[n] = key'[r], n # challenge'[r].nonce
        PROVE  Expired(n)'
    <3>1. n \in Request /\ Inserted(n)
      BY <2>3, <2>4 DEF Inserted
    <3>2. /\ Stored(key[r]) /\ challenge'[r] = challenge_set[key[r]] /\ key' = key
      BY <1>0, <1>1, <2>4 DEF ReadChallenge, Goto, TypeOK, Stored
    <3>3. Expired(n)
      BY <3>1, <3>2, <2>4, <1>0, OthersExpired DEF TypeOK
    <3> QED BY <3>1, <3>3, <1>0, ExcusesStay
  <2> QED BY <2>3, <2>4
<1>2. CASE ~ReadChallenge(r)
  <2>1. n = solution[r].nonce /\ n \in Request
    BY <1>0, <1>2, SolutionKept DEF TypeOK, Solution
  <2>2. n = r \/ (Inserted(n) /\ Inserted(n)')
    BY <2>1, <1>0, ExcusesStay DEF SubmittedInv
  <2>3. ASSUME pc'[r] = "claim", Inserted(n)', key'[n] = key'[r], n # challenge'[r].nonce
        PROVE  Expired(n)'
    <3>1. Inserted(n) /\ key' = key
      BY <2>1, <2>2, <2>3, <1>0, ExcusesStay DEF Inserted
    <3>2. pc[r] = "claim" /\ challenge'[r] = challenge[r]
      BY <2>3, <1>0, <1>2, ClaimStep DEF CasClaim, CasClaimFails, Goto, TypeOK
    <3> QED BY <2>1, <2>3, <3>1, <3>2, <1>0, ExcusesStay DEF SubmittedInv
  <2> QED BY <2>2, <2>3
<1> QED BY <1>1, <1>2

LEMMA ServedStep ==
  ASSUME ClientSalt = Salt
  PROVE  IInv /\ SubmittedInv /\ HonestSolverServed /\ [Next]_vars => HonestSolverServed'
<1> SUFFICES ASSUME IInv, SubmittedInv, HonestSolverServed, [Next]_vars,
                    NEW r \in Request, NEW n, n = solution'[r].nonce,
                    pc'[r] \in Rejections, Inserted(n)', key'[n] = key'[r],
                    solution'[r].zeros >= challenge'[n].difficulty
             PROVE  Expired(n)' \/ AttemptedByAnother(r, n)'
  BY DEF HonestSolverServed
<1>0. TypeOK /\ TypeOK' /\ HistoryInv /\ SubmittedInv'
  BY TypeStep, SubmittedStep DEF IInv, HistoryInv
<1>1. n \in Request /\ n # r
  BY <1>0 DEF TypeOK, Solution, Inserted, Rejections
<1>2. Inserted(n)
  <2>1. CASE ReadChallenge(r)
    <3>1. n \in Told
      BY <1>0, <1>1, <2>1 DEF ReadChallenge, Guess, TypeOK
    <3> QED BY <3>1, <1>0 DEF Told, HistoryInv, DrawnIsFresh, ReadIsDrawn, TypeOK, Inserted
  <2>2. CASE ~ReadChallenge(r)
    BY <1>0, <1>1, <2>2, SolutionKept DEF SubmittedInv
  <2> QED BY <2>1, <2>2
<1>3. /\ key' = key /\ challenge'[n] = challenge[n]
      /\ Expired(n) => Expired(n)'
      /\ AttemptedByAnother(r, n) => AttemptedByAnother(r, n)'
  BY <1>0, <1>1, <1>2, ExcusesStay
<1>4. SUFFICES Expired(n) \/ AttemptedByAnother(r, n)
  BY <1>3
<1>5. ASSUME Stored(key[r]), challenge_set[key[r]].nonce = n, challenge_set[key[r]].claimed,
             ~Attempted(r)
      PROVE  AttemptedByAnother(r, n)
  BY <1>0, <1>5 DEF HistoryInv, ClaimedIsAttempted, AttemptedByAnother, TypeOK
<1>6. CASE UNCHANGED <<pc[r], challenge[r], solution[r]>>
  BY <1>2, <1>3, <1>6 DEF HonestSolverServed
<1>7. CASE ReadChallenge(r)
  <2>1. \/ ~Stored(key[r])
        \/ Stored(key[r]) /\ challenge_set[key[r]].claimed
    BY <1>0, <1>7 DEF ReadChallenge, Goto, Stored, TypeOK, Rejections
  <2>2. ~Attempted(r)
    BY <1>7 DEF ReadChallenge, Attempted
  <2> QED BY <2>1, <2>2, <1>0, <1>1, <1>2, <1>3, <1>5
      DEF HistoryInv, StoredUntilExpired
<1>8. CASE CasClaim(r) /\ UNCHANGED <<challenge, solution>>
  <2>1. /\ pc[r] = "claim" /\ challenge[r] = challenge[challenge[r].nonce]
        /\ ~(LeadingZeros(solution[r], challenge[r].nonce) >= challenge[r].difficulty)
    BY <1>0, <1>8 DEF CasClaim, Goto, HistoryInv, ReadIsDrawn, TypeOK, Rejections
  <2>2. n # challenge[r].nonce
    BY <2>1, <1>8 DEF LeadingZeros
  <2> QED BY <2>1, <2>2, <1>2, <1>3, <1>8 DEF SubmittedInv
<1>9. CASE CasClaimFails(r) /\ UNCHANGED <<challenge, solution>>
  <2>1. /\ pc[r] = "claim" /\ ~Attempted(r) /\ challenge_set[key[r]] # challenge[r]
        /\ challenge[r] \in Challenge /\ challenge[r] = challenge[challenge[r].nonce]
    BY <1>0, <1>9 DEF CasClaimFails, HistoryInv, ReadIsDrawn, TypeOK, Attempted
  <2>2. CASE n # challenge[r].nonce
    BY <2>1, <2>2, <1>2, <1>3, <1>9 DEF SubmittedInv
  <2>3. CASE n = challenge[r].nonce /\ ~Expired(n)
    <3> DEFINE c == challenge_set[key[r]]
    <3>1. Stored(key[r]) /\ c.nonce = n /\ c \in Challenge
      BY <2>3, <1>0, <1>1, <1>2, <1>3 DEF HistoryInv, StoredUntilExpired, Stored, TypeOK
    <3>2. c.expires_at = challenge[n].expires_at /\ c.difficulty = challenge[n].difficulty
      BY <3>1, <1>0 DEF HistoryInv, StoredIsDrawn, TypeOK
    <3>3. ~challenge[n].claimed /\ challenge[n] = challenge[r]
      BY <2>1, <2>3, <1>0, <1>1, <1>2 DEF HistoryInv, DrawnIsFresh
    <3>4. c.claimed
      BY <2>1, <2>3, <3>1, <3>2, <3>3, ChallengeType DEF Challenge
    <3> QED BY <2>1, <3>1, <3>4, <1>5
  <2> QED BY <2>2, <2>3
<1> QED BY <1>0, <1>6, <1>7, <1>8, <1>9, ClaimStep

\* With the server's own salt, a client that has done the work for a nonce of its
\* own is turned down only after the expiry or after another claim.
THEOREM HonestService ==
  ASSUME ClientSalt = Salt
  PROVE  Spec => []HonestSolverServed
<1>1. Init => SubmittedInv /\ HonestSolverServed
  BY DEF Init, SubmittedInv, HonestSolverServed, Guess, Inserted, Rejections
<1>2. IInv /\ SubmittedInv /\ HonestSolverServed /\ [Next]_vars
        => SubmittedInv' /\ HonestSolverServed'
  BY SubmittedStep, ServedStep
<1> QED BY <1>1, <1>2, Invariance, PTL DEF Spec

-----------------------------------------------------------------------------
(* Module Pow implements module ChallengeLedger.                           *)

LEMMA LedgerStart == Init => Ledger!LedgerInit
BY DEF Init, Ledger!LedgerInit, Issued, Granted, Inserted

\* Steps that leave the map alone and nobody's claim succeeds in.
LEMMA LedgerStutter ==
  ASSUME UNCHANGED <<now, challenge_set>>,
         \A r \in Request :
           /\ Inserted(r)' <=> Inserted(r)
           /\ pc'[r] = "Ok" <=> pc[r] = "Ok"
           /\ pc[r] = "Ok" => UNCHANGED <<challenge[r], solution[r]>>
  PROVE  UNCHANGED Ledger!ledgerVars
<1>1. Issued' = Issued
  BY DEF Issued
<1>2. Granted' = Granted
  BY DEF Granted, Proof, LeadingZeros
<1> QED BY <1>1, <1>2 DEF Ledger!ledgerVars

LEMMA IssueStep ==
  ASSUME IInv, NEW r \in Request, CasInsert(r) PROVE Ledger!Issue(key[r])
<1>0. TypeOK /\ HistoryInv
  BY DEF IInv
<1>1. /\ pc[r] = "cas" /\ pc' = [pc EXCEPT ![r] = "push"]
      /\ challenge_set[key[r]] = NoChallenge
      /\ challenge_set' = [challenge_set EXCEPT ![key[r]] = challenge[r]]
      /\ UNCHANGED <<now, challenge, solution>>
  BY DEF CasInsert, Goto
<1>2. /\ challenge[r] \in Challenge /\ challenge[r].nonce = r /\ challenge[r].claimed = FALSE
      /\ challenge[r].expires_at <= now + Duration[key[r]]
  BY <1>0, <1>1, ChallengeType DEF HistoryInv, DrawnIsFresh, TypeOK
<1>3. /\ challenge[r].difficulty \in Difficulty
      /\ challenge[r].expires_at \in 0..(now + Duration[key[r]])
  BY <1>0, <1>2, ChallengeType, MaxTimeAssumption, DurationAssumption, NeverAssumption
  DEF Instant, TypeOK
<1>4. challenge[r] = [nonce |-> r, claimed |-> FALSE,
        expires_at |-> challenge[r].expires_at, difficulty |-> challenge[r].difficulty]
  BY <1>2 DEF Challenge
<1>5. r \in Request \ Issued /\ Issued' = Issued \cup {r}
  BY <1>0, <1>1 DEF Issued, Inserted, TypeOK
<1>6. Granted' = Granted
  <2>1. \A q \in Request : pc'[q] = "Ok" <=> pc[q] = "Ok"
    BY <1>0, <1>1 DEF TypeOK
  <2> QED BY <2>1, <1>1 DEF Granted, Proof, LeadingZeros
<1> QED BY <1>1, <1>3, <1>4, <1>5, <1>6 DEF Ledger!Issue

LEMMA ClaimLedgerStep ==
  ASSUME IInv, NEW r \in Request, CasClaim(r)
  PROVE  Ledger!Grant(key[r]) \/ Ledger!Burn(key[r])
<1>0. TypeOK /\ HistoryInv
  BY DEF IInv
<1> DEFINE w == LeadingZeros(solution[r], challenge[r].nonce)
<1>1. /\ pc[r] = "claim" /\ challenge_set[key[r]] = challenge[r]
      /\ challenge_set' = [challenge_set EXCEPT ![key[r]].claimed = TRUE]
      /\ pc' = [pc EXCEPT ![r] =
                 IF w >= challenge[r].difficulty THEN "Ok" ELSE "BadProofOfWork"]
      /\ UNCHANGED <<now, challenge, solution>>
  BY DEF CasClaim, Goto
<1>2. Ledger!Claimable(key[r])
  BY <1>0, <1>1, ChallengeType
  DEF Ledger!Claimable, HistoryInv, ReadIsDrawn, DrawnIsFresh, TypeOK
<1>3. Issued' = Issued
  BY <1>0, <1>1 DEF Issued, Inserted, TypeOK
<1>4. w \in 0..255
  <2>1. solution[r].zeros \in Work \cup {0}
    BY <1>0 DEF Solution, TypeOK
  <2>2. \A z \in Work : z \in 0..255
    BY DifficultyAssumption
  <2>3. solution[r].zeros \in 0..255
    BY <2>1, <2>2
  <2> QED BY <2>3 DEF LeadingZeros
<1>5. \A q \in Request \ {r} : pc'[q] = pc[q]
  BY <1>0, <1>1 DEF TypeOK
<1>6. \A q \in Request : Proof(q)' = Proof(q)
  BY <1>1 DEF Proof, LeadingZeros
<1>7. CASE w >= challenge[r].difficulty
  <2>1. pc'[r] = "Ok"
    BY <1>0, <1>1, <1>7 DEF TypeOK
  <2>2. Granted' = Granted \cup {Proof(r)}
    BY <2>1, <1>1, <1>5, <1>6 DEF Granted
  <2>3. Proof(r) = [nonce |-> challenge_set[key[r]].nonce, zeros |-> w]
    BY <1>1 DEF Proof
  <2> QED BY <2>2, <2>3, <1>1, <1>2, <1>3, <1>4, <1>7
      DEF Ledger!Grant, Ledger!Claim, Ledger!Zeros
<1>8. CASE ~(w >= challenge[r].difficulty)
  <2>1. pc'[r] # "Ok"
    BY <1>0, <1>1, <1>8 DEF TypeOK
  <2>2. Granted' = Granted
    BY <2>1, <1>1, <1>5, <1>6 DEF Granted
  <2> QED BY <2>2, <1>1, <1>2, <1>3 DEF Ledger!Burn, Ledger!Claim
<1> QED BY <1>7, <1>8

LEMMA ExpireStep ==
  ASSUME IInv, NEW e \in to_expire, RemoveExpired(e) PROVE Ledger!Expire(e.key)
<1>1. /\ challenge_set' = [challenge_set EXCEPT ![e.key] = NoChallenge]
      /\ UNCHANGED <<now, pc, challenge, solution>>
  BY DEF RemoveExpired, requestVars
<1>2. challenge_set[e.key] # NoChallenge /\ challenge_set[e.key].expires_at <= now
  BY DEF IInv, EvictionInv, EntryIsCurrent, PoppedHasExpired, Queued, Stored
<1>3. Issued' = Issued /\ Granted' = Granted
  BY <1>1 DEF Issued, Inserted, Granted, Proof, LeadingZeros
<1> QED BY <1>1, <1>2, <1>3 DEF Ledger!Expire

LEMMA LedgerStep ==
  IInv /\ [Next]_vars => [Ledger!LedgerNext]_(Ledger!ledgerVars)
<1> SUFFICES ASSUME IInv, [Next]_vars
             PROVE  Ledger!LedgerNext \/ UNCHANGED Ledger!ledgerVars
  OBVIOUS
<1>0. TypeOK
  BY DEF IInv
<1>1. ASSUME NEW r \in Request, CasInsert(r) PROVE Ledger!LedgerNext
  BY <1>0, <1>1, IssueStep DEF Ledger!LedgerNext, TypeOK
<1>2. ASSUME NEW r \in Request, CasClaim(r) PROVE Ledger!LedgerNext
  BY <1>0, <1>2, ClaimLedgerStep DEF Ledger!LedgerNext, TypeOK
<1>3. ASSUME NEW e \in to_expire, RemoveExpired(e) PROVE Ledger!LedgerNext
  <2>1. e.key \in Key
    BY <1>0 DEF TypeOK, QueueTypeOK, EvictionEntry
  <2> QED BY <1>3, <2>1, ExpireStep DEF Ledger!LedgerNext
<1>4. ASSUME NEW r \in Request,
             StartGet(r) \/ ReadChallenge(r) \/ CasExisting(r) \/ PushEntry(r)
               \/ LoadWakeup(r) \/ NotifyEvictor(r) \/ CasClaimFails(r)
      PROVE  UNCHANGED Ledger!ledgerVars
  <2>1. UNCHANGED <<now, challenge_set>>
    BY <1>4 DEF StartGet, ReadChallenge, CasExisting, PushEntry, LoadWakeup,
                NotifyEvictor, CasClaimFails
  <2>2. \A q \in Request :
          /\ Inserted(q)' <=> Inserted(q)
          /\ pc'[q] = "Ok" <=> pc[q] = "Ok"
          /\ pc[q] = "Ok" => UNCHANGED <<challenge[q], solution[q]>>
    BY <1>0, <1>4
    DEF StartGet, ReadChallenge, CasExisting, PushEntry, LoadWakeup, NotifyEvictor,
        CasClaimFails, Goto, Inserted, TypeOK
  <2> QED BY <2>1, <2>2, LedgerStutter
<1>5. ASSUME RecvWakeup \/ PopExpired \/ ReturnWakeup \/ StoreWakeup,
             UNCHANGED <<now, challenge_set, requestVars>>
      PROVE  UNCHANGED Ledger!ledgerVars
  BY <1>5, LedgerStutter DEF requestVars, Inserted
<1>6. CASE Tick
  <2>1. Issued' = Issued /\ Granted' = Granted
    BY <1>6 DEF Tick, requestVars, Issued, Inserted, Granted, Proof, LeadingZeros
  <2> QED BY <1>6, <2>1 DEF Tick, Ledger!Pass, Ledger!LedgerNext
<1>7. CASE UNCHANGED vars
  BY <1>7, LedgerStutter DEF vars, requestVars, Inserted
<1> QED
  BY <1>1, <1>2, <1>3, <1>4, <1>5, <1>6, <1>7 DEF Next, Proceed, Evict

\* Every behaviour of the gate is one of the ledger.
THEOREM Refinement == Spec => ImplementsLedger
<1>1. Init => Ledger!LedgerInit
  BY LedgerStart
<1>2. IInv /\ [Next]_vars => [Ledger!LedgerNext]_(Ledger!ledgerVars)
  BY LedgerStep
<1> QED BY <1>1, <1>2, Invariance, PTL DEF Spec, ImplementsLedger, Ledger!LedgerSpec
=============================================================================
