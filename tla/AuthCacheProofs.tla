-------------------------- MODULE AuthCacheProofs ---------------------------
(***************************************************************************)
(* What AuthCache.cfg checks on small instances, for every buffer, default *)
(* lifetime, set of lifetimes, latency and number of tokens.              *)
(*                                                                         *)
(* The inductive invariant has, beside the types, which tokens the client *)
(* may hold (Tracked) and, for a token whose lifetime the server stated,  *)
(* how far what the client believes may be from what the server does:     *)
(* at most the latency of the answer that brought it (Timely).            *)
(***************************************************************************)
EXTENDS AuthCache, TLAPS

Sending == {"request", "accepted", "rejected"}

(* Every token the client has was issued, and none of them was dropped;   *)
(* an iteration under way has a request to send.                          *)
Tracked ==
  /\ slot.token \in 0 .. issued
  /\ slot.token \notin dropped
  /\ dropped \subseteq 1 .. issued
  /\ pc = "issued" => issued \in Tokens /\ issued \notin dropped
  /\ pc \in Sending => held \in 1 .. issued /\ held \notin dropped
  /\ held \in 0 .. issued
  /\ pc \in UnderWay \cup {"lookup"} => left # 0
  /\ \A t \in 1 .. issued : life[t] \in Lifetimes

(* An answer under way states the token's life from age ticks ago. *)
AnswerTimely ==
  pc = "issued" /\ stated[issued] =>
    says = life[issued] /\ dies[issued] = now - age + life[issued]

(* The slot's expiry is late by no more than the answer was. *)
SlotTimely ==
  slot.token # 0 /\ stated[slot.token] =>
    slot.exp <= dies[slot.token] + Latency

(* A token taken into use had its buffer left, or was new. *)
UseTimely ==
  pc \in Sending /\ stated[held] =>
    \/ looked + Buffer < dies[held] + Latency
    \/ looked + life[held] <= dies[held] + Latency

(* OAuth2 sends a token the moment it has looked it up. *)
SentAtOnce == site = "oauth2" /\ pc = "request" => looked = now - age

IInv ==
  TypeOK /\ Tracked /\ AnswerTimely /\ SlotTimely /\ UseTimely /\ SentAtOnce
-----------------------------------------------------------------------------
THEOREM InitIInv == Init => IInv
<1> SUFFICES ASSUME Init PROVE IInv
  OBVIOUS
<1> USE TimesAssumption, BoundsAssumption DEF Init, Empty, Tokens
<1>1. TypeOK
  <2>1. {} \subseteq Tokens
    OBVIOUS
  <2> QED  BY <2>1 DEF TypeOK, UnderWay
<1>2. Tracked /\ AnswerTimely /\ SlotTimely /\ UseTimely /\ SentAtOnce
  BY DEF Tracked, AnswerTimely, SlotTimely, UseTimely, SentAtOnce, Sending, UnderWay
<1> QED  BY <1>1, <1>2 DEF IInv

(* Types, one action at a time. *)
LEMMA TypeStep == TypeOK /\ Tracked /\ [Next]_vars => TypeOK'
<1> SUFFICES ASSUME TypeOK, Tracked, [Next]_vars PROVE TypeOK'
  OBVIOUS
<1> USE TimesAssumption, BoundsAssumption
    DEF TypeOK, Tokens, UnderWay, Empty, cache, use, count, server
<1>1. CASE StartDrain
  BY <1>1 DEF StartDrain
<1>2. CASE BeginIteration
  BY <1>2 DEF BeginIteration
<1>3. CASE EndDrain
  BY <1>3 DEF EndDrain
<1>4. CASE Hit
  BY <1>4 DEF Hit
<1>5. CASE Miss
  BY <1>5 DEF Miss
<1>6. CASE Issue
  BY <1>6 DEF Issue
<1>7. CASE StoreToken
  BY <1>7 DEF StoreToken
<1>8. CASE Arrive
  BY <1>8 DEF Arrive
<1>9. CASE Answered
  BY <1>9 DEF Answered, GoOn, Tracked
<1>10. CASE Invalidated
  BY <1>10 DEF Invalidated, Tracked, Sending
<1>11. CASE ExchangeFails
  BY <1>11 DEF ExchangeFails
<1>12. CASE Revoke
  BY <1>12 DEF Revoke
<1>13. CASE Tick
  BY <1>13 DEF Tick
<1>14. CASE UNCHANGED vars
  BY <1>14 DEF vars
<1> QED
  BY <1>1, <1>2, <1>3, <1>4, <1>5, <1>6, <1>7, <1>8, <1>9, <1>10, <1>11, <1>12, <1>13, <1>14
     DEF Next, Done

(* A new token has a number of its own; the verb empties the slot it      *)
(* drops a token from. *)
LEMMA TrackedStep == TypeOK /\ Tracked /\ [Next]_vars => Tracked'
<1> SUFFICES ASSUME TypeOK, Tracked, [Next]_vars PROVE Tracked'
  OBVIOUS
<1> USE TimesAssumption, BoundsAssumption
    DEF Tracked, TypeOK, Tokens, UnderWay, Sending, Empty, cache, use, count, server
<1>1. CASE StartDrain
  BY <1>1 DEF StartDrain
<1>2. CASE BeginIteration
  BY <1>2 DEF BeginIteration
<1>3. CASE EndDrain
  BY <1>3 DEF EndDrain
<1>4. CASE Hit
  BY <1>4 DEF Hit, Fresh
<1>5. CASE Miss
  BY <1>5 DEF Miss
<1>6. CASE Issue
  BY <1>6 DEF Issue
<1>7. CASE StoreToken
  BY <1>7 DEF StoreToken
<1>8. CASE Arrive
  BY <1>8 DEF Arrive
<1>9. CASE Answered
  BY <1>9 DEF Answered, GoOn
<1>10. CASE Invalidated
  BY <1>10 DEF Invalidated
<1>11. CASE ExchangeFails
  BY <1>11 DEF ExchangeFails
<1>12. CASE Revoke
  BY <1>12 DEF Revoke
<1>13. CASE Tick
  BY <1>13 DEF Tick
<1>14. CASE UNCHANGED vars
  BY <1>14 DEF vars
<1> QED
  BY <1>1, <1>2, <1>3, <1>4, <1>5, <1>6, <1>7, <1>8, <1>9, <1>10, <1>11, <1>12, <1>13, <1>14
     DEF Next, Done

(* The clock and the answer's age go together. *)
LEMMA AnswerStep == TypeOK /\ Tracked /\ AnswerTimely /\ [Next]_vars => AnswerTimely'
<1> SUFFICES ASSUME TypeOK, Tracked, AnswerTimely, [Next]_vars PROVE AnswerTimely'
  OBVIOUS
<1> USE TimesAssumption, BoundsAssumption
    DEF Tracked, AnswerTimely, TypeOK, Tokens, UnderWay, Sending, Empty, cache, use, count, server
<1>1. CASE StartDrain
  BY <1>1 DEF StartDrain
<1>2. CASE BeginIteration
  BY <1>2 DEF BeginIteration
<1>3. CASE EndDrain
  BY <1>3 DEF EndDrain
<1>4. CASE Hit
  BY <1>4 DEF Hit
<1>5. CASE Miss
  BY <1>5 DEF Miss
<1>6. CASE Issue
  BY <1>6 DEF Issue
<1>7. CASE StoreToken
  BY <1>7 DEF StoreToken
<1>8. CASE Arrive
  BY <1>8 DEF Arrive
<1>9. CASE Answered
  BY <1>9 DEF Answered, GoOn
<1>10. CASE Invalidated
  BY <1>10 DEF Invalidated
<1>11. CASE ExchangeFails
  BY <1>11 DEF ExchangeFails
<1>12. CASE Revoke
  BY <1>12 DEF Revoke
<1>13. CASE Tick
  BY <1>13 DEF Tick
<1>14. CASE UNCHANGED vars
  BY <1>14 DEF vars
<1> QED
  BY <1>1, <1>2, <1>3, <1>4, <1>5, <1>6, <1>7, <1>8, <1>9, <1>10, <1>11, <1>12, <1>13, <1>14
     DEF Next, Done

(* Only StoreToken writes the slot, at most a latency after the issue. *)
LEMMA SlotStep == TypeOK /\ Tracked /\ AnswerTimely /\ SlotTimely /\ [Next]_vars => SlotTimely'
<1> SUFFICES ASSUME TypeOK, Tracked, AnswerTimely, SlotTimely, [Next]_vars PROVE SlotTimely'
  OBVIOUS
<1> USE TimesAssumption, BoundsAssumption
    DEF Tracked, AnswerTimely, SlotTimely,
        TypeOK, Tokens, UnderWay, Sending, Empty, cache, use, count, server
<1>1. CASE StartDrain
  BY <1>1 DEF StartDrain
<1>2. CASE BeginIteration
  BY <1>2 DEF BeginIteration
<1>3. CASE EndDrain
  BY <1>3 DEF EndDrain
<1>4. CASE Hit
  BY <1>4 DEF Hit
<1>5. CASE Miss
  BY <1>5 DEF Miss
<1>6. CASE Issue
  <2>1. slot.token # 0 => slot.token \in Tokens /\ slot.token # issued + 1
    OBVIOUS
  <2>2. slot' = slot /\ issued + 1 \in Tokens
    <3>1. slot' = slot
      BY <1>6 DEF Issue
    <3>2. issued + 1 \in Tokens
      BY <1>6 DEF Issue
    <3> QED  BY <3>1, <3>2
  <2>3. slot.token # 0 =>
          /\ dies'[slot.token] = dies[slot.token]
          /\ stated'[slot.token] = stated[slot.token]
    BY <1>6, <2>1, <2>2 DEF Issue
  <2> QED  BY <2>2, <2>3
<1>7. CASE StoreToken
  BY <1>7 DEF StoreToken
<1>8. CASE Arrive
  BY <1>8 DEF Arrive
<1>9. CASE Answered
  BY <1>9 DEF Answered, GoOn
<1>10. CASE Invalidated
  BY <1>10 DEF Invalidated
<1>11. CASE ExchangeFails
  BY <1>11 DEF ExchangeFails
<1>12. CASE Revoke
  BY <1>12 DEF Revoke
<1>13. CASE Tick
  BY <1>13 DEF Tick
<1>14. CASE UNCHANGED vars
  BY <1>14 DEF vars
<1> QED
  BY <1>1, <1>2, <1>3, <1>4, <1>5, <1>6, <1>7, <1>8, <1>9, <1>10, <1>11, <1>12, <1>13, <1>14
     DEF Next, Done

(* A hit has its buffer left, a stored token is new. *)
LEMMA UseStep == TypeOK /\ Tracked /\ AnswerTimely /\ SlotTimely /\ UseTimely /\ [Next]_vars => UseTimely'
<1> SUFFICES ASSUME TypeOK, Tracked, AnswerTimely, SlotTimely, UseTimely, [Next]_vars PROVE UseTimely'
  OBVIOUS
<1> USE TimesAssumption, BoundsAssumption
    DEF Tracked, AnswerTimely, SlotTimely, UseTimely,
        TypeOK, Tokens, UnderWay, Sending, Empty, cache, use, count, server
<1>1. CASE StartDrain
  BY <1>1 DEF StartDrain
<1>2. CASE BeginIteration
  BY <1>2 DEF BeginIteration
<1>3. CASE EndDrain
  BY <1>3 DEF EndDrain
<1>4. CASE Hit
  <2>1. /\ slot.token \in Tokens /\ held' = slot.token /\ looked' = now
        /\ dies' = dies /\ life' = life /\ stated' = stated
    BY <1>4 DEF Hit, Fresh
  <2>2. now + Buffer < slot.exp
    BY <1>4 DEF Hit, Fresh
  <2>3. stated[slot.token] => slot.exp <= dies[slot.token] + Latency
    BY <2>1
  <2>4. dies[slot.token] \in Nat /\ slot.exp \in Nat
    BY <2>1
  <2>5. stated[slot.token] => now + Buffer < dies[slot.token] + Latency
    BY <2>2, <2>3, <2>4
  <2> QED  BY <2>1, <2>5
<1>5. CASE Miss
  BY <1>5 DEF Miss
<1>6. CASE Issue
  BY <1>6 DEF Issue
<1>7. CASE StoreToken
  BY <1>7 DEF StoreToken
<1>8. CASE Arrive
  BY <1>8 DEF Arrive
<1>9. CASE Answered
  BY <1>9 DEF Answered, GoOn
<1>10. CASE Invalidated
  BY <1>10 DEF Invalidated
<1>11. CASE ExchangeFails
  BY <1>11 DEF ExchangeFails
<1>12. CASE Revoke
  BY <1>12 DEF Revoke
<1>13. CASE Tick
  BY <1>13 DEF Tick
<1>14. CASE UNCHANGED vars
  BY <1>14 DEF vars
<1> QED
  BY <1>1, <1>2, <1>3, <1>4, <1>5, <1>6, <1>7, <1>8, <1>9, <1>10, <1>11, <1>12, <1>13, <1>14
     DEF Next, Done

(* Under OAuth2 a request follows its lookup or its token at once. *)
LEMMA SentStep == TypeOK /\ SentAtOnce /\ [Next]_vars => SentAtOnce'
<1> SUFFICES ASSUME TypeOK, SentAtOnce, [Next]_vars PROVE SentAtOnce'
  OBVIOUS
<1> USE TimesAssumption, BoundsAssumption
    DEF SentAtOnce, TypeOK, Tokens, UnderWay, Sending, Empty, cache, use, count, server
<1>1. CASE StartDrain
  BY <1>1 DEF StartDrain
<1>2. CASE BeginIteration
  BY <1>2 DEF BeginIteration
<1>3. CASE EndDrain
  BY <1>3 DEF EndDrain
<1>4. CASE Hit
  BY <1>4 DEF Hit
<1>5. CASE Miss
  BY <1>5 DEF Miss
<1>6. CASE Issue
  BY <1>6 DEF Issue
<1>7. CASE StoreToken
  BY <1>7 DEF StoreToken
<1>8. CASE Arrive
  BY <1>8 DEF Arrive
<1>9. CASE Answered
  BY <1>9 DEF Answered, GoOn
<1>10. CASE Invalidated
  BY <1>10 DEF Invalidated
<1>11. CASE ExchangeFails
  BY <1>11 DEF ExchangeFails
<1>12. CASE Revoke
  BY <1>12 DEF Revoke
<1>13. CASE Tick
  BY <1>13 DEF Tick
<1>14. CASE UNCHANGED vars
  BY <1>14 DEF vars
<1> QED
  BY <1>1, <1>2, <1>3, <1>4, <1>5, <1>6, <1>7, <1>8, <1>9, <1>10, <1>11, <1>12, <1>13, <1>14
     DEF Next, Done

THEOREM Invariance == Spec => []IInv
<1>1. IInv /\ [Next]_vars => IInv'
  BY TypeStep, TrackedStep, AnswerStep, SlotStep, UseStep, SentStep DEF IInv
<1> QED  BY InitIInv, <1>1, PTL DEF Spec
-----------------------------------------------------------------------------
(* The results. *)

(* Every variable has its type. *)
THEOREM TypeCorrect == Spec => []TypeOK
<1>1. IInv => TypeOK
  BY DEF IInv
<1> QED  BY Invariance, <1>1, PTL

(* cache.go:204-208: with a buffer of two latencies and tokens that live  *)
(* longer than that, OAuth2 never sends a token that expires on the way.  *)
THEOREM BufferIsEnough == Spec => []BufferSuffices
<1>1. IInv => BufferSuffices
  <2> SUFFICES ASSUME IInv, site = "oauth2", Buffer >= 2 * Latency,
                      \A l \in Lifetimes : l > 2 * Latency, DiesInUse
               PROVE  FALSE
    BY DEF BufferSuffices
  <2> USE TimesAssumption, BoundsAssumption DEF IInv, DiesInUse
  <2>1. /\ held \in 1 .. issued /\ held \in Tokens
        /\ dies[held] \in Nat /\ life[held] \in Nat
        /\ now \in Nat /\ age \in 0 .. Latency /\ looked \in Nat
    BY DEF TypeOK, Tracked, Sending, Tokens
  <2>2. life[held] > 2 * Latency
    BY <2>1 DEF Tracked
  <2>3. looked = now - age
    BY DEF SentAtOnce
  <2>4. \/ looked + Buffer < dies[held] + Latency
        \/ looked + life[held] <= dies[held] + Latency
    BY DEF UseTimely, Sending
  <2> QED  BY <2>1, <2>2, <2>3, <2>4
<1> QED  BY Invariance, <1>1, PTL

(* For either call site, a token dies in use only after more time than    *)
(* its buffer, or its life, leaves after the latency of its answer.       *)
THEOREM DeathIsLate == Spec => []DiesOnlyIfLate
<1>1. IInv => DiesOnlyIfLate
  <2> SUFFICES ASSUME IInv, DiesInUse
               PROVE  \/ now - looked > Buffer - Latency
                      \/ now - looked >= life[held] - Latency
    BY DEF DiesOnlyIfLate
  <2> USE TimesAssumption DEF IInv, DiesInUse
  <2>1. /\ dies[held] \in Nat /\ life[held] \in Nat
        /\ now \in Nat /\ looked \in Nat
    BY BoundsAssumption DEF TypeOK, Tracked, Sending, Tokens
  <2>2. \/ looked + Buffer < dies[held] + Latency
        \/ looked + life[held] <= dies[held] + Latency
    BY DEF UseTimely, Sending
  <2> QED  BY <2>1, <2>2
<1> QED  BY Invariance, <1>1, PTL

(* A token invalidate_cache has dropped is never found in the cache or    *)
(* sent again. *)
THEOREM DroppedIsGone == Spec => []DroppedNotReused
<1>1. IInv => DroppedNotReused
  BY DEF IInv, Tracked, Sending, DroppedNotReused
<1> QED  BY Invariance, <1>1, PTL
=============================================================================
