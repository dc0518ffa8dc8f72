----------------------------- MODULE AuthCache ------------------------------
(***************************************************************************)
(* The credential cache (client/cache.go) in time: a drain fetches a      *)
(* token, caches it until shortly before it expires, sends it with its    *)
(* requests, and drops it when the server rejects it and on_status: says  *)
(* invalidate_cache.                                                       *)
(*                                                                         *)
(* Two call sites use the cache.  "oauth2": applyOAuth2 looks the token   *)
(* up for every request.  "step": a cached login step looks it up once    *)
(* per iteration, and the requests after it read {ref: cache.<name>},     *)
(* which does not look at the expiry.                                      *)
(*                                                                         *)
(* Every message takes 0 .. Latency ticks; the client computes in no time. *)
(* The server (external) lets a token live from the moment it issues it;  *)
(* the client counts from the moment it stores it, on what the response   *)
(* says, or on the document's default when it does not say.               *)
(***************************************************************************)
EXTENDS Integers

CONSTANTS
  Buffer,      \* cache.buffer
  Guess,       \* the default of cache.expires_at
  Lifetimes,   \* how long the server lets a token live
  Latency,     \* bound: the longest a message takes
  MaxUses,     \* bound: requests of an iteration that carry the token
  MaxTokens,   \* bound: tokens issued
  MaxPages,    \* Runner.MaxPages
  MaxDrains,   \* bound: drains started
  MaxTime      \* bound: the clock

ASSUME TimesAssumption ==
  /\ Buffer \in Int /\ Guess \in Nat /\ Lifetimes \subseteq Nat
  /\ Latency \in Nat /\ MaxTime \in Nat
ASSUME BoundsAssumption ==
  /\ MaxUses \in Nat \ {0} /\ MaxTokens \in Nat
  /\ MaxPages \in Nat \ {0} /\ MaxDrains \in Nat

Tokens == 1 .. MaxTokens

VARIABLES
  site,      \* which call site the document uses
  now,       \* the clock
  pc,        \* where the drain, or its message, is
  age,       \* how long the message has been under way
  slot,      \* scope.cache: the token and the resolved expires_at
  last,      \* ghost: the slot, as if it outlived the drain
  held,      \* the token in the request's Authorization header
  looked,    \* ghost: when it was looked up or stored
  dropped,   \* ghost: tokens invalidate_cache has dropped
  left,      \* requests of this iteration still to send
  pages,     \* iterations begun
  drains,    \* drains started
  issued,    \* tokens the server has issued
  life,      \* ghost: how long each of them was to live
  dies,      \* when the server lets it die
  stated,    \* ghost: whether the response said so, and it holds
  says       \* the answer's expires_in, or the default

cache == <<slot, last>>
use == <<held, looked>>
count == <<left, pages, drains>>
server == <<issued, life, dies, stated, says>>
vars == <<site, now, pc, age, cache, use, dropped, count, server>>

Empty == [token |-> 0, exp |-> 0]

Init ==
  /\ site \in {"oauth2", "step"}
  /\ now = 0 /\ pc = "idle" /\ age = 0
  /\ slot = Empty /\ last = Empty
  /\ held = 0 /\ looked = 0 /\ dropped = {}
  /\ left = 0 /\ pages = 0 /\ drains = 0
  /\ issued = 0
  /\ life = [t \in Tokens |-> 0]
  /\ dies = [t \in Tokens |-> 0]
  /\ stated = [t \in Tokens |-> FALSE]
  /\ says = 0
-----------------------------------------------------------------------------
(* A scope is made per drain: it starts with an empty cache. *)
StartDrain ==
  /\ pc = "idle" /\ drains < MaxDrains
  /\ slot' = Empty
  /\ pages' = 0 /\ drains' = drains + 1
  /\ pc' = "top"
  /\ UNCHANGED <<site, now, age, last, use, dropped, left, server>>

(* Mutant: the cap is one too high. *)
BeginIterationOneMore ==
  /\ pc = "top" /\ pages <= MaxPages
  /\ pages' = pages + 1 /\ left' \in 1 .. MaxUses
  /\ pc' = "lookup"
  /\ UNCHANGED <<site, now, age, cache, use, dropped, drains, server>>

BeginIteration ==
  /\ pc = "top" /\ pages < MaxPages
  /\ pages' = pages + 1 /\ left' \in 1 .. MaxUses
  /\ pc' = "lookup"
  /\ UNCHANGED <<site, now, age, cache, use, dropped, drains, server>>

(* Pagination is at its end, or the page cap is reached. *)
EndDrain ==
  /\ pc = "top" /\ pages > 0
  /\ pc' = "idle"
  /\ UNCHANGED <<site, now, age, cache, use, dropped, count, server>>

(* Mutant: the buffer is left out. *)
FreshNoBuffer == slot.token # 0 /\ now < slot.exp

(* cacheGet: populated, and now + buffer before the expiry. *)
Fresh == slot.token # 0 /\ now + Buffer < slot.exp

Hit ==
  /\ pc = "lookup" /\ Fresh
  /\ held' = slot.token /\ looked' = now
  /\ pc' = "request" /\ age' = 0
  /\ UNCHANGED <<site, now, cache, dropped, count, server>>

(* fetchOAuth2Token, or the login step's exchange. *)
Miss ==
  /\ pc = "lookup" /\ ~Fresh
  /\ pc' = "fetch" /\ age' = 0
  /\ UNCHANGED <<site, now, cache, use, dropped, count, server>>

Issue ==
  /\ pc = "fetch" /\ issued < MaxTokens
  /\ issued' = issued + 1
  /\ \E l \in Lifetimes, s \in BOOLEAN :
       /\ life' = [life EXCEPT ![issued + 1] = l]
       /\ dies' = [dies EXCEPT ![issued + 1] = now + l]
       /\ stated' = [stated EXCEPT ![issued + 1] = s]
       /\ says' = IF s THEN l ELSE Guess
  /\ pc' = "issued" /\ age' = 0
  /\ UNCHANGED <<site, now, cache, use, dropped, count>>

(* cacheStore, and the token is used without another look at its expiry.  *)
(* coerceCacheExpiry: a duration counts from the client's now.            *)
StoreToken ==
  /\ pc = "issued"
  /\ slot' = [token |-> issued, exp |-> now + says] /\ last' = slot'
  /\ held' = issued /\ looked' = now
  /\ pc' = "request" /\ age' = 0
  /\ UNCHANGED <<site, now, dropped, count, server>>

(* Where the drain goes when the exchange at hand is over: on to the next *)
(* request of the iteration, which looks the token up again or reads it   *)
(* by reference, or to the next page. *)
GoOn ==
  IF left > 1 THEN IF site = "oauth2" THEN "lookup" ELSE "request" ELSE "top"

(* The request arrives at the server. *)
Arrive ==
  /\ pc = "request"
  /\ pc' = IF now < dies[held] THEN "accepted" ELSE "rejected"
  /\ age' = 0
  /\ UNCHANGED <<site, now, cache, use, dropped, count, server>>

(* The answer arrives.  A rejection that on_status: or error.mode lets    *)
(* pass goes on like an answer.                                           *)
Answered ==
  /\ pc \in {"accepted", "rejected"}
  /\ pc' = GoOn /\ left' = left - 1 /\ age' = 0
  /\ UNCHANGED <<site, now, cache, use, dropped, pages, drains, server>>

(* Mutant: the page is tried again, and nothing was dropped. *)
InvalidatedKeepsSlot ==
  /\ pc = "rejected"
  /\ dropped' = dropped \cup {held}
  /\ pc' = "top" /\ age' = 0
  /\ UNCHANGED <<site, now, cache, use, count, server>>

(* on_status: invalidate_cache: dropReachableCaches, and the page is      *)
(* tried again.                                                            *)
Invalidated ==
  /\ pc = "rejected"
  /\ slot' = Empty /\ last' = Empty
  /\ dropped' = dropped \cup {held}
  /\ pc' = "top" /\ age' = 0
  /\ UNCHANGED <<site, now, use, count, server>>

(* An exchange fails, is refused, or its answer is of no use: error.mode  *)
(* ends the drain or goes on with the next page.  The slot keeps what it  *)
(* had.                                                                    *)
ExchangeFails ==
  /\ pc \in {"fetch", "issued", "request", "accepted", "rejected"}
  /\ pc' \in {"top", "idle"} /\ age' = 0
  /\ UNCHANGED <<site, now, cache, use, dropped, count, server>>

(* The server takes a token back. *)
Revoke ==
  /\ \E t \in 1 .. issued :
       /\ dies[t] > now
       /\ dies' = [dies EXCEPT ![t] = now]
       /\ stated' = [stated EXCEPT ![t] = FALSE]
  /\ UNCHANGED <<site, now, pc, age, cache, use, dropped, count, issued, life, says>>

UnderWay == {"fetch", "issued", "request", "accepted", "rejected"}

(* Time passes between drains and while a message is under way. *)
Tick ==
  /\ now < MaxTime
  /\ pc = "idle" \/ (pc \in UnderWay /\ age < Latency)
  /\ now' = now + 1
  /\ age' = IF pc = "idle" THEN age ELSE age + 1
  /\ UNCHANGED <<site, pc, cache, use, dropped, count, server>>

Done == pc = "idle" /\ UNCHANGED vars

Next ==
  \/ StartDrain \/ BeginIteration \/ EndDrain
  \/ Hit \/ Miss \/ Issue \/ StoreToken
  \/ Arrive \/ Answered \/ Invalidated \/ ExchangeFails
  \/ Revoke \/ Tick \/ Done

Spec == Init /\ [][Next]_vars
-----------------------------------------------------------------------------
(* Properties. *)

TypeOK ==
  /\ site \in {"oauth2", "step"}
  /\ now \in Nat /\ looked \in Nat
  /\ pc \in {"idle", "top", "lookup"} \cup UnderWay
  /\ age \in 0 .. Latency
  /\ slot \in [token : 0 .. MaxTokens, exp : Nat]
  /\ last \in [token : 0 .. MaxTokens, exp : Nat]
  /\ held \in 0 .. MaxTokens
  /\ dropped \subseteq Tokens
  /\ left \in 0 .. MaxUses /\ pages \in 0 .. MaxPages /\ drains \in 0 .. MaxDrains
  /\ issued \in 0 .. MaxTokens
  /\ life \in [Tokens -> Nat] /\ dies \in [Tokens -> Nat]
  /\ stated \in [Tokens -> BOOLEAN] /\ says \in Nat

(* A token is dead as it arrives, although the server stated its lifetime *)
(* and did not take it back.                                               *)
DiesInUse == pc = "request" /\ stated[held] /\ now >= dies[held]

(* cache.go:204-208: with a buffer of two latencies (of the token's answer *)
(* and of the request that carries it), and tokens that live longer than   *)
(* that, OAuth2 never sends a token that expires on the way.              *)
BufferSuffices ==
  site = "oauth2" /\ Buffer >= 2 * Latency /\ (\A l \in Lifetimes : l > 2 * Latency)
    => ~DiesInUse

(* For either call site, the many uses of a cached login in a long        *)
(* iteration included, a token dies in use only if more time passed since *)
(* it was looked up than the buffer, or its whole life, leaves after the   *)
(* latency of its answer.                                                  *)
DiesOnlyIfLate ==
  DiesInUse => \/ now - looked > Buffer - Latency
               \/ now - looked >= life[held] - Latency

(* on_status: invalidate_cache forces a fresh fetch: the token the server *)
(* rejected is neither found in the cache nor sent again, in this drain or *)
(* the next.                                                               *)
DroppedNotReused ==
  /\ pc = "lookup" => slot.token \notin dropped
  /\ pc = "request" => held \notin dropped
=============================================================================
