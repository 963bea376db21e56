--------------------------- MODULE McpServerProofs ---------------------------
(* For any number of keys, requests and versions and any lifetimes: a        *)
(* revoked key fades, and the session layer implements StickyContext.        *)
EXTENDS McpServer, TLAPS, SequenceTheorems

Phases == {"none", "queued", "reading", "admitted"}

RequestType == [phase : Phases, key : Keys \cup {NoKey}, found : BOOLEAN,
                lag : 0 .. MaxLag, sound : BOOLEAN]

RequestsOK ==
  /\ request \in [Requests -> RequestType]
  /\ \A r \in Requests : request[r].phase # "none" => request[r].key \in Keys

KeysOK ==
  /\ valid \in [Keys -> BOOLEAN]
  /\ off \in [Keys -> 0 .. MaxOff]
  /\ keyCache \in [Keys -> [found : BOOLEAN, left : 0 .. KeyTTL]]
  /\ \A k \in Keys : valid[k] => off[k] = 0

\* What is left of a cached verdict and what has passed since the key was
\* revoked add up to no more than the bound.
VerdictsFade ==
  \A k \in Keys : keyCache[k].found /\ keyCache[k].left > 0
                    => off[k] + keyCache[k].left <= MaxOff

\* A verdict that is on its way was true when it was read.
ReadingsFade ==
  \A r \in Requests : request[r].phase = "reading" /\ request[r].found
                        => off[request[r].key] <= request[r].lag

FadeInv == RequestsOK /\ KeysOK /\ VerdictsFade /\ ReadingsFade

SessionsOK ==
  /\ row \in [Keys -> [context : Contexts, idle : 0 .. Lifetime]]
  /\ session \in [Keys -> [context : Contexts, left : 0 .. SessionTTL]]

AuthUnchanged == UNCHANGED <<valid, off, keyCache>>

-----------------------------------------------------------------------------
(* Revoked keys fade *)

LEMMA NoRequestIsTyped ==
  /\ NoRequest \in RequestType
  /\ NoRequest.phase = "none" /\ ~ NoRequest.found
BY ServerAssumption DEF NoRequest, Phases, RequestType

LEMMA FadeInit == Init => FadeInv
<1>1. SUFFICES ASSUME Init PROVE FadeInv
  OBVIOUS
<1>2. RequestsOK /\ ReadingsFade
  BY <1>1, NoRequestIsTyped DEF Init, RequestsOK, ReadingsFade
<1>3. KeysOK /\ VerdictsFade
  BY <1>1, ServerAssumption DEF Init, KeysOK, VerdictsFade, NoVerdict, MaxOff
<1>4. QED
  BY <1>2, <1>3 DEF FadeInv

\* A request that ends, or that is admitted or queued, disturbs nothing.
LEMMA BecomesKeeps ==
  ASSUME FadeInv, AuthUnchanged, NEW r \in Requests, NEW rec, Becomes(r, rec),
         rec \in RequestType,
         rec.phase # "none" => rec.key \in Keys,
         rec.phase = "reading" /\ rec.found => off[rec.key] <= rec.lag
  PROVE  FadeInv'
<1>1. request' \in [Requests -> RequestType]
  BY DEF Becomes, FadeInv, RequestsOK
<1>2. \A q \in Requests : request'[q] = IF q = r THEN rec ELSE request[q]
  BY DEF Becomes, FadeInv, RequestsOK
<1>3. RequestsOK'
  BY <1>1, <1>2 DEF RequestsOK, FadeInv
<1>4. ReadingsFade'
  BY <1>2 DEF ReadingsFade, FadeInv, AuthUnchanged
<1>5. (KeysOK /\ VerdictsFade)'
  BY DEF KeysOK, VerdictsFade, FadeInv, AuthUnchanged
<1>6. QED
  BY <1>3, <1>4, <1>5 DEF FadeInv

LEMMA DoneKeeps ==
  ASSUME FadeInv, AuthUnchanged, NEW r \in Requests, Becomes(r, NoRequest)
  PROVE  FadeInv'
<1>1. PICK rec : rec = NoRequest
  OBVIOUS
<1>2. Becomes(r, rec) /\ rec \in RequestType /\ rec.phase = "none"
  BY <1>1, NoRequestIsTyped
<1>3. QED
  BY <1>2, BecomesKeeps

LEMMA AdmittedIsTyped ==
  ASSUME NEW k \in Keys, NEW phase \in Phases
  PROVE  LET rec == [NoRequest EXCEPT !.phase = phase, !.key = k]
         IN /\ rec \in RequestType
            /\ rec.phase = phase /\ rec.key = k /\ ~ rec.found
<1>1. PICK q \in RequestType : q = NoRequest /\ ~ q.found
  BY NoRequestIsTyped
<1>2. /\ [q EXCEPT !.phase = phase, !.key = k] \in RequestType
      /\ [q EXCEPT !.phase = phase, !.key = k].phase = phase
      /\ [q EXCEPT !.phase = phase, !.key = k].key = k
      /\ [q EXCEPT !.phase = phase, !.key = k].found = q.found
  BY DEF RequestType
<1>3. QED
  BY <1>1, <1>2

LEMMA AdmittedKey ==
  ASSUME NEW k \in Keys
  PROVE  [NoRequest EXCEPT !.phase = "admitted", !.key = k].key = k
<1>1. "admitted" \in Phases
  BY DEF Phases
<1>2. QED
  BY <1>1, AdmittedIsTyped

LEMMA ReadingIsTyped ==
  ASSUME NEW q \in RequestType, NEW found \in BOOLEAN
  PROVE  LET rec == [q EXCEPT !.phase = "reading", !.found = found]
         IN /\ rec \in RequestType
            /\ rec.found = found /\ rec.key = q.key /\ rec.lag = q.lag
BY DEF Phases, RequestType

LEMMA LaterIsTyped ==
  ASSUME NEW q \in RequestType, NEW lag \in 0 .. MaxLag
  PROVE  LET rec == [q EXCEPT !.lag = lag]
         IN /\ rec \in RequestType /\ rec.lag = lag
            /\ rec.phase = q.phase /\ rec.key = q.key /\ rec.found = q.found
BY DEF RequestType

LEMMA VerdictAges ==
  ASSUME NEW v \in [found : BOOLEAN, left : 0 .. KeyTTL], v.left > 1
  PROVE  LET w == [v EXCEPT !.left = v.left - 1]
         IN /\ w \in [found : BOOLEAN, left : 0 .. KeyTTL]
            /\ w.found = v.found /\ w.left = v.left - 1
BY ServerAssumption

\* Connections may be lost in any number of requests at once.
LEMMA LosingKeeps ==
  ASSUME FadeInv, AuthUnchanged, request' = LoseSoundness
  PROVE  FadeInv'
<1>1. \A q \in Requests :
        /\ request'[q] \in RequestType
        /\ request'[q].phase = request[q].phase /\ request'[q].key = request[q].key
        /\ request'[q].found = request[q].found /\ request'[q].lag = request[q].lag
  BY DEF LoseSoundness, FadeInv, RequestsOK, RequestType
<1>2. RequestsOK'
  <2>1. request' \in [Requests -> RequestType]
    BY <1>1 DEF LoseSoundness
  <2>2. QED
    BY <1>1, <2>1 DEF RequestsOK, FadeInv
<1>3. (ReadingsFade /\ KeysOK /\ VerdictsFade)'
  BY <1>1 DEF ReadingsFade, KeysOK, VerdictsFade, FadeInv, AuthUnchanged
<1>4. QED
  BY <1>2, <1>3 DEF FadeInv

LEMMA LosingAndDoneKeeps ==
  ASSUME FadeInv, AuthUnchanged, NEW r \in Requests,
         request' = [LoseSoundness EXCEPT ![r] = NoRequest]
  PROVE  FadeInv'
<1>1. \A q \in Requests :
        /\ request'[q] \in RequestType
        /\ \/ request'[q].phase = "none"
           \/ /\ request'[q].phase = request[q].phase /\ request'[q].key = request[q].key
              /\ request'[q].found = request[q].found /\ request'[q].lag = request[q].lag
  <2>1. TAKE q \in Requests
  <2>2. CASE q = r
    BY <2>2, NoRequestIsTyped DEF LoseSoundness
  <2>3. CASE q # r
    BY <2>3 DEF LoseSoundness, FadeInv, RequestsOK, RequestType
  <2>4. QED
    BY <2>2, <2>3
<1>2. request' \in [Requests -> RequestType]
  BY <1>1 DEF LoseSoundness
<1>3. RequestsOK'
  BY <1>1, <1>2 DEF RequestsOK, FadeInv
<1>4. (ReadingsFade /\ KeysOK /\ VerdictsFade)'
  BY <1>1 DEF ReadingsFade, KeysOK, VerdictsFade, FadeInv, AuthUnchanged
<1>5. QED
  BY <1>3, <1>4 DEF FadeInv

LEMMA WritesKeeps ==
  ASSUME FadeInv, AuthUnchanged, NEW r \in Requests, NEW c, Writes(r, c)
  PROVE  FadeInv'
<1>1. \/ Becomes(r, NoRequest)
      \/ request' = [LoseSoundness EXCEPT ![r] = NoRequest]
  BY DEF Writes, Done
<1>2. QED
  BY <1>1, DoneKeeps, LosingAndDoneKeeps

LEMMA ArriveKeeps ==
  ASSUME FadeInv, NEW r \in Requests, NEW k \in Keys, Arrive(r, k)
  PROVE  FadeInv'
<1>1. AuthUnchanged
  BY DEF Arrive, database, caches, AuthUnchanged
<1>2. CASE Becomes(r, NoRequest)
  BY <1>1, <1>2, DoneKeeps
<1>3. CASE \E p \in {"admitted", "queued"} :
             Becomes(r, [NoRequest EXCEPT !.phase = p, !.key = k])
  <2>1. PICK p \in {"admitted", "queued"} :
               Becomes(r, [NoRequest EXCEPT !.phase = p, !.key = k])
    BY <1>3
  <2>2. p \in Phases
    BY DEF Phases
  <2>3. QED
    <3>1. PICK rec : rec = [NoRequest EXCEPT !.phase = p, !.key = k]
      OBVIOUS
    <3>2. Becomes(r, rec)
      BY <2>1, <3>1
    <3>3. rec \in RequestType /\ rec.key = k /\ ~ rec.found
      BY <2>2, <3>1, AdmittedIsTyped
    <3>4. QED
      BY <1>1, <3>2, <3>3, BecomesKeeps
<1>4. QED
  BY <1>2, <1>3 DEF Arrive, Judged

LEMMA ReadKeyKeeps ==
  ASSUME FadeInv, NEW r \in Requests, ReadKey(r)
  PROVE  FadeInv'
<1>1. AuthUnchanged
  BY DEF ReadKey, database, caches, AuthUnchanged
<1>2. CASE Becomes(r, NoRequest)
  BY <1>1, <1>2, DoneKeeps
<1>3. CASE Becomes(r, [request[r] EXCEPT !.phase = "reading",
                                         !.found = valid[request[r].key]])
  <2>1. PICK rec : rec = [request[r] EXCEPT !.phase = "reading",
                                            !.found = valid[request[r].key]]
    OBVIOUS
  <2>2. request[r].key \in Keys
    BY DEF ReadKey, FadeInv, RequestsOK
  <2>3. valid[request[r].key] \in BOOLEAN
    BY <2>2 DEF FadeInv, KeysOK
  <2>4. /\ rec \in RequestType
        /\ rec.key = request[r].key /\ rec.lag \in Nat
        /\ rec.found = valid[request[r].key]
    <3>1. PICK q \in RequestType : q = request[r]
      BY DEF FadeInv, RequestsOK
    <3>2. q.lag \in Nat
      BY ServerAssumption DEF RequestType
    <3>3. QED
      BY <2>1, <2>3, <3>1, <3>2, ReadingIsTyped
  <2>5. rec.found => off[rec.key] <= rec.lag
    <3>1. rec.found => off[rec.key] = 0
      BY <2>2, <2>4 DEF FadeInv, KeysOK
    <3>2. QED
      BY <2>4, <3>1
  <2>6. Becomes(r, rec)
    BY <1>3, <2>1
  <2>7. QED
    BY <1>1, <2>2, <2>4, <2>5, <2>6, BecomesKeeps
<1>4. QED
  BY <1>2, <1>3 DEF ReadKey

LEMMA VerifiedKeeps ==
  ASSUME FadeInv, NEW r \in Requests, Verified(r)
  PROVE  FadeInv'
<1> DEFINE k == request[r].key
<1>1. k \in Keys /\ request[r].found \in BOOLEAN /\ request[r].lag \in 0 .. MaxLag
  BY DEF Verified, FadeInv, RequestsOK, RequestType
<1>2. UNCHANGED <<valid, off>>
  BY DEF Verified, database
<1>3. request[r].found => off[k] <= MaxLag
  BY <1>1, ServerAssumption DEF Verified, FadeInv, ReadingsFade, KeysOK, MaxOff
<1>4. \A j \in Keys : keyCache'[j] = IF j = k THEN [found |-> request[r].found, left |-> KeyTTL]
                                                ELSE keyCache[j]
  BY DEF Verified, FadeInv, KeysOK
<1>5. KeysOK'
  <2>1. [found |-> request[r].found, left |-> KeyTTL] \in [found : BOOLEAN, left : 0 .. KeyTTL]
    BY <1>1, ServerAssumption
  <2>2. QED
    BY <1>2, <2>1 DEF Verified, FadeInv, KeysOK
<1>6. VerdictsFade'
  BY <1>1, <1>2, <1>3, <1>4, ServerAssumption DEF VerdictsFade, FadeInv, MaxOff, KeysOK
<1>7. PICK rec : /\ Becomes(r, rec)
                 /\ \/ rec = NoRequest
                    \/ rec = [NoRequest EXCEPT !.phase = "admitted", !.key = k]
  BY DEF Verified, Judged
<1>8. /\ rec \in RequestType
      /\ rec.phase # "none" => rec.key \in Keys
      /\ rec.phase # "reading"
  <2>1. CASE rec = NoRequest
    BY <2>1, NoRequestIsTyped
  <2>2. CASE rec = [NoRequest EXCEPT !.phase = "admitted", !.key = k]
    BY <1>1, <2>2, AdmittedIsTyped DEF Phases
  <2>3. QED
    BY <1>7, <2>1, <2>2
<1>9. /\ request' \in [Requests -> RequestType]
      /\ \A q \in Requests : request'[q] = IF q = r THEN rec ELSE request[q]
  BY <1>7, <1>8 DEF Becomes, FadeInv, RequestsOK
<1>10. RequestsOK' /\ ReadingsFade'
  BY <1>2, <1>8, <1>9 DEF RequestsOK, ReadingsFade, FadeInv
<1>11. QED
  BY <1>5, <1>6, <1>10 DEF FadeInv

LEMMA TickKeeps ==
  ASSUME FadeInv, Tick
  PROVE  FadeInv'
<1>1. \A k \in Keys :
        /\ off'[k] = IF valid[k] THEN 0 ELSE Capped(off[k], MaxOff)
        /\ valid'[k] = valid[k]
        /\ keyCache'[k] = IF keyCache[k].left > 1
                            THEN [keyCache[k] EXCEPT !.left = keyCache[k].left - 1]
                            ELSE NoVerdict
  BY DEF Tick
<1>2. MaxOff \in Nat /\ MaxLag \in Nat /\ KeyTTL \in Nat /\ KeyTTL <= MaxOff
  BY ServerAssumption DEF MaxOff
<1>3. \A k \in Keys : /\ off[k] \in 0 .. MaxOff /\ valid[k] \in BOOLEAN
                      /\ keyCache[k] \in [found : BOOLEAN, left : 0 .. KeyTTL]
                      /\ off'[k] \in 0 .. MaxOff /\ off'[k] <= off[k] + 1
                      /\ valid'[k] => off'[k] = 0
  <2>1. TAKE k \in Keys
  <2>2. /\ off[k] \in 0 .. MaxOff /\ valid[k] \in BOOLEAN
        /\ keyCache[k] \in [found : BOOLEAN, left : 0 .. KeyTTL]
    BY DEF FadeInv, KeysOK
  <2>3. CASE valid[k]
    <3>1. off'[k] = 0
      BY <1>1, <2>3
    <3>2. QED
      BY <1>2, <2>2, <3>1
  <2>4. CASE ~ valid[k]
    <3>1. off'[k] = IF off[k] < MaxOff THEN off[k] + 1 ELSE MaxOff
      BY <1>1, <2>4 DEF Capped
    <3>2. off'[k] \in 0 .. MaxOff /\ off'[k] <= off[k] + 1
      BY <1>2, <2>2, <3>1
    <3>3. QED
      BY <1>1, <2>2, <2>4, <3>2
  <2>5. QED
    BY <2>2, <2>3, <2>4
<1>4. \A k \in Keys : /\ keyCache'[k] \in [found : BOOLEAN, left : 0 .. KeyTTL]
                      /\ keyCache'[k].left > 0 => /\ keyCache'[k].found = keyCache[k].found
                                                  /\ keyCache'[k].left = keyCache[k].left - 1
  <2>1. TAKE k \in Keys
  <2>2. CASE keyCache[k].left > 1
    <3>1. PICK v \in [found : BOOLEAN, left : 0 .. KeyTTL] : v = keyCache[k]
      BY <1>3
    <3>2. keyCache'[k] = [v EXCEPT !.left = v.left - 1]
      BY <1>1, <2>2, <3>1
    <3>3. /\ [v EXCEPT !.left = v.left - 1] \in [found : BOOLEAN, left : 0 .. KeyTTL]
          /\ [v EXCEPT !.left = v.left - 1].found = v.found
          /\ [v EXCEPT !.left = v.left - 1].left = v.left - 1
      BY <2>2, <3>1, VerdictAges
    <3>4. QED
      BY <3>1, <3>2, <3>3
  <2>3. CASE ~ (keyCache[k].left > 1)
    <3>1. keyCache'[k] = NoVerdict
      BY <1>1, <2>3
    <3>2. NoVerdict \in [found : BOOLEAN, left : 0 .. KeyTTL] /\ NoVerdict.left = 0
      BY <1>2 DEF NoVerdict
    <3>3. QED
      BY <3>1, <3>2
  <2>4. QED
    BY <2>2, <2>3
<1>5. KeysOK'
  <2>1. /\ valid' \in [Keys -> BOOLEAN]
        /\ off' \in [Keys -> 0 .. MaxOff]
    BY <1>3 DEF Tick, FadeInv, KeysOK
  <2>2. keyCache' \in [Keys -> [found : BOOLEAN, left : 0 .. KeyTTL]]
    BY <1>4 DEF Tick
  <2>3. QED
    BY <1>3, <2>1, <2>2 DEF KeysOK
<1>6. VerdictsFade'
  <2>1. SUFFICES ASSUME NEW k \in Keys, keyCache'[k].found, keyCache'[k].left > 0
                 PROVE  off'[k] + keyCache'[k].left <= MaxOff
    BY DEF VerdictsFade
  <2>2. /\ keyCache[k].found /\ keyCache'[k].left = keyCache[k].left - 1
        /\ keyCache[k].left \in Nat /\ keyCache'[k].left \in Nat
    BY <1>3, <1>4, <2>1
  <2>3. off[k] + keyCache[k].left <= MaxOff
    BY <2>1, <2>2 DEF FadeInv, VerdictsFade
  <2>4. QED
    BY <1>2, <1>3, <2>2, <2>3
<1>7. \A r \in Requests :
        /\ request[r] \in RequestType
        /\ request'[r] = [request[r] EXCEPT
             !.lag = IF r \in Holding THEN request[r].lag + 1 ELSE request[r].lag]
        /\ r \in Holding => request[r].lag < MaxLag
  BY DEF Tick, FadeInv, RequestsOK
<1>8. \A r \in Requests :
        /\ request'[r] \in RequestType
        /\ request'[r].phase = request[r].phase /\ request'[r].key = request[r].key
        /\ request'[r].found = request[r].found
        /\ request[r].phase = "reading" => request'[r].lag = request[r].lag + 1
  <2>1. TAKE r \in Requests
  <2>2. PICK l : l = IF r \in Holding THEN request[r].lag + 1 ELSE request[r].lag
    OBVIOUS
  <2>3. request[r].lag \in 0 .. MaxLag
    BY <1>7 DEF RequestType
  <2>4. l \in 0 .. MaxLag /\ (request[r].phase = "reading" => l = request[r].lag + 1)
    <3>1. r \in Holding <=> request[r].phase = "reading"
      BY DEF Holding
    <3>2. CASE r \in Holding
      <4>1. request[r].lag < MaxLag /\ l = request[r].lag + 1
        BY <1>7, <2>2, <3>2
      <4>2. QED
        BY <1>2, <2>3, <4>1
    <3>3. CASE r \notin Holding
      BY <2>2, <2>3, <3>1, <3>3
    <3>4. QED
      BY <3>2, <3>3
  <2>5. request'[r] = [request[r] EXCEPT !.lag = l]
    BY <1>7, <2>2
  <2>6. QED
    <3>1. PICK q \in RequestType : q = request[r]
      BY <1>7
    <3>2. request'[r] = [q EXCEPT !.lag = l]
      BY <2>5, <3>1
    <3>3. QED
      BY <2>4, <3>1, <3>2, LaterIsTyped
<1>9. RequestsOK'
  <2>1. request' \in [Requests -> RequestType]
    BY <1>8 DEF Tick
  <2>2. QED
    BY <1>8, <2>1 DEF RequestsOK, FadeInv
<1>10. ReadingsFade'
  <2>1. SUFFICES ASSUME NEW r \in Requests, request'[r].phase = "reading", request'[r].found
                 PROVE  off'[request'[r].key] <= request'[r].lag
    BY DEF ReadingsFade
  <2>2. /\ off[request[r].key] <= request[r].lag
        /\ request[r].key \in Keys /\ request[r].lag \in Nat
        /\ request'[r].lag = request[r].lag + 1 /\ request'[r].key = request[r].key
    BY <1>2, <1>7, <1>8, <2>1 DEF FadeInv, ReadingsFade, RequestsOK, RequestType
  <2>3. QED
    BY <1>2, <1>3, <2>2
<1>11. QED
  BY <1>5, <1>6, <1>9, <1>10 DEF FadeInv

\* A restart forgets every verdict and every request.
LEMMA RestartKeeps ==
  ASSUME FadeInv, Restart
  PROVE  FadeInv'
<1>1. RequestsOK' /\ ReadingsFade'
  BY NoRequestIsTyped DEF Restart, RequestsOK, ReadingsFade
<1>2. UNCHANGED <<valid, off>> /\ keyCache' = [k \in Keys |-> NoVerdict]
  BY DEF Restart, database
<1>3. NoVerdict \in [found : BOOLEAN, left : 0 .. KeyTTL] /\ NoVerdict.left = 0
  BY ServerAssumption DEF NoVerdict
<1>4. KeysOK'
  BY <1>2, <1>3 DEF KeysOK, FadeInv
<1>5. VerdictsFade'
  BY <1>2, <1>3 DEF VerdictsFade
<1>6. QED
  BY <1>1, <1>4, <1>5 DEF FadeInv

LEMMA FadeSame ==
  ASSUME FadeInv, AuthUnchanged, UNCHANGED request
  PROVE  FadeInv'
BY DEF FadeInv, AuthUnchanged, RequestsOK, KeysOK, VerdictsFade, ReadingsFade

LEMMA DeactivateKeeps ==
  ASSUME FadeInv, NEW k \in Keys, Deactivate(k)
  PROVE  FadeInv'
<1>1. UNCHANGED <<off, keyCache, request>>
  BY DEF Deactivate, caches
<1>2. \A j \in Keys : valid'[j] = IF j = k THEN FALSE ELSE valid[j]
  BY DEF Deactivate, FadeInv, KeysOK
<1>3. KeysOK'
  BY <1>1, <1>2 DEF Deactivate, FadeInv, KeysOK
<1>4. (RequestsOK /\ VerdictsFade /\ ReadingsFade)'
  BY <1>1 DEF FadeInv, RequestsOK, VerdictsFade, ReadingsFade
<1>5. QED
  BY <1>3, <1>4 DEF FadeInv

LEMMA FadeStep ==
  ASSUME FadeInv, [Next]_vars
  PROVE  FadeInv'
<1>1. CASE UNCHANGED vars
  BY <1>1, FadeSame DEF vars, AuthUnchanged
<1>2. CASE \E r \in Requests, k \in Keys : Arrive(r, k)
  BY <1>2, ArriveKeeps
<1>3. CASE \E r \in Requests : ReadKey(r)
  BY <1>3, ReadKeyKeeps
<1>4. CASE \E r \in Requests : Verified(r)
  BY <1>4, VerifiedKeeps
<1>5. CASE \E r \in Requests : VerifyFails(r)
  BY <1>5, DoneKeeps DEF VerifyFails, database, caches, AuthUnchanged
<1>6. CASE \E r \in Requests : SetActiveProfile(r) \/ \E v \in Versions : SetActiveVersion(r, v)
  BY <1>6, WritesKeeps DEF SetActiveProfile, SetActiveVersion, AuthUnchanged
<1>7. CASE \E r \in Requests : CallTool(r) \/ \E asked \in Contexts : ReadResource(r, asked)
  BY <1>7, DoneKeeps DEF CallTool, ReadResource, Done, database, AuthUnchanged
<1>8. CASE \E k \in Keys : Deactivate(k)
  BY <1>8, DeactivateKeeps
<1>9. CASE Retry \/ HealthProbe \/ PgReturns \/ \E v \in Versions : Index(v)
  BY <1>9, FadeSame DEF Retry, HealthProbe, PgReturns, Index, database, caches, AuthUnchanged
<1>10. CASE PgDown
  BY <1>10, LosingKeeps DEF PgDown, caches, AuthUnchanged
<1>11. CASE Restart
  BY <1>11, RestartKeeps
<1>12. CASE Tick
  BY <1>12, TickKeeps
<1>13. QED
  BY <1>1, <1>2, <1>3, <1>4, <1>5, <1>6, <1>7, <1>8, <1>9, <1>10, <1>11, <1>12 DEF Next

\* Verdicts on their way and in the cache are no older than they may be
\* (AuthMiddleware.dispatch and the verification thread).
THEOREM AlwaysFadeInv == Spec => []FadeInv
<1>1. Init => FadeInv
  BY FadeInit
<1>2. FadeInv /\ [Next]_vars => FadeInv'
  BY FadeStep
<1>3. QED
  BY <1>1, <1>2, PTL DEF Spec

LEMMA KeyNumbers ==
  ASSUME FadeInv, NEW k \in Keys
  PROVE  off[k] \in Nat /\ keyCache[k].left \in Nat /\ MaxOff \in Nat
<1>1. MaxOff \in Nat
  BY ServerAssumption DEF MaxOff
<1>2. off[k] \in 0 .. MaxOff
  BY DEF FadeInv, KeysOK
<1>3. keyCache[k].left \in 0 .. KeyTTL
  BY DEF FadeInv, KeysOK
<1>4. QED
  BY <1>1, <1>2, <1>3, ServerAssumption

LEMMA OthersDoNotAdmit ==
  ASSUME FadeInv, [Next]_vars, NEW r \in Requests, request[r].phase # "admitted",
         \A k \in Keys : ~ Arrive(r, k), ~ Verified(r)
  PROVE  request'[r].phase # "admitted"
<1>1. request \in [Requests -> RequestType]
  BY DEF FadeInv, RequestsOK
<1>2. CASE \E q \in Requests : \E rec : q # r /\ Becomes(q, rec)
  BY <1>1, <1>2 DEF Becomes
<1>3. CASE Becomes(r, NoRequest)
  <2>1. request'[r] = NoRequest
    BY <1>1, <1>3 DEF Becomes
  <2>2. QED
    BY <2>1, NoRequestIsTyped
<1>4. CASE UNCHANGED request
  BY <1>4
<1>5. CASE \E q \in Requests : \/ request' = [LoseSoundness EXCEPT ![q] = NoRequest]
                               \/ request' = LoseSoundness
  <2>1. PICK q \in Requests : \/ request' = [LoseSoundness EXCEPT ![q] = NoRequest]
                              \/ request' = LoseSoundness
    BY <1>5
  <2>2. CASE request'[r] = NoRequest
    BY <2>2, NoRequestIsTyped
  <2>3. CASE request'[r] = LoseSoundness[r]
    <3>1. LoseSoundness[r].phase = request[r].phase
      BY <1>1 DEF LoseSoundness, RequestType
    <3>2. QED
      BY <2>3, <3>1
  <2>4. request'[r] = NoRequest \/ request'[r] = LoseSoundness[r]
    BY <2>1 DEF LoseSoundness
  <2>5. QED
    BY <2>2, <2>3, <2>4
<1>6. CASE Restart
  BY <1>6, NoRequestIsTyped DEF Restart
<1>7. CASE Tick
  <2>1. PICK l : request'[r] = [request[r] EXCEPT !.lag = l]
    BY <1>7 DEF Tick
  <2>2. PICK q \in RequestType : q = request[r]
    BY <1>1
  <2>3. [q EXCEPT !.lag = l].phase = q.phase
    BY DEF RequestType
  <2>4. QED
    BY <2>1, <2>2, <2>3
<1>8. CASE ReadKey(r)
  <2>1. CASE Becomes(r, [request[r] EXCEPT !.phase = "reading",
                                           !.found = valid[request[r].key]])
    <3>1. PICK f : request'[r] = [request[r] EXCEPT !.phase = "reading", !.found = f]
      BY <1>1, <2>1 DEF Becomes
    <3>2. PICK q \in RequestType : q = request[r]
      BY <1>1
    <3>3. [q EXCEPT !.phase = "reading", !.found = f].phase = "reading"
      BY DEF RequestType
    <3>4. QED
      BY <3>1, <3>2, <3>3
  <2>2. QED
    BY <1>3, <1>8, <2>1 DEF ReadKey
<1>9. CASE \E q \in Requests : \/ \E k \in Keys : Arrive(q, k)
                               \/ ReadKey(q) \/ Verified(q)
  <2>1. PICK q \in Requests : \/ \E k \in Keys : Arrive(q, k)
                              \/ ReadKey(q) \/ Verified(q)
    BY <1>9
  <2>2. \E rec : Becomes(q, rec)
    BY <2>1 DEF Arrive, ReadKey, Verified, Judged
  <2>3. CASE q = r
    BY <1>8, <2>1, <2>3
  <2>4. QED
    BY <1>2, <2>2, <2>3
<1>10. CASE \E q \in Requests : \/ VerifyFails(q) \/ CallTool(q)
                                \/ \E asked \in Contexts : ReadResource(q, asked)
  <2>1. PICK q \in Requests : Becomes(q, NoRequest)
    BY <1>10 DEF VerifyFails, CallTool, ReadResource, Done
  <2>2. QED
    BY <1>2, <1>3, <2>1
<1>11. CASE \E q \in Requests : \E c : Writes(q, c)
  <2>1. PICK q \in Requests : \/ Becomes(q, NoRequest)
                              \/ request' = [LoseSoundness EXCEPT ![q] = NoRequest]
    BY <1>11 DEF Writes, Done
  <2>2. QED
    BY <1>2, <1>3, <1>5, <2>1
<1>12. CASE \E q \in Requests : SetActiveProfile(q) \/ \E v \in Versions : SetActiveVersion(q, v)
  BY <1>11, <1>12 DEF SetActiveProfile, SetActiveVersion
<1>13. CASE \/ \E k \in Keys : Deactivate(k)
            \/ \E v \in Versions : Index(v)
            \/ Retry \/ HealthProbe \/ PgReturns \/ UNCHANGED vars
  BY <1>4, <1>13 DEF Deactivate, Index, Retry, HealthProbe, PgReturns, vars
<1>14. CASE PgDown
  BY <1>5, <1>14 DEF PgDown
<1>15. QED
  BY <1>6, <1>7, <1>9, <1>10, <1>12, <1>13, <1>14 DEF Next

\* Only Arrive and Verified let a request in.
LEMMA AdmitsOnlyVerified ==
  ASSUME FadeInv, [Next]_vars, NEW r \in Requests,
         request[r].phase # "admitted", request'[r].phase = "admitted"
  PROVE  off[request'[r].key] < MaxOff
<1>1. CASE \E k \in Keys : Arrive(r, k) /\ keyCache[k].left > 0
  <2>1. PICK k \in Keys : Arrive(r, k) /\ keyCache[k].left > 0
    BY <1>1
  <2>2. CASE keyCache[k].found /\ Becomes(r, [NoRequest EXCEPT !.phase = "admitted", !.key = k])
    <3>1. request'[r] = [NoRequest EXCEPT !.phase = "admitted", !.key = k]
      BY <2>2 DEF Becomes, FadeInv, RequestsOK
    <3>2. request'[r].key = k
      BY <3>1, AdmittedKey
    <3>3. off[k] + keyCache[k].left <= MaxOff
      BY <2>1, <2>2 DEF FadeInv, VerdictsFade
    <3>4. off[k] \in Nat /\ keyCache[k].left \in Nat /\ MaxOff \in Nat
      BY KeyNumbers
    <3>5. off[k] < MaxOff
      <4>1. keyCache[k].left > 0
        BY <2>1
      <4>2. QED
        BY <3>3, <3>4, <4>1
    <3>6. QED
      BY <3>2, <3>5
  <2>3. CASE Becomes(r, NoRequest)
    <3>1. request'[r].phase = "none"
      BY <2>3, NoRequestIsTyped DEF Becomes, FadeInv, RequestsOK
    <3>2. QED
      BY <3>1
  <2>4. QED
    BY <2>1, <2>2, <2>3 DEF Arrive, Judged
<1>2. CASE Verified(r)
  <2>1. CASE /\ request[r].found
             /\ Becomes(r, [NoRequest EXCEPT !.phase = "admitted", !.key = request[r].key])
    <3>1. request[r].key \in Keys /\ request[r].lag \in 0 .. MaxLag
      BY <1>2 DEF Verified, FadeInv, RequestsOK, RequestType
    <3>2. request'[r] = [NoRequest EXCEPT !.phase = "admitted", !.key = request[r].key]
      BY <2>1 DEF Becomes, FadeInv, RequestsOK
    <3>3. request'[r].key = request[r].key
      BY <3>1, <3>2, AdmittedKey
    <3>4. off[request[r].key] <= request[r].lag
      BY <1>2, <2>1 DEF Verified, FadeInv, ReadingsFade
    <3>5. off[request[r].key] \in Nat
      BY <3>1, KeyNumbers
    <3>6. off[request[r].key] < MaxOff
      <4>1. MaxLag \in Nat /\ KeyTTL \in Nat /\ KeyTTL > 0 /\ MaxOff = KeyTTL + MaxLag
        BY ServerAssumption DEF MaxOff
      <4>2. request[r].lag \in Nat /\ request[r].lag <= MaxLag
        BY <3>1, <4>1
      <4>3. QED
        BY <3>4, <3>5, <4>1, <4>2
    <3>7. QED
      BY <3>3, <3>6
  <2>2. CASE Becomes(r, NoRequest)
    <3>1. request'[r].phase = "none"
      BY <2>2, NoRequestIsTyped DEF Becomes, FadeInv, RequestsOK
    <3>2. QED
      BY <3>1
  <2>3. QED
    BY <1>2, <2>1, <2>2 DEF Verified, Judged
<1>3. CASE \E k \in Keys : Arrive(r, k) /\ ~ (keyCache[k].left > 0)
  <2>1. PICK k \in Keys : Becomes(r, [NoRequest EXCEPT !.phase = "queued", !.key = k])
    BY <1>3 DEF Arrive
  <2>2. request'[r] = [NoRequest EXCEPT !.phase = "queued", !.key = k]
    BY <2>1 DEF Becomes, FadeInv, RequestsOK
  <2>3. request'[r].phase = "queued"
    BY <2>2, AdmittedIsTyped DEF Phases
  <2>4. QED
    BY <2>3
<1>4. CASE (\A k \in Keys : ~ Arrive(r, k)) /\ ~ Verified(r)
  BY <1>4, OthersDoNotAdmit
<1>5. QED
  BY <1>1, <1>2, <1>3, <1>4

\* A key that was revoked gets no request in after KeyTTL + MaxLag ticks, for any
\* lifetimes (_cache_get, _cache_set and dispatch of middleware.py).
THEOREM RevokedKeysAlwaysFade == Spec => RevokedKeysFade
<1>1. FadeInv /\ [Next]_vars =>
        [\A r \in Requests :
           request[r].phase # "admitted" /\ request'[r].phase = "admitted"
             => off[request'[r].key] < MaxOff]_vars
  BY AdmitsOnlyVerified
<1>2. Spec => []FadeInv
  BY AlwaysFadeInv
<1>3. QED
  BY <1>1, <1>2, PTL DEF Spec, RevokedKeysFade

-----------------------------------------------------------------------------
(* The session layer implements StickyContext *)

RowType == [context : Contexts, idle : 0 .. Lifetime]
SessionType == [context : Contexts, left : 0 .. SessionTTL]

LEMMA SessionTypes ==
  ASSUME SessionsOK, NEW k \in Keys
  PROVE  /\ row[k] \in RowType /\ row[k].context \in Contexts /\ row[k].idle \in 0 .. Lifetime
         /\ session[k] \in SessionType
         /\ session[k].context \in Contexts /\ session[k].left \in 0 .. SessionTTL
BY DEF SessionsOK, RowType, SessionType

LEMMA EmptySession ==
  /\ NoSession \in SessionType /\ NoSession.context = NoVersion /\ NoSession.left = 0
  /\ NoVersion \in Contexts
BY ServerAssumption DEF NoSession, SessionType, Contexts

LEMMA MemoryIs ==
  ASSUME NEW k \in Keys, NEW c \in Contexts
  PROVE  Remembered[k][c] = IF c = session[k].context THEN session[k].left ELSE 0
BY DEF Remembered

LEMMA MemoryBounds ==
  ASSUME SessionsOK, NEW k \in Keys, NEW c \in Contexts
  PROVE  Remembered[k][c] \in 0 .. SessionTTL
BY SessionTypes, MemoryIs, ServerAssumption

LEMMA SilenceTellsNothing ==
  ASSUME served' = Silence
  PROVE  Told' = Sticky!Silence
BY DEF Told, Silence, Sticky!Silence

\* What the process forgets, or keeps.
LEMMA ForgettingIsElsewhere ==
  ASSUME SessionsOK, UNCHANGED row, Told' = Sticky!Silence,
         \A k \in Keys : session'[k] = session[k] \/ session'[k] = NoSession
  PROVE  Sticky!Elsewhere
<1>1. ASSUME NEW k \in Keys, NEW c \in Contexts
      PROVE  Remembered'[k][c] \in 0 .. Remembered[k][c]
  <2>1. Remembered'[k][c] = IF c = session'[k].context THEN session'[k].left ELSE 0
    BY DEF Remembered
  <2>2. CASE session'[k] = session[k]
    BY <2>1, <2>2, MemoryIs, MemoryBounds, ServerAssumption
  <2>3. CASE session'[k] = NoSession
    BY <2>1, <2>3, EmptySession, MemoryBounds, ServerAssumption
  <2>4. QED
    BY <2>2, <2>3
<1>2. \A k \in Keys : Sticky!Fades(k, Remembered[k])
  BY <1>1 DEF Sticky!Fades, Sticky!Contexts, Contexts
<1>3. Connects' \in BOOLEAN
  BY DEF Connects
<1>4. UNCHANGED <<[k \in Keys |-> row[k].context], [k \in Keys |-> row[k].idle]>>
  OBVIOUS
<1>5. QED
  BY <1>2, <1>3, <1>4 DEF Sticky!Elsewhere

\* The row as StickyContext sees it, after a write.
LEMMA WrittenRow ==
  ASSUME SessionsOK, NEW k \in Keys, NEW c \in Contexts, Upserts(k, c)
  PROVE  /\ [j \in Keys |-> row'[j].context]
              = [[j \in Keys |-> row[j].context] EXCEPT ![k] = c]
         /\ [j \in Keys |-> row'[j].idle]
              = [[j \in Keys |-> row[j].idle] EXCEPT ![k] = 0]
<1>1. \A j \in Keys : row'[j] = IF j = k THEN [context |-> c, idle |-> 0] ELSE row[j]
  BY DEF Upserts, SessionsOK
<1>2. ASSUME NEW j \in Keys
      PROVE  /\ row'[j].context = IF j = k THEN c ELSE row[j].context
             /\ row'[j].idle = IF j = k THEN 0 ELSE row[j].idle
  BY <1>1
<1>3. QED
  BY <1>2

LEMMA InvalidatedMemory ==
  ASSUME SessionsOK, NEW k \in Keys, Invalidates(k)
  PROVE  Remembered' = [Remembered EXCEPT ![k] = [c \in Contexts |-> 0]]
<1>1. \A j \in Keys : session'[j] = IF j = k THEN NoSession ELSE session[j]
  BY DEF Invalidates, SessionsOK
<1>2. ASSUME NEW j \in Keys
      PROVE  [c \in Contexts |-> IF c = session'[j].context THEN session'[j].left ELSE 0]
             = IF j = k THEN [c \in Contexts |-> 0]
               ELSE [c \in Contexts |-> IF c = session[j].context THEN session[j].left ELSE 0]
  BY <1>1, EmptySession
<1>3. QED
  BY <1>2 DEF Remembered

LEMMA WritesImplements ==
  ASSUME SessionsOK, NEW r \in Requests, request[r].key \in Keys, NEW c \in Contexts,
         Writes(r, c), served' = Silence, UNCHANGED pool
  PROVE  \/ Sticky!Pin(request[r].key, c)
         \/ Sticky!PinUnconfirmed(request[r].key, c)
         \/ Sticky!Elsewhere
<1> DEFINE k == request[r].key
<1>1. Told' = Sticky!Silence
  BY DEF Told, Silence, Sticky!Silence
<1>2. CASE Runs /\ Upserts(k, c) /\ Invalidates(k)
  <2>1. Connects' = Connects
    BY <1>2 DEF Runs, Connects
  <2>2. QED
    BY <1>1, <1>2, <2>1, WrittenRow, InvalidatedMemory DEF Sticky!Pin, Sticky!Contexts, Contexts
<1>3. CASE UNCHANGED <<row, session>>
  BY <1>1, <1>3, ForgettingIsElsewhere
<1>4. CASE Upserts(k, c) /\ UNCHANGED session /\ pgUp' = FALSE /\ idle' = "none"
  <2>1. Connects' = FALSE
    BY <1>4 DEF Connects
  <2>2. Remembered' = Remembered
    BY <1>4 DEF Remembered
  <2>3. QED
    BY <1>1, <1>4, <2>1, <2>2, WrittenRow DEF Sticky!PinUnconfirmed
<1>5. QED
  BY <1>2, <1>3, <1>4 DEF Writes

\* A read answers with what is cached, with the row, or blindly.
LEMMA ReadsImplements ==
  ASSUME SessionsOK, NEW k \in Keys, NEW c \in Contexts, ReadsSession(k, c),
         Told' = [key |-> k, context |-> c], UNCHANGED <<row, pool>>,
         session[k].left > 0 => Connects' = Connects
  PROVE  Sticky!Answer(k) \/ Sticky!AnswerBlind(k)
<1>1. UNCHANGED <<[j \in Keys |-> row[j].context], [j \in Keys |-> row[j].idle]>>
  OBVIOUS
<1>2. CASE session[k].left > 0 /\ c = session[k].context /\ UNCHANGED session
  <2>1. Remembered' = Remembered
    BY <1>2 DEF Remembered
  <2>2. Remembered[k][c] > 0
    BY <1>2, MemoryIs
  <2>3. Sticky!Fades(k, [Remembered[k] EXCEPT ![Sticky!Current(k)] = SessionTTL])
    <3>1. SUFFICES ASSUME NEW d \in Contexts
                   PROVE  Remembered[k][d]
                            \in 0 .. [Remembered[k] EXCEPT ![Sticky!Current(k)] = SessionTTL][d]
      BY <2>1 DEF Sticky!Fades, Sticky!Contexts, Contexts
    <3>2. Remembered[k][d] \in 0 .. SessionTTL
      BY MemoryBounds
    <3>3. [Remembered[k] EXCEPT ![Sticky!Current(k)] = SessionTTL][d]
            = IF d = Sticky!Current(k) THEN SessionTTL ELSE Remembered[k][d]
      BY DEF Remembered
    <3>4. QED
      BY <3>2, <3>3, ServerAssumption
  <2>4. QED
    BY <1>1, <1>2, <2>1, <2>2, <2>3 DEF Sticky!Answer, Sticky!Others, Sticky!Contexts, Contexts
<1>3. CASE session' = [session EXCEPT ![k] = [context |-> c, left |-> SessionTTL]]
  <2>1. \A j \in Keys : session'[j] = IF j = k THEN [context |-> c, left |-> SessionTTL]
                                               ELSE session[j]
    BY <1>3 DEF SessionsOK
  <2>2. \A d \in Contexts : Remembered'[k][d] = IF d = c THEN SessionTTL ELSE 0
    BY <2>1 DEF Remembered
  <2>3. \A j \in Keys \ {k} : Remembered'[j] = Remembered[j]
    BY <2>1 DEF Remembered
  <2>4. Sticky!Fades(k, [Remembered[k] EXCEPT ![c] = SessionTTL])
    <3>1. SUFFICES ASSUME NEW d \in Contexts
                   PROVE  Remembered'[k][d] \in 0 .. [Remembered[k] EXCEPT ![c] = SessionTTL][d]
      BY DEF Sticky!Fades, Sticky!Contexts, Contexts
    <3>2. Remembered[k][d] \in 0 .. SessionTTL
      BY MemoryBounds
    <3>3. [Remembered[k] EXCEPT ![c] = SessionTTL][d]
            = IF d = c THEN SessionTTL ELSE Remembered[k][d]
      BY DEF Remembered
    <3>4. QED
      BY <2>2, <3>2, <3>3, ServerAssumption
  <2>5. CASE Runs /\ c = InRow(k)
    <3>1. Connects' = Connects
      BY <2>5 DEF Runs, Connects
    <3>2. c = Sticky!Current(k)
      BY <2>5 DEF InRow, Sticky!Current
    <3>3. QED
      BY <1>1, <2>3, <2>4, <3>1, <3>2 DEF Sticky!Answer, Sticky!Others, Sticky!Contexts, Contexts
  <2>6. CASE Raises /\ c = NoVersion
    <3>1. ~ Connects /\ Connects' \in BOOLEAN
      BY <2>6 DEF Raises, Connects
    <3>2. QED
      BY <1>1, <2>3, <2>4, <2>6, <3>1 DEF Sticky!AnswerBlind, Sticky!Others
  <2>7. QED
    <3>1. CASE session[k].left = 0
      BY <2>5, <2>6, <3>1, ServerAssumption DEF ReadsSession
    <3>2. CASE session[k].left # 0
      BY <1>2, <3>2, SessionTypes DEF ReadsSession
    <3>3. QED
      BY <3>1, <3>2
<1>4. QED
  BY <1>2, <1>3 DEF ReadsSession

LEMMA TickImplements ==
  ASSUME SessionsOK, Tick
  PROVE  Sticky!Tick
<1>1. \A k \in Keys :
        /\ row'[k] = [row[k] EXCEPT !.idle = Capped(row[k].idle, Lifetime)]
        /\ session'[k] = IF session[k].left > 1
                           THEN [session[k] EXCEPT !.left = session[k].left - 1]
                           ELSE NoSession
  BY DEF Tick
<1>2. ASSUME NEW k \in Keys
      PROVE  /\ row'[k].context = row[k].context
             /\ row'[k].idle = IF row[k].idle < Lifetime THEN row[k].idle + 1 ELSE Lifetime
  <2>1. PICK q \in RowType : q = row[k]
    BY SessionTypes
  <2>2. PICK n : n = Capped(row[k].idle, Lifetime)
    OBVIOUS
  <2>3. [q EXCEPT !.idle = n].context = q.context /\ [q EXCEPT !.idle = n].idle = n
    BY DEF RowType
  <2>4. QED
    BY <1>1, <2>1, <2>2, <2>3 DEF Capped
<1>3. ASSUME NEW k \in Keys, NEW c \in Contexts
      PROVE  Remembered'[k][c] = IF Remembered[k][c] > 0 THEN Remembered[k][c] - 1 ELSE 0
  <2>1. PICK q \in SessionType : q = session[k]
    BY SessionTypes
  <2>2. Remembered'[k][c] = IF c = session'[k].context THEN session'[k].left ELSE 0
    BY DEF Remembered
  <2>3. Remembered[k][c] = IF c = q.context THEN q.left ELSE 0
    BY <2>1, MemoryIs
  <2>4. q.left \in Nat
    BY ServerAssumption DEF SessionType
  <2>5. CASE q.left > 1
    <3>1. session'[k] = [q EXCEPT !.left = q.left - 1]
      BY <1>1, <2>1, <2>5
    <3>2. session'[k].context = q.context /\ session'[k].left = q.left - 1
      BY <3>1 DEF SessionType
    <3>3. QED
      BY <2>2, <2>3, <2>4, <2>5, <3>2
  <2>6. CASE ~ (q.left > 1)
    <3>1. session'[k] = NoSession
      BY <1>1, <2>1, <2>6
    <3>2. QED
      BY <2>2, <2>3, <2>4, <2>6, <3>1, EmptySession
  <2>7. QED
    BY <2>5, <2>6
<1>4. Told' = Sticky!Silence
  BY DEF Tick, Told, Silence, Sticky!Silence
<1>5. Connects' = Connects
  <2>1. Holding' = Holding
    <3>1. \A r \in Requests : request'[r].phase = request[r].phase
      <4>1. TAKE r \in Requests
      <4>2. PICK l : request'[r] = [request[r] EXCEPT !.lag = l]
        BY DEF Tick
      <4>3. QED
        BY <4>2
    <3>2. QED
      BY <3>1 DEF Holding
  <2>2. QED
    BY <2>1 DEF Tick, connections, Connects
<1>6. [k \in Keys |-> row'[k].context] = [k \in Keys |-> row[k].context]
  BY <1>2
<1>7. [k \in Keys |-> row'[k].idle]
        = [k \in Keys |-> IF [j \in Keys |-> row[j].idle][k] < Lifetime
                            THEN [j \in Keys |-> row[j].idle][k] + 1 ELSE Lifetime]
  BY <1>2
<1>8. Remembered' = [k \in Keys |-> [c \in Sticky!Contexts |->
                       IF Remembered[k][c] > 0 THEN Remembered[k][c] - 1 ELSE 0]]
  <2>1. Remembered' = [k \in Keys |-> [c \in Contexts |-> Remembered'[k][c]]]
    BY DEF Remembered
  <2>2. QED
    BY <1>3, <2>1 DEF Sticky!Contexts, Contexts
<1>9. QED
  BY <1>4, <1>5, <1>6, <1>7, <1>8 DEF Sticky!Tick

LEMMA SessionsInit == Init => SessionsOK
BY EmptySession, ServerAssumption DEF Init, SessionsOK, SessionType

LEMMA SessionsStep ==
  ASSUME SessionsOK, RequestsOK, [Next]_vars
  PROVE  SessionsOK'
<1>1. CASE UNCHANGED <<row, session>>
  BY <1>1 DEF SessionsOK
<1>2. CASE \E k \in Keys, c \in Contexts : ReadsSession(k, c) /\ UNCHANGED row
  BY <1>2, ServerAssumption DEF ReadsSession, SessionsOK
<1>3. CASE \E r \in Requests, c \in Contexts : request[r].key \in Keys /\ Writes(r, c)
  <2>1. PICK r \in Requests, c \in Contexts : request[r].key \in Keys /\ Writes(r, c)
    BY <1>3
  <2>2. row' = row \/ Upserts(request[r].key, c)
    BY <2>1 DEF Writes
  <2>3. session' = session \/ Invalidates(request[r].key)
    BY <2>1 DEF Writes
  <2>4. row' \in [Keys -> [context : Contexts, idle : 0 .. Lifetime]]
    BY <2>1, <2>2, ServerAssumption DEF Upserts, SessionsOK
  <2>5. session' \in [Keys -> SessionType]
    BY <2>1, <2>3, EmptySession DEF Invalidates, SessionsOK, SessionType
  <2>6. QED
    BY <2>4, <2>5 DEF SessionsOK, SessionType
<1>4. CASE Restart
  <2>1. UNCHANGED row /\ session' = [k \in Keys |-> NoSession]
    BY <1>4 DEF Restart, database
  <2>2. QED
    BY <2>1, EmptySession DEF SessionsOK, SessionType
<1>5. CASE Tick
  <2>1. \A k \in Keys :
          /\ row'[k] = [row[k] EXCEPT !.idle = Capped(row[k].idle, Lifetime)]
          /\ session'[k] = IF session[k].left > 1
                             THEN [session[k] EXCEPT !.left = session[k].left - 1]
                             ELSE NoSession
    BY <1>5 DEF Tick
  <2>2. ASSUME NEW k \in Keys PROVE row'[k] \in RowType
    <3>1. PICK q \in RowType : q = row[k]
      BY SessionTypes
    <3>2. PICK n : n = Capped(row[k].idle, Lifetime)
      OBVIOUS
    <3>3. n \in 0 .. Lifetime
      BY <3>2, SessionTypes, ServerAssumption DEF Capped
    <3>4. [q EXCEPT !.idle = n] \in RowType
      BY <3>3 DEF RowType
    <3>5. QED
      BY <2>1, <3>1, <3>2, <3>4
  <2>3. ASSUME NEW k \in Keys PROVE session'[k] \in SessionType
    <3>1. PICK q \in SessionType : q = session[k]
      BY SessionTypes
    <3>2. CASE q.left > 1
      <4>1. [q EXCEPT !.left = q.left - 1] \in SessionType
        BY <3>2, ServerAssumption DEF SessionType
      <4>2. QED
        BY <2>1, <3>1, <3>2, <4>1
    <3>3. CASE ~ (q.left > 1)
      BY <2>1, <3>1, <3>3, EmptySession
    <3>4. QED
      BY <3>2, <3>3
  <2>4. row' \in [Keys -> RowType] /\ session' \in [Keys -> SessionType]
    BY <1>5, <2>2, <2>3 DEF Tick
  <2>5. QED
    BY <2>4 DEF SessionsOK, RowType, SessionType
<1>6. CASE \E r \in Requests : \/ SetActiveProfile(r)
                               \/ \E v \in Versions : SetActiveVersion(r, v)
  <2>1. PICK r \in Requests : \/ SetActiveProfile(r)
                              \/ \E v \in Versions : SetActiveVersion(r, v)
    BY <1>6
  <2>2. request[r].key \in Keys
    BY <2>1 DEF SetActiveProfile, SetActiveVersion, RequestsOK
  <2>3. row[request[r].key].context \in Contexts /\ Versions \subseteq Contexts
    BY <2>2, SessionTypes DEF Contexts
  <2>4. QED
    BY <1>3, <2>1, <2>2, <2>3 DEF SetActiveProfile, SetActiveVersion
<1>7. CASE \E r \in Requests : CallTool(r) \/ \E asked \in Contexts : ReadResource(r, asked)
  <2>1. PICK r \in Requests : CallTool(r) \/ \E asked \in Contexts : ReadResource(r, asked)
    BY <1>7
  <2>2. request[r].key \in Keys
    BY <2>1 DEF CallTool, ReadResource, RequestsOK
  <2>3. UNCHANGED row
    BY <2>1 DEF CallTool, ReadResource, database
  <2>4. QED
    BY <1>1, <1>2, <2>1, <2>2, <2>3 DEF CallTool, ReadResource
<1>8. CASE \/ \E r \in Requests : \/ \E k \in Keys : Arrive(r, k)
                                  \/ ReadKey(r) \/ Verified(r) \/ VerifyFails(r)
           \/ \E k \in Keys : Deactivate(k)
           \/ \E v \in Versions : Index(v)
           \/ Retry \/ HealthProbe \/ PgDown \/ PgReturns \/ UNCHANGED vars
  BY <1>1, <1>8 DEF Arrive, ReadKey, Verified, VerifyFails, Deactivate, Index, Retry, HealthProbe,
                    PgDown, PgReturns, vars, database, caches
<1>9. QED
  BY <1>4, <1>5, <1>6, <1>7, <1>8 DEF Next

LEMMA DoneHolds ==
  ASSUME RequestsOK, NEW r \in Requests, request[r].phase = "admitted", Done(r)
  PROVE  Holding' = Holding
<1>1. \A q \in Requests : request'[q] = IF q = r THEN NoRequest ELSE request[q]
  BY DEF Done, Becomes, RequestsOK
<1>2. NoRequest.phase = "none"
  BY NoRequestIsTyped
<1>3. QED
  BY <1>1, <1>2 DEF Holding

LEMMA ToolReadImplements ==
  ASSUME SessionsOK, RequestsOK, NEW r \in Requests, request[r].phase = "admitted", Done(r),
         NEW c \in Contexts, ReadsSession(request[r].key, c),
         Told' = [key |-> request[r].key, context |-> c], UNCHANGED <<row, pool, pgUp>>
  PROVE  Sticky!Answer(request[r].key) \/ Sticky!AnswerBlind(request[r].key)
<1>1. request[r].key \in Keys
  BY DEF RequestsOK
<1>2. session[request[r].key].left > 0 => UNCHANGED idle
  BY <1>1, SessionTypes DEF ReadsSession
<1>3. session[request[r].key].left > 0 => Connects' = Connects
  BY <1>2, DoneHolds DEF Connects
<1>4. QED
  BY <1>1, <1>3, ReadsImplements

LEMMA CallToolImplements ==
  ASSUME SessionsOK, RequestsOK, NEW r \in Requests, CallTool(r)
  PROVE  \E k \in Keys : Sticky!Answer(k) \/ Sticky!AnswerBlind(k)
<1>1. PICK c \in Contexts :
        /\ ReadsSession(request[r].key, c)
        /\ served' = [key |-> request[r].key, asked |-> NoVersion, context |-> c,
                      body |-> Resolved(c), age |-> 0]
  BY DEF CallTool
<1>2. Told' = [key |-> request[r].key, context |-> c]
  BY <1>1 DEF Told
<1>3. /\ UNCHANGED <<row, pool, pgUp>> /\ Done(r)
      /\ request[r].phase = "admitted" /\ request[r].key \in Keys
  BY DEF CallTool, database, RequestsOK
<1>4. QED
  BY <1>1, <1>2, <1>3, ToolReadImplements

LEMMA ReadResourceImplements ==
  ASSUME SessionsOK, RequestsOK, NEW r \in Requests, NEW asked \in Contexts,
         ReadResource(r, asked)
  PROVE  \/ \E k \in Keys : Sticky!Answer(k) \/ Sticky!AnswerBlind(k)
         \/ Sticky!Elsewhere
<1>1. /\ UNCHANGED <<row, pool, pgUp>> /\ Done(r)
      /\ request[r].phase = "admitted" /\ request[r].key \in Keys
  BY DEF ReadResource, database, RequestsOK
<1>2. CASE asked # NoVersion
  <2>1. Serves(request[r].key, asked, NoVersion) /\ UNCHANGED session
    BY <1>2 DEF ReadResource
  <2>2. served'.asked = asked
    BY <1>2, <2>1 DEF Serves
  <2>3. Told' = Sticky!Silence
    BY <1>2, <2>2 DEF Told, Sticky!Silence
  <2>4. QED
    BY <1>1, <2>1, <2>3, ForgettingIsElsewhere
<1>3. CASE asked = NoVersion
  <2>1. PICK c \in Contexts : ReadsSession(request[r].key, c)
                              /\ Serves(request[r].key, asked, c)
    BY <1>3 DEF ReadResource
  <2>2. /\ served'.asked = NoVersion /\ served'.key = request[r].key
        /\ served'.context = c
    <3>1. PICK b, age : \/ served' = [Silence EXCEPT !.key = request[r].key, !.context = c]
                        \/ served' = [key |-> request[r].key, asked |-> NoVersion,
                                      context |-> c, body |-> b, age |-> age]
      BY <1>3, <2>1 DEF Serves
    <3>2. CASE served' = [Silence EXCEPT !.key = request[r].key, !.context = c]
      BY <3>2 DEF Silence
    <3>3. QED
      BY <3>1, <3>2
  <2>3. Told' = [key |-> request[r].key, context |-> c]
    BY <2>2 DEF Told
  <2>4. QED
    BY <1>1, <2>1, <2>3, ToolReadImplements
<1>4. QED
  BY <1>2, <1>3

LEMMA StepImplements ==
  ASSUME SessionsOK, RequestsOK, [Next]_vars
  PROVE  [Sticky!Next]_(Sticky!vars)
<1>1. CASE UNCHANGED vars
  <2>1. UNCHANGED <<Remembered, Told, Connects>>
    BY <1>1 DEF vars, Remembered, Told, Connects, Holding
  <2>2. QED
    BY <1>1, <2>1 DEF vars, Sticky!vars
<1>2. CASE \E r \in Requests : \/ SetActiveProfile(r)
                               \/ \E v \in Versions : SetActiveVersion(r, v)
  <2>1. PICK r \in Requests : \/ SetActiveProfile(r)
                              \/ \E v \in Versions : SetActiveVersion(r, v)
    BY <1>2
  <2>2. request[r].key \in Keys
    BY <2>1 DEF SetActiveProfile, SetActiveVersion, RequestsOK
  <2>3. served' = Silence /\ UNCHANGED pool
    BY <2>1 DEF SetActiveProfile, SetActiveVersion
  <2>4. CASE SetActiveProfile(r)
    <3>1. PICK k \in Keys : k = request[r].key
      BY <2>2
    <3>2. PICK c \in Contexts : c = row[k].context
      BY SessionTypes
    <3>3. Writes(r, c)
      BY <2>4, <3>1, <3>2 DEF SetActiveProfile
    <3>4. Sticky!Pin(k, c) \/ Sticky!PinUnconfirmed(k, c) \/ Sticky!Elsewhere
      BY <2>2, <2>3, <3>1, <3>3, WritesImplements
    <3>5. [j \in Keys |-> row[j].context][k] = c
      BY <3>2
    <3>6. CASE Sticky!Pin(k, c)
      <4>1. Sticky!Touch(k)
        BY <3>5, <3>6 DEF Sticky!Touch, Sticky!Pin
      <4>2. QED
        BY <4>1 DEF Sticky!Next
    <3>7. CASE Sticky!PinUnconfirmed(k, c)
      BY <3>5, <3>7 DEF Sticky!PinUnconfirmed, Sticky!Next
    <3>8. QED
      BY <3>4, <3>6, <3>7 DEF Sticky!Next
  <2>5. CASE \E v \in Versions : SetActiveVersion(r, v)
    <3>1. PICK v \in Versions : SetActiveVersion(r, v)
      BY <2>5
    <3>2. v \in Contexts
      BY DEF Contexts
    <3>3. \/ Sticky!Pin(request[r].key, v)
          \/ Sticky!PinUnconfirmed(request[r].key, v)
          \/ Sticky!Elsewhere
      BY <2>2, <2>3, <3>1, <3>2, WritesImplements DEF SetActiveVersion
    <3>4. QED
      BY <2>2, <3>3 DEF Sticky!Next
  <2>6. QED
    BY <2>1, <2>4, <2>5
<1>3. CASE \E r \in Requests : CallTool(r)
  BY <1>3, CallToolImplements DEF Sticky!Next
<1>4. CASE \E r \in Requests, asked \in Contexts : ReadResource(r, asked)
  BY <1>4, ReadResourceImplements DEF Sticky!Next
<1>5. CASE Restart
  <2>1. \A k \in Keys : session'[k] = NoSession
    BY <1>5 DEF Restart
  <2>2. UNCHANGED row /\ Told' = Sticky!Silence
    BY <1>5, SilenceTellsNothing DEF Restart, database
  <2>3. QED
    BY <2>1, <2>2, ForgettingIsElsewhere DEF Sticky!Next
<1>6. CASE Tick
  BY <1>6, TickImplements DEF Sticky!Next
<1>7. CASE \/ \E r \in Requests : \/ \E k \in Keys : Arrive(r, k)
                                  \/ ReadKey(r) \/ Verified(r) \/ VerifyFails(r)
           \/ \E k \in Keys : Deactivate(k)
           \/ \E v \in Versions : Index(v)
           \/ Retry \/ HealthProbe \/ PgDown \/ PgReturns
  <2>1. UNCHANGED <<row, session>> /\ served' = Silence
    BY <1>7 DEF Arrive, ReadKey, Verified, VerifyFails, Deactivate, Index, Retry, HealthProbe,
                PgDown, PgReturns, database, caches
  <2>2. QED
    BY <2>1, SilenceTellsNothing, ForgettingIsElsewhere DEF Sticky!Next
<1>8. QED
  BY <1>1, <1>2, <1>3, <1>4, <1>5, <1>6, <1>7 DEF Next

LEMMA InitImplements == Init => Sticky!Init
<1>1. SUFFICES ASSUME Init PROVE Sticky!Init
  OBVIOUS
<1>2. \A k \in Keys : row[k].context = NoVersion /\ row[k].idle = Lifetime
                      /\ session[k] = NoSession
  BY <1>1 DEF Init
<1>3. Remembered = [k \in Keys |-> [c \in Sticky!Contexts |-> 0]]
  BY <1>2, EmptySession DEF Remembered, Sticky!Contexts, Contexts
<1>4. Told = Sticky!Silence
  BY <1>1 DEF Init, Told, Silence, Sticky!Silence
<1>5. Connects \in BOOLEAN
  BY DEF Connects
<1>6. QED
  BY <1>2, <1>3, <1>4, <1>5 DEF Sticky!Init

\* The session layer implements StickyContext, for any keys, versions and
\* lifetimes: the row is the pin and the cache is what may be repeated
\* (session.py).
THEOREM SessionLayerIsSticky == Spec => StickyPromise
<1>1. Init => SessionsOK /\ Sticky!Init
  BY SessionsInit, InitImplements
<1>2. FadeInv => RequestsOK
  BY DEF FadeInv
<1>3. SessionsOK /\ RequestsOK /\ [Next]_vars => SessionsOK' /\ [Sticky!Next]_(Sticky!vars)
  BY SessionsStep, StepImplements
<1>4. Spec => []FadeInv
  BY AlwaysFadeInv
<1>5. QED
  BY <1>1, <1>2, <1>3, <1>4, PTL DEF Spec, StickyPromise, Sticky!Spec


-----------------------------------------------------------------------------
(* The resources *)

Entry == [uri : Contexts, body : Versions, left : -1 .. ResourceTTL,
          age : 0 .. ResourceTTL + 1]

\* What an entry says of itself: it is kept under the version it was rendered
\* for, and its age is what has passed of its lifetime.
Honest(e) == e.body = e.uri /\ (e.left >= 0 => e.age + e.left <= ResourceTTL)

Sound(entries) ==
  /\ entries \in Seq(Entry)
  /\ \A i \in DOMAIN entries : Honest(entries[i])
  /\ \A i, j \in DOMAIN entries : entries[i].uri = entries[j].uri => i = j

ResourcesOK == Sound(resources) /\ Len(resources) <= Capacity

\* The connections: no pool, none idle; a request that holds one has a pool to
\* give it back to, and one that is sound is one to a database that is up.
ConnectionsOK ==
  /\ pgUp \in BOOLEAN /\ retrying \in BOOLEAN
  /\ pool \in {"none", "open"} /\ idle \in {"none", "live", "dead"}
  /\ idle = "live" => pgUp
  /\ pool = "none" => idle = "none"
  /\ \A r \in Requests : request[r].phase = "reading"
                           => pool = "open" /\ (request[r].sound => pgUp)

\* What happens outside, and the keys of the requests that are not there.
OutsideOK ==
  /\ indexed \subseteq Versions
  /\ events \in 0 .. MaxEvents
  /\ \A r \in Requests : request[r].phase = "none" => request[r].key = NoKey

ServerInv == FadeInv /\ SessionsOK /\ ResourcesOK /\ ConnectionsOK /\ OutsideOK

LEMMA RemovedIs ==
  ASSUME NEW S, NEW s \in Seq(S), NEW i \in 1 .. Len(s)
  PROVE  /\ RemoveAt(s, i) \in Seq(S)
         /\ Len(RemoveAt(s, i)) = Len(s) - 1
         /\ \A j \in 1 .. Len(s) - 1 :
              RemoveAt(s, i)[j] = IF j < i THEN s[j] ELSE s[j + 1]
<1>1. /\ SubSeq(s, 1, i - 1) \in Seq(S) /\ Len(SubSeq(s, 1, i - 1)) = i - 1
      /\ \A j \in 1 .. i - 1 : SubSeq(s, 1, i - 1)[j] = s[j]
  OBVIOUS
<1>2. /\ SubSeq(s, i + 1, Len(s)) \in Seq(S)
      /\ Len(SubSeq(s, i + 1, Len(s))) = Len(s) - i
      /\ \A j \in 1 .. Len(s) - i : SubSeq(s, i + 1, Len(s))[j] = s[i + j]
  OBVIOUS
<1>3. PICK a \in Seq(S), b \in Seq(S) : a = SubSeq(s, 1, i - 1) /\ b = SubSeq(s, i + 1, Len(s))
  BY <1>1, <1>2
<1>4. /\ a \o b \in Seq(S) /\ Len(a \o b) = Len(a) + Len(b)
      /\ \A j \in 1 .. Len(a) + Len(b) :
           (a \o b)[j] = IF j <= Len(a) THEN a[j] ELSE b[j - Len(a)]
  BY ConcatProperties
<1>5. Len(a) = i - 1 /\ Len(b) = Len(s) - i /\ i \in Nat /\ Len(s) \in Nat /\ i <= Len(s)
  BY <1>1, <1>2, <1>3
<1>6. ASSUME NEW j \in 1 .. Len(s) - 1
      PROVE  (a \o b)[j] = IF j < i THEN s[j] ELSE s[j + 1]
  <2>1. CASE j < i
    <3>1. j \in 1 .. i - 1 /\ j <= Len(a) /\ j \in 1 .. Len(a) + Len(b)
      BY <1>5, <2>1
    <3>2. (a \o b)[j] = a[j]
      BY <1>4, <3>1, Zenon
    <3>3. a[j] = s[j]
      BY <1>1, <1>3, <3>1
    <3>4. QED
      BY <2>1, <3>2, <3>3
  <2>2. CASE ~ (j < i)
    <3>1. j - (i - 1) \in 1 .. Len(s) - i /\ ~ (j <= i - 1)
      BY <1>5, <2>2
    <3>2. (a \o b)[j] = b[j - (i - 1)]
      <4>1. j \in 1 .. Len(a) + Len(b) /\ ~ (j <= Len(a)) /\ j - Len(a) = j - (i - 1)
        BY <1>5, <3>1
      <4>2. QED
        BY <1>4, <4>1, Zenon
    <3>3. b[j - (i - 1)] = s[i + (j - (i - 1))]
      BY <1>2, <1>3, <3>1
    <3>4. i + (j - (i - 1)) = j + 1
      BY <1>5
    <3>5. QED
      BY <2>2, <3>2, <3>3, <3>4
  <2>3. QED
    BY <2>1, <2>2
<1>7. RemoveAt(s, i) = a \o b
  BY <1>3 DEF RemoveAt
<1>8. Len(a \o b) = Len(s) - 1
  BY <1>4, <1>5
<1>9. QED
  BY <1>4, <1>6, <1>7, <1>8, Zenon

LEMMA WithoutIsSound ==
  ASSUME ResourcesOK, NEW uri
  PROVE  /\ Sound(Without(uri))
         /\ Len(Without(uri)) <= Len(resources)
         /\ \A i \in DOMAIN Without(uri) : Without(uri)[i].uri # uri
<1>1. CASE Kept(uri) = {}
  BY <1>1 DEF Without, Kept, ResourcesOK, Sound
<1>2. CASE Kept(uri) # {}
  <2>1. PICK i \in Kept(uri) : i = CHOOSE j \in Kept(uri) : TRUE
    BY <1>2
  <2>2. /\ resources \in Seq(Entry) /\ DOMAIN resources = 1 .. Len(resources)
        /\ i \in 1 .. Len(resources) /\ resources[i].uri = uri
    BY DEF Kept, ResourcesOK, Sound
  <2>3. Without(uri) = RemoveAt(resources, i)
    BY <1>2, <2>1 DEF Without
  <2>4. PICK t : t = RemoveAt(resources, i)
    OBVIOUS
  <2>5. /\ t \in Seq(Entry) /\ Len(t) = Len(resources) - 1
        /\ \A j \in 1 .. Len(t) : t[j] = IF j < i THEN resources[j] ELSE resources[j + 1]
    BY <2>2, <2>4, RemovedIs
  <2>6. \A j \in 1 .. Len(t) : \E n \in DOMAIN resources :
          n # i /\ n = (IF j < i THEN j ELSE j + 1) /\ t[j] = resources[n]
    BY <2>2, <2>5
  <2>7. DOMAIN t = 1 .. Len(t)
    BY <2>5
  <2>8. \A j \in DOMAIN t : Honest(t[j]) /\ t[j].uri # uri
    BY <2>2, <2>6, <2>7 DEF ResourcesOK, Sound
  <2>9. \A j, l \in DOMAIN t : t[j].uri = t[l].uri => j = l
    BY <2>2, <2>6, <2>7 DEF ResourcesOK, Sound
  <2>10. QED
    BY <2>3, <2>4, <2>5, <2>7, <2>8, <2>9 DEF Sound
<1>3. QED
  BY <1>1, <1>2

LEMMA AppendIsSound ==
  ASSUME NEW t, Sound(t), NEW e \in Entry, Honest(e),
         \A i \in DOMAIN t : t[i].uri # e.uri
  PROVE  Sound(Append(t, e)) /\ Len(Append(t, e)) = Len(t) + 1
<1>1. t \in Seq(Entry)
  BY DEF Sound
<1>2. PICK s \in Seq(Entry) : s = Append(t, e)
  BY <1>1, AppendProperties
<1>3. /\ Len(s) = Len(t) + 1 /\ DOMAIN s = 1 .. Len(t) + 1 /\ DOMAIN t = 1 .. Len(t)
      /\ \A i \in 1 .. Len(t) : s[i] = t[i]
      /\ s[Len(t) + 1] = e
  BY <1>1, <1>2
<1>4. \A i \in DOMAIN s : i \in DOMAIN t \/ i = Len(t) + 1
  BY <1>1, <1>3
<1>5. \A i \in DOMAIN s : Honest(s[i])
  BY <1>3, <1>4 DEF Sound
<1>6. \A i, j \in DOMAIN s : s[i].uri = s[j].uri => i = j
  BY <1>3, <1>4 DEF Sound
<1>7. QED
  BY <1>2, <1>3, <1>5, <1>6 DEF Sound

LEMMA FitIsSound ==
  ASSUME NEW t, Sound(t), Len(t) <= Capacity + 1
  PROVE  Sound(Fit(t)) /\ Len(Fit(t)) <= Capacity
<1>1. t \in Seq(Entry) /\ Capacity \in Nat \ {0}
  BY ServerAssumption DEF Sound
<1>2. CASE Len(t) <= Capacity
  BY <1>1, <1>2 DEF Fit
<1>3. CASE ~ (Len(t) <= Capacity)
  <2>1. t # <<>> /\ Len(t) > Capacity
    BY <1>1, <1>3
  <2>2. PICK s \in Seq(Entry) : s = Tail(t)
    BY <1>1, <2>1, HeadTailProperties
  <2>3. /\ Len(s) = Len(t) - 1 /\ DOMAIN s = 1 .. Len(s) /\ DOMAIN t = 1 .. Len(t)
        /\ \A i \in 1 .. Len(s) : s[i] = t[i + 1]
    BY <1>1, <2>1, <2>2
  <2>4. \A i \in DOMAIN s : i + 1 \in DOMAIN t /\ s[i] = t[i + 1]
    BY <1>1, <2>3
  <2>5. (\A i \in DOMAIN s : Honest(s[i])) /\ \A i, j \in DOMAIN s : s[i].uri = s[j].uri => i = j
    BY <2>3, <2>4 DEF Sound
  <2>6. Fit(t) = s
    BY <2>1, <2>2 DEF Fit
  <2>7. QED
    BY <1>1, <2>2, <2>3, <2>5, <2>6 DEF Sound
<1>4. QED
  BY <1>2, <1>3

\* The version a context stands for, if there is one.
LEMMA ResolvedIs ==
  ASSUME OutsideOK, NEW c \in Contexts
  PROVE  Resolved(c) \in Contexts
<1>1. indexed # {} => Latest \in Versions
  BY ServerAssumption DEF OutsideOK, Latest
<1>2. QED
  BY <1>1 DEF Resolved, Contexts

LEMMA RenderedIs ==
  ASSUME NEW v \in Versions
  PROVE  /\ Rendered(v, v) \in Entry /\ Honest(Rendered(v, v))
         /\ Rendered(v, v).uri = v /\ Rendered(v, v).left >= 0
BY ServerAssumption DEF Rendered, Entry, Honest, Contexts

\* What is read through the cache is what would be rendered now, and not too old.
LEMMA ServesKeeps ==
  ASSUME ResourcesOK, OutsideOK, NEW k, NEW asked \in Contexts, NEW c \in Contexts,
         Serves(k, asked, c)
  PROVE  /\ ResourcesOK'
         /\ served'.body # NoVersion =>
              /\ served'.body = IF served'.asked # NoVersion THEN served'.asked
                                                             ELSE Resolved(served'.context)
              /\ served'.age <= ResourceTTL
<1> DEFINE v == IF asked # NoVersion THEN asked ELSE Resolved(c)
           e == IF Hits(v) = {} THEN Rendered(v, v)
                                ELSE resources[CHOOSE i \in Hits(v) : TRUE]
<1>1. v \in Contexts
  BY ResolvedIs
<1>2. CASE v = NoVersion
  <2>1. UNCHANGED resources /\ served' = [Silence EXCEPT !.key = k, !.context = c]
    BY <1>2 DEF Serves
  <2>2. served'.body = NoVersion
    BY <2>1 DEF Silence
  <2>3. QED
    BY <2>1, <2>2 DEF ResourcesOK, Sound
<1>3. CASE v # NoVersion
  <2>1. v \in Versions
    BY <1>1, <1>3 DEF Contexts
  <2>2. /\ resources' = Fit(Append(Without(v), e))
        /\ served' = [key |-> k, asked |-> asked, context |-> c,
                      body |-> e.body, age |-> e.age]
    BY <1>3 DEF Serves, Uri
  <2>3. e \in Entry /\ Honest(e) /\ e.uri = v /\ e.left >= 0
    <3>1. CASE Hits(v) = {}
      <4>1. e = Rendered(v, v)
        BY <3>1
      <4>2. QED
        BY <2>1, <4>1, RenderedIs
    <3>2. CASE Hits(v) # {}
      <4>1. PICK i \in Hits(v) : e = resources[i]
        BY <3>2
      <4>2. i \in DOMAIN resources /\ resources[i].uri = v /\ resources[i].left >= 0
        BY DEF Hits, Kept
      <4>3. QED
        BY <4>1, <4>2 DEF ResourcesOK, Sound
    <3>3. QED
      BY <3>1, <3>2
  <2>4. PICK t : t = Without(v)
    OBVIOUS
  <2>5. Sound(t) /\ Len(t) <= Len(resources) /\ \A i \in DOMAIN t : t[i].uri # v
    BY <2>4, WithoutIsSound
  <2>6. PICK s : s = Append(t, e)
    OBVIOUS
  <2>7. Sound(s) /\ Len(s) = Len(t) + 1
    BY <2>3, <2>5, <2>6, AppendIsSound
  <2>8. Len(s) <= Capacity + 1
    <3>1. t \in Seq(Entry) /\ resources \in Seq(Entry) /\ Len(resources) <= Capacity
      BY <2>5 DEF ResourcesOK, Sound
    <3>2. QED
      BY <2>5, <2>7, <3>1, ServerAssumption
  <2>9. Sound(resources') /\ Len(resources') <= Capacity
    BY <2>2, <2>4, <2>6, <2>7, <2>8, FitIsSound
  <2>10. e.body = v /\ e.age <= ResourceTTL
    BY <2>3, ServerAssumption DEF Honest, Entry
  <2>11. served'.asked = asked /\ served'.context = c /\ served'.body = v
         /\ served'.age <= ResourceTTL
    BY <2>2, <2>10
  <2>12. QED
    BY <2>9, <2>11 DEF ResourcesOK
<1>4. QED
  BY <1>2, <1>3


-----------------------------------------------------------------------------
(* The connections *)

\* What every request keeps: one that is not there has no key, one that holds a
\* connection has a pool, and a database if nothing happened to the connection.
Placed(q) ==
  /\ request[q].phase = "none" => request[q].key = NoKey
  /\ request[q].phase = "reading" => pool = "open" /\ (request[q].sound => pgUp)

LEMMA AllPlaced ==
  ASSUME ServerInv, NEW q \in Requests
  PROVE  Placed(q)
BY DEF ServerInv, ConnectionsOK, OutsideOK, Placed

LEMMA BecomesPlaced ==
  ASSUME ServerInv, NEW r \in Requests, NEW rec, Becomes(r, rec),
         rec.phase = "none" => rec.key = NoKey, rec.phase # "reading",
         UNCHANGED pool, pgUp => pgUp',
         NEW q \in Requests
  PROVE  Placed(q)'
<1>1. request'[q] = IF q = r THEN rec ELSE request[q]
  BY DEF Becomes, ServerInv, FadeInv, RequestsOK
<1>2. Placed(q)
  BY AllPlaced
<1>3. QED
  BY <1>1, <1>2 DEF Placed

LEMMA DonePlaced ==
  ASSUME ServerInv, NEW r \in Requests, Becomes(r, NoRequest),
         UNCHANGED pool, pgUp => pgUp', NEW q \in Requests
  PROVE  Placed(q)'
<1>1. PICK rec : rec = NoRequest
  OBVIOUS
<1>2. Becomes(r, rec) /\ rec.phase = "none" /\ rec.key = NoKey
  BY <1>1 DEF NoRequest
<1>3. QED
  BY <1>2, BecomesPlaced

LEMMA KeyedPlaced ==
  ASSUME ServerInv, NEW r \in Requests, NEW k \in Keys, NEW p \in {"queued", "admitted"},
         Becomes(r, [NoRequest EXCEPT !.phase = p, !.key = k]),
         UNCHANGED <<pool, pgUp>>, NEW q \in Requests
  PROVE  Placed(q)'
<1>1. p \in Phases
  BY DEF Phases
<1>2. PICK rec : rec = [NoRequest EXCEPT !.phase = p, !.key = k]
  OBVIOUS
<1>3. rec.phase = p /\ Becomes(r, rec)
  BY <1>1, <1>2, AdmittedIsTyped
<1>4. QED
  BY <1>3, BecomesPlaced

LEMMA LostPlaced ==
  ASSUME ServerInv, ~ pgUp', UNCHANGED pool, NEW q \in Requests,
         \/ request'[q] = LoseSoundness[q]
         \/ request'[q] = NoRequest
  PROVE  Placed(q)'
<1>1. Placed(q) /\ request[q] \in RequestType
  BY AllPlaced DEF ServerInv, FadeInv, RequestsOK
<1>2. CASE request'[q] = NoRequest
  BY <1>2 DEF NoRequest, Placed
<1>3. CASE request'[q] = LoseSoundness[q]
  <2>1. /\ request'[q].phase = request[q].phase /\ request'[q].key = request[q].key
        /\ request'[q].sound = (request[q].phase # "reading")
    BY <1>1, <1>3 DEF LoseSoundness, RequestType
  <2>2. QED
    BY <1>1, <2>1 DEF Placed
<1>4. QED
  BY <1>2, <1>3

LEMMA WritesPlaced ==
  ASSUME ServerInv, NEW r \in Requests, NEW c, Writes(r, c), UNCHANGED pool,
         NEW q \in Requests
  PROVE  Placed(q)'
<1>1. CASE Becomes(r, NoRequest) /\ UNCHANGED pgUp
  BY <1>1, DonePlaced
<1>2. CASE pgUp' = FALSE /\ request' = [LoseSoundness EXCEPT ![r] = NoRequest]
  <2>1. request'[q] = NoRequest \/ request'[q] = LoseSoundness[q]
    BY <1>2 DEF LoseSoundness
  <2>2. QED
    BY <1>2, <2>1, LostPlaced
<1>3. QED
  BY <1>1, <1>2 DEF Writes, Done

\* A connection that a thread gets is one to a database that is up.
LEMMA ConnectsUp ==
  ASSUME ServerInv, Connects
  PROVE  pool = "open" /\ pgUp
BY DEF Connects, ServerInv, ConnectionsOK

LEMMA ReadKeyPlaced ==
  ASSUME ServerInv, NEW r \in Requests, ReadKey(r), NEW q \in Requests
  PROVE  Placed(q)'
<1>1. UNCHANGED <<pool, pgUp>>
  BY DEF ReadKey, database
<1>2. CASE Becomes(r, NoRequest)
  BY <1>1, <1>2, DonePlaced
<1>3. CASE Connects /\ Becomes(r, [request[r] EXCEPT !.phase = "reading",
                                     !.found = valid[request[r].key]])
  <2>1. request[r] \in RequestType /\ request'[q] \in RequestType \cup {request'[q]}
    BY DEF ServerInv, FadeInv, RequestsOK
  <2>2. CASE q = r
    <3>1. request'[r].phase = "reading"
      BY <1>3, <2>1 DEF Becomes, RequestType, ServerInv, FadeInv, RequestsOK
    <3>2. QED
      BY <1>1, <1>3, <2>2, <3>1, ConnectsUp DEF Placed
  <2>3. CASE q # r
    <3>1. request'[q] = request[q]
      BY <1>3, <2>3 DEF Becomes, ServerInv, FadeInv, RequestsOK
    <3>2. QED
      BY <1>1, <3>1, AllPlaced DEF Placed
  <2>4. QED
    BY <2>2, <2>3
<1>4. QED
  BY <1>2, <1>3 DEF ReadKey

LEMMA TickPlaced ==
  ASSUME ServerInv, Tick, NEW q \in Requests
  PROVE  Placed(q)'
<1>1. request[q] \in RequestType
  BY DEF ServerInv, FadeInv, RequestsOK
<1>2. request'[q] = [request[q] EXCEPT
                       !.lag = IF q \in Holding THEN request[q].lag + 1 ELSE request[q].lag]
  BY DEF Tick
<1>3. /\ request'[q].phase = request[q].phase /\ request'[q].key = request[q].key
      /\ request'[q].sound = request[q].sound
  BY <1>1, <1>2 DEF RequestType
<1>4. QED
  BY <1>3, AllPlaced DEF Tick, connections, Placed

LEMMA PlacedStep ==
  ASSUME ServerInv, [Next]_vars, NEW q \in Requests
  PROVE  Placed(q)'
<1>1. CASE UNCHANGED request /\ (pool = "open" => pool' = "open") /\ (pgUp => pgUp')
  BY <1>1, AllPlaced DEF Placed
<1>2. CASE \E r \in Requests, k \in Keys : Arrive(r, k)
  <2>1. PICK r \in Requests, k \in Keys : Arrive(r, k)
    BY <1>2
  <2>2. /\ UNCHANGED <<pool, pgUp>>
        /\ \/ Becomes(r, NoRequest)
           \/ \E p \in {"queued", "admitted"} :
                Becomes(r, [NoRequest EXCEPT !.phase = p, !.key = k])
    BY <2>1 DEF Arrive, Judged, database, connections
  <2>3. QED
    BY <2>2, DonePlaced, KeyedPlaced
<1>3. CASE \E r \in Requests : ReadKey(r)
  BY <1>3, ReadKeyPlaced
<1>4. CASE \E r \in Requests : Verified(r)
  <2>1. PICK r \in Requests : Verified(r)
    BY <1>4
  <2>2. /\ UNCHANGED <<pool, pgUp>> /\ request[r].key \in Keys
        /\ \/ Becomes(r, NoRequest)
           \/ Becomes(r, [NoRequest EXCEPT !.phase = "admitted", !.key = request[r].key])
    BY <2>1 DEF Verified, Judged, database, ServerInv, FadeInv, RequestsOK
  <2>3. QED
    BY <2>2, DonePlaced, KeyedPlaced
<1>5. CASE \E r \in Requests : VerifyFails(r)
  BY <1>5, DonePlaced DEF VerifyFails, database, connections
<1>6. CASE \E r \in Requests : SetActiveProfile(r) \/ \E v \in Versions : SetActiveVersion(r, v)
  BY <1>6, WritesPlaced DEF SetActiveProfile, SetActiveVersion
<1>7. CASE \E r \in Requests : CallTool(r) \/ \E asked \in Contexts : ReadResource(r, asked)
  BY <1>7, DonePlaced DEF CallTool, ReadResource, Done, database
<1>8. CASE PgDown
  <2>1. ~ pgUp' /\ UNCHANGED pool /\ request'[q] = LoseSoundness[q]
    BY <1>8 DEF PgDown, PgGone
  <2>2. QED
    BY <2>1, LostPlaced
<1>9. CASE Restart
  <2>1. request'[q] = NoRequest
    BY <1>9 DEF Restart
  <2>2. QED
    BY <2>1 DEF NoRequest, Placed
<1>10. CASE Tick
  BY <1>10, TickPlaced
<1>11. CASE Retry \/ HealthProbe \/ PgReturns \/ \E v \in Versions : Index(v)
  BY <1>1, <1>11 DEF Retry, HealthProbe, EnsurePg, PgReturns, Index, database, connections
<1>12. CASE UNCHANGED vars \/ \E k \in Keys : Deactivate(k)
  BY <1>1, <1>12 DEF vars, Deactivate, connections
<1>13. QED
  BY <1>2, <1>3, <1>4, <1>5, <1>6, <1>7, <1>8, <1>9, <1>10, <1>11, <1>12 DEF Next

\* What a statement, a thread that gives its connection back or a lost database
\* make of the connections.
ConnectionTypes ==
  /\ pgUp \in BOOLEAN /\ retrying \in BOOLEAN
  /\ pool \in {"none", "open"} /\ idle \in {"none", "live", "dead"}
  /\ idle = "live" => pgUp
  /\ pool = "none" => idle = "none"

LEMMA StatementKeeps ==
  ASSUME ServerInv, Runs \/ Raises \/ UNCHANGED idle, UNCHANGED <<pool, pgUp, retrying>>
  PROVE  ConnectionTypes'
BY ConnectsUp DEF Runs, Raises, ConnectionTypes, ServerInv, ConnectionsOK

LEMMA ConnectionsStep ==
  ASSUME ServerInv, [Next]_vars
  PROVE  ConnectionTypes'
<1>0. ConnectionTypes
  BY DEF ServerInv, ConnectionsOK, ConnectionTypes
<1>1. CASE UNCHANGED <<pgUp, connections>>
  BY <1>0, <1>1 DEF ConnectionTypes, connections
<1>2. CASE \E r \in Requests : ReadKey(r)
  <2>1. (Raises \/ idle' = "none") /\ UNCHANGED <<pool, pgUp, retrying>>
    BY <1>2 DEF ReadKey, database
  <2>2. QED
    BY <1>0, <2>1 DEF ConnectionTypes, Raises
<1>3. CASE \E r \in Requests : Verified(r)
  <2>1. PICK r \in Requests : Verified(r)
    BY <1>3
  <2>2. idle' = Returned(r) /\ UNCHANGED <<pool, pgUp, retrying>> /\ request[r].phase = "reading"
    BY <2>1 DEF Verified, database
  <2>3. pool = "open" /\ (request[r].sound => pgUp)
    BY <2>2, AllPlaced DEF Placed
  <2>4. QED
    BY <1>0, <2>2, <2>3 DEF Returned, ConnectionTypes
<1>4. CASE \E r \in Requests : SetActiveProfile(r) \/ \E v \in Versions : SetActiveVersion(r, v)
  <2>1. \E r \in Requests : \E c : Writes(r, c) /\ UNCHANGED <<pool, retrying>>
    BY <1>4 DEF SetActiveProfile, SetActiveVersion
  <2>2. CASE pgUp' = FALSE /\ idle' = "none"
    BY <1>0, <2>1, <2>2 DEF ConnectionTypes
  <2>3. CASE (Runs \/ Raises) /\ UNCHANGED pgUp
    BY <2>1, <2>3, StatementKeeps
  <2>4. QED
    BY <2>1, <2>2, <2>3 DEF Writes
<1>5. CASE \E r \in Requests : CallTool(r) \/ \E asked \in Contexts : ReadResource(r, asked)
  <2>1. UNCHANGED <<pool, pgUp, retrying>> /\ (Runs \/ Raises \/ UNCHANGED idle)
    BY <1>5 DEF CallTool, ReadResource, ReadsSession, database
  <2>2. QED
    BY <2>1, StatementKeeps
<1>6. CASE Retry \/ HealthProbe
  <2>1. UNCHANGED pgUp /\ retrying' \in BOOLEAN
    BY <1>0, <1>6 DEF Retry, HealthProbe, database, ConnectionTypes
  <2>2. CASE EnsurePg
    BY <1>0, <2>1, <2>2 DEF EnsurePg, ConnectionTypes
  <2>3. CASE UNCHANGED <<pool, idle>>
    BY <1>0, <2>1, <2>3 DEF ConnectionTypes
  <2>4. CASE pool = "open" /\ (Runs \/ Raises) /\ UNCHANGED pool
    BY <1>0, <2>1, <2>4, ConnectsUp DEF Runs, Raises, ConnectionTypes
  <2>5. QED
    BY <1>6, <2>2, <2>3, <2>4 DEF Retry, HealthProbe
<1>7. CASE PgDown \/ PgReturns
  <2>1. UNCHANGED <<pool, retrying>>
    BY <1>7 DEF PgDown, PgReturns, connections
  <2>2. QED
    BY <1>0, <1>7, <2>1 DEF PgDown, PgGone, PgReturns, connections, ConnectionTypes
<1>8. CASE Restart
  BY <1>0, <1>8 DEF Restart, database, ConnectionTypes
<1>9. CASE \/ \E r \in Requests : VerifyFails(r) \/ \E k \in Keys : Arrive(r, k)
           \/ \E k \in Keys : Deactivate(k)
           \/ \E v \in Versions : Index(v)
           \/ Tick \/ UNCHANGED vars
  BY <1>1, <1>9 DEF VerifyFails, Arrive, Deactivate, Index, Tick, vars, database, connections
<1>10. QED
  BY <1>2, <1>3, <1>4, <1>5, <1>6, <1>7, <1>8, <1>9 DEF Next


-----------------------------------------------------------------------------
(* Types, and resources that follow the context *)

LEMMA OutsideStep ==
  ASSUME ServerInv, [Next]_vars
  PROVE  OutsideOK'
<1>1. indexed' \subseteq Versions
  <2>1. CASE UNCHANGED indexed
    BY <2>1 DEF ServerInv, OutsideOK
  <2>2. CASE \E v \in Versions : Index(v)
    BY <2>2 DEF Index, ServerInv, OutsideOK
  <2>3. QED
    BY <2>1, <2>2 DEF Next, vars, database, Arrive, ReadKey, Verified, VerifyFails,
                      SetActiveVersion, SetActiveProfile, CallTool, ReadResource, Deactivate,
                      Retry, HealthProbe, PgDown, PgReturns, Restart, Tick
<1>2. events' \in 0 .. MaxEvents
  <2>1. Inside \/ Outside
    BY DEF Next, vars, Inside, Writes, Arrive, ReadKey, Verified, VerifyFails,
           SetActiveVersion, SetActiveProfile, CallTool, ReadResource, Deactivate,
           Index, Retry, HealthProbe, PgDown, PgReturns, Restart, Tick
  <2>2. QED
    BY <2>1, ServerAssumption DEF Inside, Outside, ServerInv, OutsideOK
<1>3. \A q \in Requests : request'[q].phase = "none" => request'[q].key = NoKey
  BY PlacedStep DEF Placed
<1>4. QED
  BY <1>1, <1>2, <1>3 DEF OutsideOK

\* Time lowers what is left of an entry and raises its age by as much.
LEMMA TickResources ==
  ASSUME ServerInv, Tick
  PROVE  ResourcesOK'
<1>1. /\ resources \in Seq(Entry) /\ DOMAIN resources = 1 .. Len(resources)
      /\ \A i \in DOMAIN resources : resources[i] \in Entry /\ Honest(resources[i])
  BY DEF ServerInv, ResourcesOK, Sound
<1>2. resources' = [i \in DOMAIN resources |-> [resources[i] EXCEPT
                      !.left = IF resources[i].left >= 0 THEN resources[i].left - 1 ELSE -1,
                      !.age = Capped(resources[i].age, ResourceTTL + 1)]]
  BY DEF Tick
<1>3. ASSUME NEW i \in DOMAIN resources
      PROVE  /\ resources'[i] \in Entry /\ Honest(resources'[i])
             /\ resources'[i].uri = resources[i].uri
  <2>1. PICK e \in Entry : e = resources[i]
    BY <1>1
  <2>2. /\ e.left \in -1 .. ResourceTTL /\ e.age \in 0 .. ResourceTTL + 1
        /\ ResourceTTL \in Nat
    BY ServerAssumption DEF Entry
  <2>3. PICK left : left = IF e.left >= 0 THEN e.left - 1 ELSE -1
    OBVIOUS
  <2>4. PICK age : age = Capped(e.age, ResourceTTL + 1)
    OBVIOUS
  <2>5. left \in -1 .. ResourceTTL /\ age \in 0 .. ResourceTTL + 1
    BY <2>2, <2>3, <2>4 DEF Capped
  <2>6. Honest(e)
    BY <1>1, <2>1
  <2>7. left >= 0 => age + left <= ResourceTTL
    BY <2>2, <2>3, <2>4, <2>6 DEF Capped, Honest
  <2>8. resources'[i] = [e EXCEPT !.left = left, !.age = age]
    BY <1>2, <2>1, <2>3, <2>4
  <2>9. PICK f : f = [e EXCEPT !.left = left, !.age = age]
    OBVIOUS
  <2>10. f \in Entry /\ f.left = left /\ f.age = age /\ f.uri = e.uri /\ f.body = e.body
    BY <2>5, <2>9 DEF Entry
  <2>11. Honest(f)
    BY <2>6, <2>7, <2>10 DEF Honest
  <2>12. QED
    BY <2>1, <2>8, <2>9, <2>10, <2>11
<1>4. Len(resources) \in Nat
  BY <1>1
<1>5. /\ resources' \in Seq(Entry) /\ Len(resources') = Len(resources)
      /\ DOMAIN resources' = DOMAIN resources
  <2>1. resources' \in [1 .. Len(resources) -> Entry]
    BY <1>1, <1>2, <1>3
  <2>2. resources' \in Seq(Entry)
    BY <1>4, <2>1, SeqDef
  <2>3. DOMAIN resources' = 1 .. Len(resources)
    BY <2>1
  <2>4. QED
    BY <1>1, <1>4, <2>2, <2>3
<1>6. \A i, j \in DOMAIN resources : resources[i].uri = resources[j].uri => i = j
  BY DEF ServerInv, ResourcesOK, Sound
<1>7. Sound(resources')
  BY <1>3, <1>5, <1>6 DEF Sound
<1>8. QED
  BY <1>5, <1>7 DEF ServerInv, ResourcesOK

LEMMA ReadResourceKeeps ==
  ASSUME ServerInv, NEW r \in Requests, NEW asked \in Contexts, ReadResource(r, asked)
  PROVE  ResourcesOK' /\ ResourcesFollowTheContext'
<1>1. PICK c \in Contexts : Serves(request[r].key, asked, c)
  BY DEF ReadResource, Contexts
<1>2. UNCHANGED indexed
  BY DEF ReadResource, database
<1>3. /\ ResourcesOK'
      /\ served'.body # NoVersion =>
           /\ served'.body = IF served'.asked # NoVersion THEN served'.asked
                                                          ELSE Resolved(served'.context)
           /\ served'.age <= ResourceTTL
  BY <1>1, ServesKeeps DEF ServerInv
<1>4. QED
  BY <1>2, <1>3 DEF ResourcesFollowTheContext, Resolved, Latest

LEMMA SilenceFollows ==
  ASSUME served' = Silence
  PROVE  ResourcesFollowTheContext'
<1>1. served'.body = NoVersion
  BY DEF Silence
<1>2. QED
  BY <1>1 DEF ResourcesFollowTheContext

LEMMA CallToolFollows ==
  ASSUME NEW r \in Requests, CallTool(r)
  PROVE  ResourcesFollowTheContext'
<1>1. PICK c : served' = [key |-> request[r].key, asked |-> NoVersion, context |-> c,
                          body |-> Resolved(c), age |-> 0]
  BY DEF CallTool
<1>2. UNCHANGED indexed
  BY DEF CallTool, database
<1>3. /\ served'.asked = NoVersion /\ served'.context = c
      /\ served'.body = Resolved(c) /\ served'.age = 0
  BY <1>1
<1>4. 0 <= ResourceTTL
  BY ServerAssumption
<1>5. QED
  BY <1>2, <1>3, <1>4 DEF ResourcesFollowTheContext, Resolved, Latest

LEMMA ResourcesStep ==
  ASSUME ServerInv, ResourcesFollowTheContext, [Next]_vars
  PROVE  ResourcesOK' /\ ResourcesFollowTheContext'
<1>1. CASE \E r \in Requests, asked \in Contexts : ReadResource(r, asked)
  BY <1>1, ReadResourceKeeps
<1>2. CASE UNCHANGED resources
  <2>1. ResourcesOK'
    BY <1>2 DEF ServerInv, ResourcesOK, Sound
  <2>2. CASE \E r \in Requests : CallTool(r)
    BY <2>1, <2>2, CallToolFollows
  <2>3. CASE served' = Silence
    BY <2>1, <2>3, SilenceFollows
  <2>4. CASE UNCHANGED vars
    BY <2>1, <2>4 DEF vars, ResourcesFollowTheContext, Resolved, Latest
  <2>5. CASE \E r \in Requests, asked \in Contexts : ReadResource(r, asked)
    BY <2>5, ReadResourceKeeps
  <2>6. QED
    BY <2>2, <2>3, <2>4, <2>5
       DEF Next, Arrive, ReadKey, Verified, VerifyFails, SetActiveVersion, SetActiveProfile,
           Deactivate, Index, Retry, HealthProbe, PgDown, PgReturns, Restart, Tick
<1>3. CASE Tick
  BY <1>3, TickResources, SilenceFollows DEF Tick
<1>4. CASE Restart
  <2>1. resources' = <<>> /\ served' = Silence
    BY <1>4 DEF Restart
  <2>2. QED
    BY <2>1, SilenceFollows, ServerAssumption DEF ResourcesOK, Sound
<1>5. QED
  BY <1>1, <1>2, <1>3, <1>4
     DEF Next, vars, caches, Arrive, ReadKey, Verified, VerifyFails, SetActiveVersion,
         SetActiveProfile, CallTool, Deactivate, Index, Retry, HealthProbe, PgDown, PgReturns

LEMMA ServerInit == Init => ServerInv /\ ResourcesFollowTheContext
<1>1. SUFFICES ASSUME Init PROVE ServerInv /\ ResourcesFollowTheContext
  OBVIOUS
<1>2. FadeInv /\ SessionsOK
  BY <1>1, FadeInit, SessionsInit
<1>3. \A q \in Requests : request[q].phase = "none" /\ request[q].key = NoKey
  BY <1>1 DEF Init, NoRequest
<1>4. ResourcesOK
  BY <1>1, ServerAssumption DEF Init, ResourcesOK, Sound
<1>5. ConnectionsOK
  BY <1>1, <1>3 DEF Init, ConnectionsOK
<1>6. OutsideOK
  BY <1>1, <1>3, ServerAssumption DEF Init, OutsideOK
<1>7. ResourcesFollowTheContext
  BY <1>1 DEF Init, Silence, ResourcesFollowTheContext
<1>8. QED
  BY <1>2, <1>4, <1>5, <1>6, <1>7 DEF ServerInv

LEMMA ServerStep ==
  ASSUME ServerInv, ResourcesFollowTheContext, [Next]_vars
  PROVE  ServerInv' /\ ResourcesFollowTheContext'
<1>1. FadeInv'
  BY FadeStep DEF ServerInv
<1>2. SessionsOK'
  BY SessionsStep DEF ServerInv, FadeInv
<1>3. ConnectionsOK'
  BY ConnectionsStep, PlacedStep DEF ConnectionTypes, Placed, ConnectionsOK
<1>4. QED
  BY <1>1, <1>2, <1>3, OutsideStep, ResourcesStep DEF ServerInv

THEOREM AlwaysServerInv == Spec => [](ServerInv /\ ResourcesFollowTheContext)
<1>1. Init => ServerInv /\ ResourcesFollowTheContext
  BY ServerInit
<1>2. ServerInv /\ ResourcesFollowTheContext /\ [Next]_vars
        => (ServerInv /\ ResourcesFollowTheContext)'
  BY ServerStep
<1>3. QED
  BY <1>1, <1>2, PTL DEF Spec

LEMMA ServerTypes ==
  ASSUME ServerInv
  PROVE  TypeOK
<1>1. \A r \in Requests : request[r].phase = "none" <=> request[r].key = NoKey
  BY ServerAssumption DEF ServerInv, FadeInv, RequestsOK, OutsideOK
<1>2. resources \in Seq([uri : Contexts, body : Versions, left : -1 .. ResourceTTL,
                         age : 0 .. ResourceTTL + 1])
  BY DEF ServerInv, ResourcesOK, Sound, Entry
<1>3. request \in [Requests -> [phase : {"none", "queued", "reading", "admitted"},
                                key : Keys \cup {NoKey}, found : BOOLEAN,
                                lag : 0 .. MaxLag, sound : BOOLEAN]]
  BY DEF ServerInv, FadeInv, RequestsOK, RequestType, Phases
<1>4. QED
  BY <1>1, <1>2, <1>3
     DEF TypeOK, ServerInv, FadeInv, KeysOK, SessionsOK, ResourcesOK, ConnectionsOK, OutsideOK

\* Types hold, and the connections fit the pool and the database, whatever the
\* pool, the outages and the restarts (PgPool, _ensure_pg, AuthMiddleware).
THEOREM TypeCorrect == Spec => []TypeOK
<1>1. ServerInv => TypeOK
  BY ServerTypes
<1>2. QED
  BY <1>1, AlwaysServerInv, PTL

\* For any versions, lifetimes and capacity, and any number of keys that read
\* resources through the one cache, a body that is returned is the one of the
\* version that was asked for, or that the context of the key stands for now, and
\* not older than the cache allows (resources.py, ResourceCache and the handlers).
THEOREM ResourcesAlwaysFollow == Spec => []ResourcesFollowTheContext
BY AlwaysServerInv, PTL

=============================================================================
