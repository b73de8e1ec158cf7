---------------------------- MODULE SessionsProofs ----------------------------
(***************************************************************************)
(* For any number of calls in flight, devices and sessions: a session that *)
(* was revoked does not come back but by the race of updateLastActivity, a *)
(* device that signed out stays out but for the answer of a refresh, the   *)
(* index lacks sessions by three races only, and every call ends.          *)
(***************************************************************************)
EXTENDS Sessions, FiniteSetTheorems, TLAPS

-----------------------------------------------------------------------------
(* Types, and what the slots of calls hold.                                *)

Creating == {"validate", "setEx", "sAdd"}

\* A record of a call when n sessions have been created.
SlotOK(q, n) ==
  /\ q \in CallRecords
  /\ q.pc # "idle" => q.device \in Devices
  /\ q.pc \in {"sAdd", "read", "user", "touch", "renew", "store", "del"} => q.sid # 0
  /\ q.pc \in Creating => q.op = "login"
  /\ q.sid <= n
  /\ q.members \subseteq 1 .. n

\* Every session anyone holds has been created.
Known ==
  /\ live \subseteq 1 .. created
  /\ index \subseteq 1 .. created
  /\ ended \subseteq 1 .. created
  /\ unlisted \subseteq 1 .. created
  /\ \A d \in Devices : device[d].sid <= created
  /\ \A c \in Calls : SlotOK(call[c], created)

\* A login under way has the number of its session in reserve.
Room == created + Cardinality(Logins) <= MaxSessions

Typed == TypeOK /\ Known /\ Room

LEMMA SlotType ==
  ASSUME Typed, NEW c \in Calls
  PROVE  /\ SlotOK(call[c], created)
         /\ call[c] \in CallRecords
         /\ call[c].pc \in PCs /\ call[c].op \in Ops
         /\ call[c].sid \in 0 .. created
         /\ call[c].members \subseteq 1 .. created
         /\ ~At(c, "idle") => call[c].device \in Devices
BY DEF Typed, TypeOK, Known, SlotOK, CallRecords, At

LEMMA IdleOK == \A n \in Nat : SlotOK(Idle, n)
BY SessionAssumption DEF SlotOK, Idle, CallRecords, PCs, Ops, Creating

\* A step writes one slot and leaves the others alone.
LEMMA OneSlot ==
  ASSUME Typed, NEW c \in Calls, NEW q, call' = [call EXCEPT ![c] = q]
  PROVE  call'[c] = q /\ \A b \in Calls \ {c} : call'[b] = call[b]
BY DEF Typed, TypeOK

LEMMA SlotStep ==
  ASSUME Typed, NEW c \in Calls, NEW q, call' = [call EXCEPT ![c] = q],
         created' \in Nat, created <= created', SlotOK(q, created')
  PROVE  /\ call' \in [Calls -> CallRecords]
         /\ \A b \in Calls : SlotOK(call'[b], created')
<1>1. created \in Nat
  BY SessionAssumption DEF Typed, TypeOK
<1>2. \A b \in Calls : SlotOK(call[b], created')
  BY <1>1 DEF Typed, Known, SlotOK, CallRecords
<1> QED BY <1>2, OneSlot DEF Typed, TypeOK, SlotOK

LEMMA LoginsFinite ==
  /\ IsFiniteSet(Logins)
  /\ Cardinality(Logins) \in Nat
<1>1. Logins \in SUBSET Calls
  BY DEF Logins
<1> QED BY <1>1, SessionAssumption, FS_Subset, FS_CardinalityType

\* A step that starts no login keeps the room there is.
LEMMA RoomKept ==
  ASSUME Typed, created' = created, Logins' \subseteq Logins
  PROVE  Room'
<1>1. Cardinality(Logins') <= Cardinality(Logins) /\ Cardinality(Logins') \in Nat
  BY LoginsFinite, FS_Subset, FS_CardinalityType
<1> QED BY <1>1, LoginsFinite, SessionAssumption DEF Typed, TypeOK, Room

LEMMA LoginsKept ==
  ASSUME Typed, NEW c \in Calls, NEW q, call' = [call EXCEPT ![c] = q],
         q.pc \notin {"validate", "setEx"} \/ c \in Logins
  PROVE  Logins' \subseteq Logins
BY OneSlot DEF Logins

-----------------------------------------------------------------------------
(* The types are kept: what is stored and what is remembered, apart from   *)
(* the slots, and then one lemma per group of actions.                     *)

Stored ==
  /\ live \subseteq 1 .. created
  /\ index \subseteq 1 .. created
  /\ device \in [Devices -> Stores]
  /\ \A d \in Devices : device[d].sid <= created

Remembered ==
  /\ banned \in BOOLEAN /\ unlisted \subseteq 1 .. created
  /\ ended \subseteq 1 .. created /\ raced \subseteq ended
  /\ quit \subseteq Devices /\ late \subseteq quit

LEMMA Parts == Typed => Stored /\ Remembered
BY DEF Typed, TypeOK, Known, Stored, Remembered

LEMMA TypedStep ==
  ASSUME Typed, NEW c \in Calls, NEW q, call' = [call EXCEPT ![c] = q],
         created' = created, SlotOK(q, created),
         q.pc \notin {"validate", "setEx"} \/ c \in Logins,
         Stored', Remembered'
  PROVE  Typed'
<1>1. created \in 0 .. MaxSessions
  BY DEF Typed, TypeOK
<1>2. /\ call' \in [Calls -> CallRecords]
      /\ \A b \in Calls : SlotOK(call'[b], created')
  <2>1. created' \in Nat /\ created <= created'
    BY <1>1, SessionAssumption
  <2>2. SlotOK(q, created')
    OBVIOUS
  <2> QED BY <2>1, <2>2, SlotStep
<1>3. Room'
  <2>1. Logins' \subseteq Logins
    BY LoginsKept
  <2> QED BY <2>1, RoomKept
<1>4. TypeOK'
  BY <1>1, <1>2, SessionAssumption DEF TypeOK, Stored, Remembered, Sids
<1>5. Known'
  BY <1>2 DEF Known, Stored, Remembered
<1> QED BY <1>3, <1>4, <1>5 DEF Typed

\* A slot that goes on to its next step, with nothing else in it changed.
LEMMA GotoOK ==
  ASSUME Typed, NEW c \in Calls, NEW pc \in PCs, call[c].pc # "idle",
         pc \in {"sAdd", "read", "user", "touch", "renew", "store", "del"} => call[c].sid # 0,
         pc \in Creating => call[c].op = "login"
  PROVE  /\ SlotOK([call[c] EXCEPT !.pc = pc], created)
         /\ [call[c] EXCEPT !.pc = pc].pc = pc
         /\ Goto(c, pc) <=> call' = [call EXCEPT ![c] = [call[c] EXCEPT !.pc = pc]]
<1>1. SlotOK([call[c] EXCEPT !.pc = pc], created) /\ [call[c] EXCEPT !.pc = pc].pc = pc
  BY SlotType DEF SlotOK, CallRecords
<1>2. Goto(c, pc) <=> call' = [call EXCEPT ![c] = [call[c] EXCEPT !.pc = pc]]
  BY DEF Goto, Typed, TypeOK
<1> QED BY <1>1, <1>2

LEMMA GotoType ==
  ASSUME Typed, NEW c \in Calls, NEW pc \in PCs, call[c].pc # "idle",
         pc \in {"sAdd", "read", "user", "touch", "renew", "store", "del"} => call[c].sid # 0,
         pc \in Creating => call[c].op = "login",
         pc \notin {"validate", "setEx"} \/ c \in Logins,
         Goto(c, pc), created' = created, Stored', Remembered'
  PROVE  Typed'
<1> DEFINE q == [call[c] EXCEPT !.pc = pc]
<1>1. SlotOK(q, created) /\ q.pc = pc /\ call' = [call EXCEPT ![c] = q]
  BY GotoOK
<1> HIDE DEF q
<1> QED BY <1>1, TypedStep

LEMMA EndType ==
  ASSUME Typed, NEW c \in Calls, End(c), created' = created, Stored', Remembered'
  PROVE  Typed'
<1>1. created \in Nat
  BY SessionAssumption DEF Typed, TypeOK
<1>2. SlotOK(Idle, created)
  BY <1>1, IdleOK
<1>3. Idle.pc = "idle"
  BY DEF Idle
<1> QED BY <1>2, <1>3, TypedStep DEF End

LEMMA SignOutType ==
  ASSUME Typed, NEW c \in Calls, NEW d \in Devices, SignOutOf(c, d), created' = created,
         live' \subseteq 1 .. created, index' \subseteq 1 .. created,
         UNCHANGED <<banned, ended, raced>>, unlisted' \subseteq 1 .. created
  PROVE  Typed'
<1>1. NoTokens \in Stores /\ NoTokens.sid = 0
  BY SessionAssumption DEF NoTokens, Stores
<1>2. Stored'
  BY <1>1, Parts, SessionAssumption DEF SignOutOf, Cleared, Stored, Typed, TypeOK
<1>3. Remembered'
  BY Parts DEF Remembered, SignOutOf
<1> QED BY <1>2, <1>3, EndType DEF SignOutOf

LEMMA SignOutOwn ==
  ASSUME Typed, NEW c \in Calls, call[c].pc # "idle", SignOut(c), created' = created,
         live' \subseteq 1 .. created, index' \subseteq 1 .. created,
         UNCHANGED <<banned, ended, raced>>, unlisted' \subseteq 1 .. created
  PROVE  Typed'
BY SlotType, SignOutType DEF SignOut, At

LEMMA RequestType ==
  ASSUME Typed, NEW c \in Calls, NEW d \in Devices, NEW op \in Ops,
         NEW retried \in BOOLEAN, Request(c, d, op, retried)
  PROVE  Typed'
<1> DEFINE q(pc) == [Idle EXCEPT !.pc = pc, !.op = op, !.device = d, !.sid = device[d].sid]
<1>1. /\ device[d].sid \in 0 .. MaxSessions /\ device[d].sid <= created
      /\ device[d].token = "stale" => device[d].sid # 0
  BY SessionAssumption DEF Typed, TypeOK, Known, Stores, NoTokens, Sids
<1>2. ASSUME NEW pc \in {"find", "members", "read"}, call' = [call EXCEPT ![c] = q(pc)],
             pc = "read" => device[d].sid # 0,
             UNCHANGED <<redis, banned, device, history>>
      PROVE  Typed'
  <2>1. SlotOK(q(pc), created) /\ q(pc).pc = pc
    BY <1>1, <1>2 DEF SlotOK, CallRecords, PCs, Serving, Refreshing, Revoking, Creating,
       Idle, Ops
  <2>2. Stored' /\ Remembered' /\ created' = created
    BY <1>2, Parts DEF Stored, Remembered, redis, history
  <2> HIDE DEF q
  <2> QED BY <1>2, <2>1, <2>2, TypedStep
<1>3. ASSUME End(c), UNCHANGED <<redis, banned, device, history>> PROVE Typed'
  <2>1. Stored' /\ Remembered' /\ created' = created
    BY <1>3, Parts DEF Stored, Remembered, redis, history
  <2> QED BY <1>3, <2>1, EndType
<1>4. ASSUME SignOutOf(c, d), UNCHANGED <<redis, banned, ended, raced, unlisted>> PROVE Typed'
  BY <1>4, Parts, SignOutType DEF redis, Stored, Remembered
<1>5. Handler(op) \in {"find", "members"}
  BY DEF Handler
<1>6. UNCHANGED <<redis, banned, ended, raced, unlisted>>
  BY DEF Request
<1>7. CASE /\ device[d].token = "fresh"
           /\ IF op = "get" THEN End(c) ELSE call' = [call EXCEPT ![c] = q(Handler(op))]
           /\ UNCHANGED <<device, quit, late>>
  BY <1>2, <1>3, <1>5, <1>6, <1>7 DEF history
<1>8. CASE /\ MayRefresh(device[d].token, retried)
           /\ call' = [call EXCEPT ![c] = q("read")] /\ UNCHANGED <<device, quit, late>>
  BY <1>1, <1>2, <1>6, <1>8 DEF history, MayRefresh
<1>9. CASE IF op = "logout" THEN SignOutOf(c, d)
           ELSE End(c) /\ UNCHANGED <<device, quit, late>>
  BY <1>3, <1>4, <1>6, <1>9 DEF history
<1> QED BY <1>7, <1>8, <1>9 DEF Request

LEMMA BeginLoginType ==
  ASSUME Typed, NEW c \in Calls, BeginLogin(c) PROVE Typed'
<1>1. PICK d \in Devices :
        /\ created + Cardinality(Logins) < MaxSessions
        /\ call' = [call EXCEPT ![c] =
                      [Idle EXCEPT !.pc = "validate", !.op = "login", !.device = d]]
  BY DEF BeginLogin
<1> DEFINE q == [Idle EXCEPT !.pc = "validate", !.op = "login", !.device = d]
<1>2. created \in 0 .. MaxSessions /\ created' = created
      /\ UNCHANGED <<redis, banned, device, history>>
  BY DEF BeginLogin, Typed, TypeOK, redis
<1>4. SlotOK(q, created)
  <2>1. Idle \in CallRecords
    BY IdleOK DEF SlotOK
  <2>2. /\ q \in CallRecords /\ q.pc = "validate" /\ q.device = d
        /\ q.op = "login" /\ q.sid = 0 /\ q.members = {}
    BY <1>1, <2>1 DEF CallRecords, PCs, Serving, Ops, Idle
  <2> HIDE DEF q
  <2> QED BY <1>1, <1>2, <2>2, SessionAssumption DEF SlotOK
<1> HIDE DEF q
<1>5. /\ call' \in [Calls -> CallRecords]
      /\ \A b \in Calls : SlotOK(call'[b], created')
  <2>1. created' \in Nat /\ created <= created' /\ SlotOK(q, created')
    BY <1>2, <1>4, SessionAssumption
  <2> QED BY <1>1, <2>1, SlotStep DEF q
<1>6. Room'
  <2>1. Logins' \in SUBSET (Logins \union {c})
    BY <1>1, OneSlot DEF Logins, q
  <2>2. /\ IsFiniteSet(Logins \union {c})
        /\ Cardinality(Logins \union {c}) <= Cardinality(Logins) + 1
        /\ Cardinality(Logins \union {c}) \in Nat
    <3>1. /\ IsFiniteSet(Logins \union {c})
          /\ Cardinality(Logins \union {c}) =
               IF c \in Logins THEN Cardinality(Logins) ELSE Cardinality(Logins) + 1
      BY LoginsFinite, FS_AddElement
    <3> QED BY <3>1, LoginsFinite
  <2>3. Cardinality(Logins') <= Cardinality(Logins) + 1 /\ Cardinality(Logins') \in Nat
    <3>1. Cardinality(Logins') <= Cardinality(Logins \union {c}) /\ Cardinality(Logins') \in Nat
      BY <2>1, <2>2, FS_Subset, FS_CardinalityType
    <3> QED BY <2>2, <3>1, LoginsFinite
  <2> QED BY <1>1, <1>2, <2>3, LoginsFinite, SessionAssumption DEF Room
<1>7. TypeOK' /\ Known'
  BY <1>2, <1>5 DEF Typed, TypeOK, Known, redis, history
<1> QED BY <1>6, <1>7 DEF Typed

LEMMA SetExType ==
  ASSUME Typed, NEW c \in Calls, SetEx(c) PROVE Typed'
<1> DEFINE q == [call[c] EXCEPT !.pc = "sAdd", !.sid = created + 1]
<1>1. c \in Logins /\ call[c].pc # "idle"
  BY DEF SetEx, Logins, At
<1>2. Cardinality(Logins) \in Nat \ {0}
  BY <1>1, LoginsFinite, FS_EmptySet
<1>3. created' = created + 1 /\ created' \in 0 .. MaxSessions /\ created \in Nat
  BY <1>2, SessionAssumption DEF SetEx, Typed, TypeOK, Room
<1>4. call' = [call EXCEPT ![c] = q]
  BY DEF SetEx, Typed, TypeOK
<1>5. SlotOK(q, created')
  <2>1. /\ q \in CallRecords /\ q.pc = "sAdd" /\ q.sid = created + 1
        /\ q.device = call[c].device /\ q.members = call[c].members /\ q.op = call[c].op
    BY <1>3, SlotType, SessionAssumption DEF CallRecords, PCs, Serving
  <2>2. /\ call[c].device \in Devices /\ call[c].members \subseteq 1 .. created
        /\ call[c].op = "login"
    BY <1>1, SlotType DEF At, SetEx, SlotOK, Creating
  <2> HIDE DEF q
  <2> QED BY <1>3, <2>1, <2>2, SessionAssumption DEF SlotOK
<1> HIDE DEF q
<1>6. /\ call' \in [Calls -> CallRecords]
      /\ \A b \in Calls : SlotOK(call'[b], created')
  <2>1. created' \in Nat /\ created <= created'
    BY <1>3, SessionAssumption
  <2> QED BY <1>4, <1>5, <2>1, SlotStep
<1>7. Room'
  <2>1. Logins' \in SUBSET (Logins \ {c})
    <3>1. q.pc = "sAdd"
      BY SlotType DEF q, CallRecords
    <3> QED BY <1>4, <3>1, OneSlot DEF Logins
  <2>2. /\ IsFiniteSet(Logins \ {c})
        /\ Cardinality(Logins \ {c}) = Cardinality(Logins) - 1
    BY <1>1, LoginsFinite, FS_RemoveElement
  <2>3. Cardinality(Logins') <= Cardinality(Logins \ {c}) /\ Cardinality(Logins') \in Nat
    BY <2>1, <2>2, FS_Subset, FS_CardinalityType
  <2> QED BY <1>2, <1>3, <2>2, <2>3, SessionAssumption DEF Room, Typed
<1>8. TypeOK'
  BY <1>3, <1>6, SessionAssumption DEF SetEx, Typed, TypeOK, Sids, history
<1>9. Known'
  <2>1. created <= created' /\ \A d \in Devices : device[d].sid \in Nat /\ device[d].sid <= created
    BY <1>3, SessionAssumption DEF Typed, TypeOK, Known, Stores, NoTokens, Sids
  <2> QED BY <1>3, <1>6, <2>1, SessionAssumption DEF SetEx, Typed, TypeOK, Known, history
<1> QED BY <1>7, <1>8, <1>9 DEF Typed

LEMMA StoreType ==
  ASSUME Typed, NEW c \in Calls, Store(c) PROVE Typed'
<1> DEFINE d == call[c].device
           s == [sid |-> call[c].sid, token |-> "fresh"]
<1>1. call[c].pc = "store" /\ d \in Devices
  BY SlotType DEF Store, At
<1>2. s \in Stores /\ s.sid <= created
  BY <1>1, SlotType, SessionAssumption DEF Stores, Sids, CallRecords, SlotOK, Typed, TypeOK
<1>3. device' = [device EXCEPT ![d] = s] /\ UNCHANGED <<redis, banned, ended, raced, unlisted>>
  BY DEF Store
<1> HIDE DEF s
<1>4. Stored' /\ created' = created
  BY <1>1, <1>2, <1>3, Parts DEF Stored, redis
<1>5. ASSUME End(c), quit' = quit \ {d}, late' = late \ {d} PROVE Typed'
  <2>1. Remembered'
    BY <1>3, <1>5, Parts DEF Remembered, redis
  <2> QED BY <1>4, <1>5, <2>1, EndType
<1>6. ASSUME Goto(c, "again"), UNCHANGED <<quit, late>> PROVE Typed'
  <2>1. Remembered'
    BY <1>3, <1>6, Parts DEF Remembered, redis
  <2> QED BY <1>1, <1>4, <1>6, <2>1, GotoType DEF PCs, Creating
<1> QED BY <1>5, <1>6 DEF Store

\* Steps of a handler that write neither a device nor the history.
LEMMA HandlerType ==
  ASSUME Typed, NEW c \in Calls,
         \/ Validate(c) \/ SAdd(c) \/ ReadUser(c) \/ Touch(c) \/ Renew(c)
         \/ Members(c)
  PROVE  Typed'
<1>1. created' = created /\ UNCHANGED <<banned, device, history>>
  BY DEF Validate, SAdd, ReadUser, Touch, Renew, Members, redis
<1>2. Remembered'
  BY <1>1, Parts DEF Remembered, history
<1>3. ASSUME live' \subseteq 1 .. created, index' \subseteq 1 .. created PROVE Stored'
  BY <1>1, <1>3, Parts DEF Stored
<1>4. CASE Validate(c)
  <2>1. Stored' /\ call[c].pc = "validate" /\ c \in Logins /\ call[c].op = "login"
    BY <1>3, <1>4, Parts, SlotType DEF Validate, At, Logins, redis, Stored, SlotOK, Creating
  <2>2. End(c) \/ Goto(c, "setEx")
    BY <1>4 DEF Validate
  <2> QED BY <1>1, <1>2, <2>1, <2>2, EndType, GotoType DEF PCs, Serving
<1>5. CASE SAdd(c)
  <2>1. call[c].pc = "sAdd" /\ call[c].sid \in 1 .. created
    BY <1>5, SlotType, SessionAssumption DEF SAdd, At, SlotOK
  <2>2. Stored'
    BY <1>3, <1>5, <2>1, Parts DEF SAdd, Stored
  <2> QED BY <1>1, <1>2, <1>5, <2>1, <2>2, GotoType DEF SAdd, PCs, Creating
<1>6. CASE ReadUser(c)
  <2>1. Stored' /\ call[c].pc = "user" /\ call[c].sid # 0
    BY <1>3, <1>6, SlotType, Parts DEF ReadUser, At, redis, Stored, SlotOK
  <2>2. Goto(c, "find") \/ Goto(c, "touch")
    BY <1>6 DEF ReadUser
  <2> QED BY <1>1, <1>2, <2>1, <2>2, GotoType DEF PCs, Serving, Refreshing, Revoking, Creating
<1>7. CASE Touch(c)
  <2>1. Stored' /\ call[c].pc = "touch" /\ call[c].sid # 0
    BY <1>3, <1>7, SlotType, Parts DEF Touch, At, redis, Stored, SlotOK
  <2>2. Goto(c, "renew") \/ Goto(c, "store")
    BY <1>7 DEF Touch, AfterTouch
  <2> QED BY <1>1, <1>2, <2>1, <2>2, GotoType DEF PCs, Serving, Refreshing, Creating
<1>8. CASE Renew(c)
  <2>1. call[c].pc = "renew" /\ call[c].sid \in 1 .. created
    BY <1>8, SlotType, SessionAssumption DEF Renew, At, SlotOK
  <2>2. Stored'
    BY <1>3, <1>8, <2>1, Parts DEF Renew, Stored
  <2> QED BY <1>1, <1>2, <1>8, <2>1, <2>2, GotoType DEF Renew, PCs, Creating
<1>9. CASE Members(c)
  <2>1. Stored' /\ call[c].pc = "members"
    BY <1>3, <1>9, Parts DEF Members, At, redis, Stored
  <2>2. CASE End(c)
    BY <1>1, <1>2, <2>1, <2>2, EndType
  <2>3. CASE call' = [call EXCEPT ![c].members = index, ![c].pc = "delAll"]
    <3> DEFINE q == [call[c] EXCEPT !.members = index, !.pc = "delAll"]
    <3>1. call' = [call EXCEPT ![c] = q]
      BY <2>3 DEF Typed, TypeOK
    <3>2. /\ q \in CallRecords /\ q.pc = "delAll" /\ q.device = call[c].device
          /\ q.sid = call[c].sid /\ q.members = index
      BY SlotType DEF CallRecords, PCs, Serving, Typed, TypeOK
    <3> HIDE DEF q
    <3>3. SlotOK(q, created)
      BY <2>1, <3>2, SlotType, Parts DEF SlotOK, Stored, Creating
    <3> QED BY <1>1, <1>2, <2>1, <3>1, <3>2, <3>3, TypedStep
  <2> QED BY <1>9, <2>2, <2>3 DEF Members
<1> QED BY <1>4, <1>5, <1>6, <1>7, <1>8, <1>9

LEMMA DelIndexType ==
  ASSUME Typed, NEW c \in Calls, DelIndex(c) PROVE Typed'
BY EndType, Parts DEF DelIndex, Stored, Remembered

\* Steps that revoke a session, or find none.
LEMMA RevokingType ==
  ASSUME Typed, NEW c \in Calls,
         \/ ReadSession(c) \/ Find(c) \/ Del(c) \/ SRem(c) \/ DelAll(c)
  PROVE  Typed'
<1>1. /\ created' = created /\ banned' = banned /\ unlisted' = unlisted
      /\ unlisted \subseteq 1 .. created
  BY Parts DEF ReadSession, Find, Del, SRem, DelAll, redis, Remembered
<1>2. call[c].pc # "idle" /\ call[c].sid \in 0 .. created
  BY SlotType DEF ReadSession, Find, Del, SRem, DelAll, At
<1>3. ASSUME UNCHANGED redis, UNCHANGED <<device, quit, late, ended, raced>>
      PROVE  Stored' /\ Remembered'
  BY <1>1, <1>3, Parts DEF Stored, Remembered, redis
<1>4. ASSUME NEW sids \in SUBSET (1 .. created), Revoke(sids), UNCHANGED <<index, device, quit, late>>
      PROVE  Stored' /\ Remembered'
  BY <1>1, <1>4, Parts DEF Stored, Remembered, Revoke
<1>5. CASE ReadSession(c)
  <2>1. UNCHANGED redis /\ UNCHANGED <<ended, raced>>
    BY <1>5 DEF ReadSession, redis
  <2>2. CASE Goto(c, "user") /\ UNCHANGED <<device, quit, late>>
    <3>1. call[c].sid # 0
      BY <1>5, SlotType DEF ReadSession, At, SlotOK
    <3> QED BY <1>1, <1>2, <1>3, <2>1, <2>2, <3>1, GotoType DEF PCs, Serving, Refreshing, Creating
  <2>3. CASE SignOut(c)
    BY <1>1, <1>2, <2>1, <2>3, SignOutOwn, Parts DEF redis, Stored
  <2> QED BY <1>5, <2>2, <2>3 DEF ReadSession
<1>6. CASE Find(c)
  <2>1. UNCHANGED redis /\ UNCHANGED <<ended, raced>>
    BY <1>6 DEF Find, redis
  <2>2. CASE call[c].sid \in live /\ Goto(c, "del") /\ UNCHANGED <<device, quit, late>>
    <3>1. call[c].sid # 0
      BY <2>2, Parts DEF Stored
    <3> QED BY <1>1, <1>2, <1>3, <2>1, <2>2, <3>1, GotoType DEF PCs, Serving, Revoking, Creating
  <2>3. CASE SignOut(c)
    BY <1>1, <1>2, <2>1, <2>3, SignOutOwn, Parts DEF redis, Stored
  <2> QED BY <1>6, <2>2, <2>3 DEF Find
<1>7. CASE Del(c)
  <2>1. {call[c].sid} \in SUBSET (1 .. created)
    BY <1>2, <1>7, SlotType, SessionAssumption DEF Del, At, SlotOK, Typed, TypeOK
  <2>2. Stored' /\ Remembered'
    BY <1>4, <1>7, <2>1 DEF Del
  <2> QED BY <1>1, <1>2, <1>7, <2>2, GotoType DEF Del, PCs, Serving, Revoking, Creating
<1>8. CASE SRem(c)
  BY <1>1, <1>2, <1>8, SignOutOwn, Parts DEF SRem, Stored
<1>9. CASE DelAll(c)
  <2>1. Revoked(c) \in SUBSET (1 .. created)
    BY SlotType DEF Revoked
  <2>2. Stored' /\ Remembered'
    BY <1>4, <1>9, <2>1 DEF DelAll
  <2> DEFINE q == [call[c] EXCEPT !.pc = "delIndex", !.sid = 0]
  <2>3. /\ q \in CallRecords /\ q.pc = "delIndex" /\ q.device = call[c].device
        /\ q.sid = 0 /\ q.members = call[c].members
    <3>1. 0 \in 0 .. MaxSessions /\ call[c] \in CallRecords
      BY SlotType, SessionAssumption
    <3> QED BY <3>1 DEF CallRecords, PCs, Serving
  <2>4. call' = [call EXCEPT ![c] = q]
    BY <1>9 DEF DelAll, Typed, TypeOK
  <2> HIDE DEF q
  <2>5. SlotOK(q, created)
    BY <1>2, <2>3, SlotType DEF SlotOK, At, Typed, TypeOK, Creating
  <2> QED BY <1>1, <2>2, <2>3, <2>4, <2>5, TypedStep
<1> QED BY <1>5, <1>6, <1>7, <1>8, <1>9

LEMMA CrashType ==
  ASSUME Typed, NEW c \in Calls, Crash(c) PROVE Typed'
<1>1. /\ call[c].pc # "idle"
      /\ UNCHANGED <<redis, banned, ended, raced>> /\ created' = created
  BY DEF Crash, Serving, Refreshing, Revoking, redis
<1>4. unlisted' \subseteq 1 .. created
  <2>1. At(c, "sAdd") => call[c].sid \in 1 .. created
    BY SlotType, SessionAssumption DEF At, SlotOK, Typed, TypeOK
  <2> QED BY <2>1, Parts DEF Crash, Remembered
<1>2. CASE SignOut(c)
  BY <1>1, <1>2, <1>4, SignOutOwn, Parts DEF redis, Stored
<1>3. CASE End(c) /\ UNCHANGED <<device, quit, late>>
  <2>1. Stored' /\ Remembered'
    BY <1>1, <1>3, <1>4, Parts DEF Stored, Remembered, redis
  <2> QED BY <1>1, <1>3, <2>1, EndType
<1> QED BY <1>2, <1>3 DEF Crash

LEMMA BeginCallType ==
  ASSUME Typed, NEW c \in Calls, BeginCall(c) \/ SendAgain(c)
  PROVE  Typed'
<1>1. ASSUME BeginCall(c) PROVE Typed'
  BY <1>1, RequestType DEF BeginCall
<1>2. ASSUME SendAgain(c) PROVE Typed'
  <2>1. call[c].device \in Devices /\ call[c].op \in Ops
    BY <1>2, SlotType DEF SendAgain, At
  <2> QED BY <1>2, <2>1, RequestType DEF SendAgain
<1> QED BY <1>1, <1>2

\* What happens without a call leaves the slots alone.
LEMMA OutsideType ==
  ASSUME Typed,
         \/ \E d \in Devices : TokenExpires(d)
         \/ \E s \in Sids : KeyExpires(s)
         \/ Ban
  PROVE  Typed'
<1>1. CASE \E d \in Devices : TokenExpires(d)
  <2>1. PICK d \in Devices : TokenExpires(d)
    BY <1>1
  <2>2. /\ device' \in [Devices -> Stores]
        /\ \A x \in Devices : device'[x].sid = device[x].sid
    BY <2>1 DEF TokenExpires, Typed, TypeOK, Stores, NoTokens
  <2> QED BY <2>1, <2>2 DEF TokenExpires, Typed, TypeOK, Known, Room, Logins, redis, history
<1>2. CASE \E s \in Sids : KeyExpires(s)
  BY <1>2 DEF KeyExpires, Typed, TypeOK, Known, Room, Logins, history
<1>3. CASE Ban
  BY <1>3 DEF Ban, Typed, TypeOK, Known, Room, Logins, redis, history
<1> QED BY <1>1, <1>2, <1>3

LEMMA InitTyped == Init => Typed
<1> SUFFICES ASSUME Init PROVE Typed
  OBVIOUS
<1>1. NoTokens \in Stores /\ NoTokens.sid = 0 /\ SlotOK(Idle, 0) /\ Idle \in CallRecords
  BY IdleOK, SessionAssumption DEF NoTokens, Stores, SlotOK
<1>2. Cardinality(Logins) = 0
  <2>1. Logins = {}
    BY DEF Init, Logins, Idle
  <2> QED BY <2>1, FS_EmptySet
<1>3. TypeOK
  <2>1. created \in 0 .. MaxSessions
    BY SessionAssumption DEF Init
  <2>2. call \in [Calls -> CallRecords] /\ device \in [Devices -> Stores]
    BY <1>1 DEF Init
  <2>3. banned \in BOOLEAN
    BY DEF Init
  <2> QED BY <2>1, <2>2, <2>3 DEF Init, TypeOK
<1>4. Known /\ Room
  BY <1>1, <1>2, SessionAssumption DEF Init, Known, Room
<1> QED BY <1>3, <1>4 DEF Typed

LEMMA NextTyped == Typed /\ [Next]_vars => Typed'
<1> SUFFICES ASSUME Typed, [Next]_vars PROVE Typed'
  OBVIOUS
<1>1. CASE UNCHANGED vars
  BY <1>1 DEF vars, redis, history, Typed, TypeOK, Known, Room, Logins
<1>2. ASSUME NEW c \in Calls, BeginLogin(c) \/ BeginCall(c) \/ Step(c) \/ Crash(c)
      PROVE  Typed'
  BY <1>2, BeginLoginType, BeginCallType, StoreType, SetExType, HandlerType, DelIndexType,
     RevokingType, CrashType DEF Step
<1> QED BY <1>1, <1>2, OutsideType DEF Next

\* The keys of Redis, the stores of the devices and the records of the calls keep
\* their types, and no more sessions are created than there are numbers for.
THEOREM SessionsTypeCorrect == Spec => []TypeOK
<1>1. Typed => TypeOK
  BY DEF Typed
<1> QED BY <1>1, InitTyped, NextTyped, PTL DEF Spec

LEMMA AlwaysTyped == Spec => []Typed
BY InitTyped, NextTyped, PTL DEF Spec

-----------------------------------------------------------------------------
(* What a step does to the slots: it writes one of them at most.           *)

LEMMA StepSlots ==
  ASSUME Typed, NEW c \in Calls, BeginLogin(c) \/ BeginCall(c) \/ Step(c) \/ Crash(c)
  PROVE  \A b \in Calls \ {c} : call'[b] = call[b]
<1>1. \E q : call' = [call EXCEPT ![c] = q]
  BY DEF BeginLogin, BeginCall, Step, Crash, SendAgain, Request, SignOut, SignOutOf, End,
     Goto, Store, Validate, SetEx, SAdd, ReadSession, ReadUser, Touch, Renew, Find, Del,
     SRem, Members, DelAll, DelIndex, Typed, TypeOK
<1> QED BY <1>1, OneSlot

\* A slot that goes on keeps its call and its session; one that ends is idle.
LEMMA GotoSlot ==
  ASSUME Typed, NEW c \in Calls, NEW pc, Goto(c, pc)
  PROVE  /\ call'[c].pc = pc /\ call'[c].sid = call[c].sid /\ call'[c].op = call[c].op
         /\ call'[c].device = call[c].device /\ call'[c].members = call[c].members
BY DEF Goto, Typed, TypeOK, CallRecords

LEMMA EndSlot ==
  ASSUME Typed, NEW c \in Calls, End(c) PROVE call'[c] = Idle /\ call'[c].pc = "idle"
BY DEF End, Typed, TypeOK, Idle

LEMMA SignOutSlot ==
  ASSUME Typed, NEW c \in Calls, NEW d, SignOut(c) \/ SignOutOf(c, d)
  PROVE  call'[c] = Idle /\ call'[c].pc = "idle"
<1>1. End(c)
  BY DEF SignOut, SignOutOf
<1> QED BY <1>1, EndSlot

LEMMA LoginSlot ==
  ASSUME Typed, NEW c \in Calls, BeginLogin(c)
  PROVE  call'[c].pc = "validate" /\ call'[c].op = "login"
<1>1. PICK d \in Devices :
        call' = [call EXCEPT ![c] =
                  [Idle EXCEPT !.pc = "validate", !.op = "login", !.device = d]]
  BY DEF BeginLogin
<1>2. call'[c] = [Idle EXCEPT !.pc = "validate", !.op = "login", !.device = d]
  BY <1>1 DEF Typed, TypeOK
<1> QED BY <1>2 DEF Idle

LEMMA SetExSlot ==
  ASSUME Typed, NEW c \in Calls, SetEx(c)
  PROVE  /\ call'[c].pc = "sAdd" /\ call'[c].sid = created + 1
         /\ call'[c].op = call[c].op /\ call'[c].device = call[c].device
BY DEF SetEx, Typed, TypeOK, CallRecords

LEMMA MembersSlot ==
  ASSUME Typed, NEW c \in Calls, Members(c)
  PROVE  \/ call'[c] = Idle /\ call'[c].pc = "idle"
         \/ /\ call'[c].pc = "delAll" /\ call'[c].members = index
            /\ call'[c].op = call[c].op /\ call'[c].device = call[c].device
<1>1. CASE End(c)
  BY <1>1, EndSlot
<1>2. CASE call' = [call EXCEPT ![c].members = index, ![c].pc = "delAll"]
  BY <1>2 DEF Typed, TypeOK, CallRecords
<1> QED BY <1>1, <1>2 DEF Members

LEMMA DelAllSlot ==
  ASSUME Typed, NEW c \in Calls, DelAll(c)
  PROVE  /\ call'[c].pc = "delIndex" /\ call'[c].op = call[c].op
         /\ call'[c].device = call[c].device /\ call'[c].members = call[c].members
BY DEF DelAll, Typed, TypeOK, CallRecords

\* A request leaves the slot idle or with a handler for it.
LEMMA RequestSlot ==
  ASSUME Typed, NEW c \in Calls, NEW d, NEW op, NEW retried \in BOOLEAN, Request(c, d, op, retried)
  PROVE  /\ \/ call'[c] = Idle /\ call'[c].pc = "idle"
            \/ /\ call'[c].pc \in {"find", "members", "read"}
               /\ call'[c].device = d /\ call'[c].op = op
         /\ retried => call'[c].pc # "read"
         /\ (quit' = quit /\ late' = late /\ device' = device) \/ SignOutOf(c, d)
<1> DEFINE q(pc) == [Idle EXCEPT !.pc = pc, !.op = op, !.device = d, !.sid = device[d].sid]
<1>1. ASSUME NEW pc, call' = [call EXCEPT ![c] = q(pc)]
      PROVE  call'[c].pc = pc /\ call'[c].device = d /\ call'[c].op = op
  <2>1. call'[c] = q(pc)
    BY <1>1 DEF Typed, TypeOK
  <2> QED BY <2>1 DEF Idle
<1>2. Handler(op) \in {"find", "members"}
  BY DEF Handler
<1>3. CASE /\ IF op = "get" THEN End(c) ELSE call' = [call EXCEPT ![c] = q(Handler(op))]
           /\ UNCHANGED <<device, quit, late>>
  BY <1>1, <1>2, <1>3, EndSlot
<1>4. CASE /\ MayRefresh(device[d].token, retried) /\ call' = [call EXCEPT ![c] = q("read")]
           /\ UNCHANGED <<device, quit, late>>
  BY <1>1, <1>4 DEF MayRefresh
<1>5. CASE IF op = "logout" THEN SignOutOf(c, d)
           ELSE End(c) /\ UNCHANGED <<device, quit, late>>
  BY <1>5, EndSlot, SignOutSlot
<1> QED BY <1>3, <1>4, <1>5 DEF Request

-----------------------------------------------------------------------------
(* A revoked session stays revoked: the write of updateLastActivity that   *)
(* is still to come is the only one that can bring a session back, and     *)
(* whoever revokes a session notes that it stands there.                   *)

RenewNoted ==
  \A c \in Calls : At(c, "renew") /\ call[c].sid \in ended => call[c].sid \in raced

RevokedInv == RevokedStaysRevoked /\ RenewNoted

\* Steps that bring no session back and put no refresh before its write.
LEMMA QuietRevoked ==
  ASSUME Typed, RevokedInv, NEW c \in Calls, \A b \in Calls \ {c} : call'[b] = call[b],
         call'[c].pc # "renew", live' \subseteq live \union {created + 1},
         UNCHANGED <<ended, raced>>
  PROVE  RevokedInv'
<1>1. created \in Nat /\ ended \subseteq 1 .. created
  BY SessionAssumption DEF Typed, TypeOK, Known
<1>2. RevokedStaysRevoked'
  BY <1>1 DEF RevokedInv, RevokedStaysRevoked
<1>3. RenewNoted'
  BY DEF RevokedInv, RenewNoted, At
<1> QED BY <1>2, <1>3 DEF RevokedInv

\* Whoever revokes sessions notes the refreshes of them that stand at the write.
LEMMA RevokeKeeps ==
  ASSUME Typed, RevokedInv, NEW c \in Calls, \A b \in Calls \ {c} : call'[b] = call[b],
         call'[c].pc # "renew", NEW sids, Revoke(sids)
  PROVE  RevokedInv'
<1>1. RevokedStaysRevoked'
  BY DEF Revoke, RevokedInv, RevokedStaysRevoked
<1>2. RenewNoted'
  BY DEF Revoke, RevokedInv, RenewNoted, At
<1> QED BY <1>1, <1>2 DEF RevokedInv

LEMMA QuietSlot ==
  ASSUME Typed, NEW c \in Calls,
         \/ BeginLogin(c) \/ BeginCall(c) \/ SendAgain(c) \/ Store(c) \/ Validate(c)
         \/ SetEx(c) \/ SAdd(c) \/ ReadSession(c) \/ ReadUser(c) \/ Find(c) \/ SRem(c)
         \/ Members(c) \/ DelIndex(c) \/ Crash(c)
  PROVE  /\ call'[c].pc # "renew" /\ live' \subseteq live \union {created + 1}
         /\ UNCHANGED <<ended, raced>>
<1>1. live' \subseteq live \union {created + 1} /\ UNCHANGED <<ended, raced>>
  BY DEF BeginLogin, BeginCall, SendAgain, Request, Store, Validate, SetEx, SAdd,
     ReadSession, ReadUser, Find, SRem, Members, DelIndex, Crash, redis, history
<1>2. CASE BeginLogin(c) \/ SetEx(c) \/ Members(c)
  BY <1>1, <1>2, LoginSlot, SetExSlot, MembersSlot
<1>3. CASE BeginCall(c) \/ SendAgain(c)
  BY <1>1, <1>3, RequestSlot DEF BeginCall, SendAgain
<1>4. CASE Store(c) \/ Validate(c) \/ SAdd(c) \/ ReadUser(c)
  BY <1>1, <1>4, EndSlot, GotoSlot DEF Store, Validate, SAdd, ReadUser
<1>5. CASE ReadSession(c) \/ Find(c) \/ SRem(c) \/ DelIndex(c) \/ Crash(c)
  BY <1>1, <1>5, EndSlot, GotoSlot, SignOutSlot DEF ReadSession, Find, SRem, DelIndex, Crash
<1> QED BY <1>1, <1>2, <1>3, <1>4, <1>5

LEMMA RevokedStep == Typed /\ RevokedInv /\ [Next]_vars => RevokedInv'
<1> SUFFICES ASSUME Typed, RevokedInv, [Next]_vars PROVE RevokedInv'
  OBVIOUS
<1>1. CASE UNCHANGED vars
  BY <1>1 DEF vars, redis, history, RevokedInv, RevokedStaysRevoked, RenewNoted, At
<1>2. ASSUME NEW c \in Calls, BeginLogin(c) \/ BeginCall(c) \/ Step(c) \/ Crash(c)
      PROVE  RevokedInv'
  <2>1. \A b \in Calls \ {c} : call'[b] = call[b]
    BY <1>2, StepSlots
  <2>2. CASE Touch(c)
    <3>1. At(c, "renew")' => call'[c].sid \in live
      BY <2>2, GotoSlot DEF Touch, AfterTouch, At
    <3>2. UNCHANGED <<live, ended, raced>>
      BY <2>2 DEF Touch, redis, history
    <3> QED BY <2>1, <3>1, <3>2 DEF RevokedInv, RevokedStaysRevoked, RenewNoted, At
  <2>3. CASE Renew(c)
    <3>1. /\ call'[c].pc = "store" /\ live' = live \union {call[c].sid}
          /\ UNCHANGED <<ended, raced>> /\ At(c, "renew")
      BY <2>3, GotoSlot DEF Renew, history
    <3> QED BY <2>1, <3>1 DEF RevokedInv, RevokedStaysRevoked, RenewNoted, At
  <2>4. CASE Del(c)
    BY <2>1, <2>4, GotoSlot, RevokeKeeps DEF Del
  <2>5. CASE DelAll(c)
    BY <2>1, <2>5, DelAllSlot, RevokeKeeps DEF DelAll
  <2>6. CASE ~Touch(c) /\ ~Renew(c) /\ ~Del(c) /\ ~DelAll(c)
    BY <1>2, <2>1, <2>6, QuietSlot, QuietRevoked DEF Step
  <2> QED BY <2>2, <2>3, <2>4, <2>5, <2>6
<1>3. CASE \/ \E d \in Devices : TokenExpires(d)
           \/ \E s \in Sids : KeyExpires(s)
           \/ Ban
  BY <1>3 DEF TokenExpires, KeyExpires, Ban, redis, history, RevokedInv,
     RevokedStaysRevoked, RenewNoted, At
<1> QED BY <1>1, <1>2, <1>3 DEF Next

\* A session that was revoked exists again only if a refresh of it stood between
\* the read and the write of updateLastActivity when it was deleted: no refresh
\* that comes later brings it back, however many calls are in flight.
THEOREM RevocationHolds == Spec => []RevokedStaysRevoked
<1>1. Init => RevokedInv
  BY DEF Init, RevokedInv, RevokedStaysRevoked, RenewNoted
<1>2. Spec => []RevokedInv
  BY <1>1, AlwaysTyped, RevokedStep, PTL DEF Spec
<1>3. RevokedInv => RevokedStaysRevoked
  BY DEF RevokedInv
<1> QED BY <1>2, <1>3, PTL

-----------------------------------------------------------------------------
(* A device that signed out stays out: whoever signs it out notes that a   *)
(* refresh of another of its calls is under way, and only such a refresh   *)
(* can bring tokens.                                                       *)

LateNoted ==
  \A c \in Calls : RefreshUnderWay(c) /\ call[c].device \in quit => call[c].device \in late

OutInv == SignedOutStaysOut /\ LateNoted

\* No refresh is under way in slot c but one that was before.
Kept(c) == RefreshUnderWay(c)' => RefreshUnderWay(c) /\ call'[c].device = call[c].device

\* A step that stores no tokens and signs no device out.
LEMMA QuietOut ==
  ASSUME Typed, OutInv, NEW c \in Calls, \A b \in Calls \ {c} : call'[b] = call[b],
         UNCHANGED <<device, quit, late>>,
         \/ Kept(c)
         \/ \E d \in Devices : device[d].token # "none" /\ call'[c].device = d
  PROVE  OutInv'
<1>1. SignedOutStaysOut'
  BY DEF OutInv, SignedOutStaysOut
<1>2. LateNoted'
  BY <1>1 DEF OutInv, SignedOutStaysOut, LateNoted, Kept, RefreshUnderWay
<1> QED BY <1>1, <1>2 DEF OutInv

LEMMA SignOutOut ==
  ASSUME Typed, OutInv, NEW c \in Calls, \A b \in Calls \ {c} : call'[b] = call[b],
         NEW d \in Devices, SignOutOf(c, d)
  PROVE  OutInv'
<1>1. device' = [device EXCEPT ![d] = NoTokens] /\ call'[c].pc = "idle"
  BY SignOutSlot DEF SignOutOf, Cleared
<1>2. /\ quit' = quit \union {d} /\ late \subseteq late'
      /\ (\E b \in Calls \ {c} : RefreshUnderWay(b) /\ call[b].device = d) => d \in late'
  BY DEF SignOutOf
<1>3. SignedOutStaysOut'
  BY <1>1, <1>2 DEF OutInv, SignedOutStaysOut, Typed, TypeOK, NoTokens
<1>4. LateNoted'
  BY <1>1, <1>2 DEF OutInv, LateNoted, RefreshUnderWay, Refreshing
<1> QED BY <1>3, <1>4 DEF OutInv

LEMMA SignOutOwnOut ==
  ASSUME Typed, OutInv, NEW c \in Calls, \A b \in Calls \ {c} : call'[b] = call[b],
         ~At(c, "idle"), SignOut(c)
  PROVE  OutInv'
BY SlotType, SignOutOut DEF SignOut

LEMMA StoreOut ==
  ASSUME Typed, OutInv, NEW c \in Calls, \A b \in Calls \ {c} : call'[b] = call[b], Store(c)
  PROVE  OutInv'
<1> DEFINE d == call[c].device
<1>1. /\ d \in Devices /\ At(c, "store")
      /\ device' = [device EXCEPT ![d] = [sid |-> call[c].sid, token |-> "fresh"]]
  BY SlotType DEF Store, At
<1>2. \A x \in Devices \ {d} : device'[x] = device[x]
  BY <1>1 DEF Typed, TypeOK
<1>3. CASE call[c].op = "login"
  <2>1. End(c) /\ quit' = quit \ {d} /\ late' = late \ {d}
    BY <1>3 DEF Store
  <2>2. call'[c].pc = "idle"
    BY <2>1, EndSlot
  <2>3. SignedOutStaysOut'
    BY <1>2, <2>1 DEF OutInv, SignedOutStaysOut, Typed, TypeOK
  <2>4. LateNoted'
    BY <2>1, <2>2 DEF OutInv, LateNoted, RefreshUnderWay, Refreshing
  <2> QED BY <2>3, <2>4 DEF OutInv
<1>4. CASE call[c].op # "login"
  <2>1. Goto(c, "again") /\ quit' = quit /\ late' = late
    BY <1>4 DEF Store
  <2>2. d \in quit => d \in late
    BY <1>1, <1>4 DEF OutInv, LateNoted, RefreshUnderWay, At
  <2>3. SignedOutStaysOut'
    BY <1>2, <2>1, <2>2 DEF OutInv, SignedOutStaysOut, Typed, TypeOK
  <2>4. LateNoted'
    BY <2>1, GotoSlot DEF OutInv, LateNoted, RefreshUnderWay, Refreshing
  <2> QED BY <2>3, <2>4 DEF OutInv
<1> QED BY <1>3, <1>4

LEMMA RequestOut ==
  ASSUME Typed, OutInv, NEW c \in Calls, \A b \in Calls \ {c} : call'[b] = call[b],
         BeginCall(c) \/ SendAgain(c)
  PROVE  OutInv'
<1>1. CASE BeginCall(c)
  <2>1. PICK d \in Devices, op \in Ops : device[d].token # "none" /\ Request(c, d, op, FALSE)
    BY <1>1 DEF BeginCall
  <2>2. \/ SignOutOf(c, d)
        \/ UNCHANGED <<device, quit, late>> /\ call'[c].pc = "idle"
        \/ UNCHANGED <<device, quit, late>> /\ call'[c].device = d
    BY <2>1, RequestSlot
  <2> QED BY <2>1, <2>2, SignOutOut, QuietOut DEF Kept, RefreshUnderWay, Refreshing
<1>2. CASE SendAgain(c)
  <2> DEFINE d == call[c].device
  <2>1. Request(c, d, call[c].op, TRUE) /\ ~At(c, "idle") /\ d \in Devices
    BY <1>2, SlotType DEF SendAgain, At
  <2>2. SignOutOf(c, d) \/ (UNCHANGED <<device, quit, late>> /\ Kept(c))
    <3>1. /\ call'[c].pc \in {"idle", "find", "members"}
          /\ (UNCHANGED <<device, quit, late>>) \/ SignOutOf(c, d)
      BY <2>1, RequestSlot
    <3> QED BY <3>1 DEF Kept, RefreshUnderWay, Refreshing
  <2> QED BY <2>1, <2>2, SignOutOut, QuietOut
<1> QED BY <1>1, <1>2

LEMMA OutStep == Typed /\ OutInv /\ [Next]_vars => OutInv'
<1> SUFFICES ASSUME Typed, OutInv, [Next]_vars PROVE OutInv'
  OBVIOUS
<1>1. CASE UNCHANGED vars
  BY <1>1 DEF vars, history, OutInv, SignedOutStaysOut, LateNoted, RefreshUnderWay
<1>2. ASSUME NEW c \in Calls, BeginLogin(c) \/ BeginCall(c) \/ Step(c) \/ Crash(c)
      PROVE  OutInv'
  <2>1. \A b \in Calls \ {c} : call'[b] = call[b]
    BY <1>2, StepSlots
  <2>2. CASE BeginLogin(c)
    BY <2>1, <2>2, LoginSlot, QuietOut DEF BeginLogin, history, Kept, RefreshUnderWay
  <2>3. CASE Store(c)
    BY <2>1, <2>3, StoreOut
  <2>4. CASE BeginCall(c) \/ SendAgain(c)
    BY <2>1, <2>4, RequestOut
  <2>5. CASE SignOut(c) /\ ~At(c, "idle")
    BY <2>1, <2>5, SignOutOwnOut
  <2>6. CASE \/ Validate(c) \/ SetEx(c) \/ SAdd(c) \/ ReadUser(c) \/ Touch(c) \/ Renew(c)
             \/ Del(c) \/ Members(c) \/ DelAll(c) \/ DelIndex(c)
    <3>1. UNCHANGED <<device, quit, late>>
      BY <2>6 DEF Validate, SetEx, SAdd, ReadUser, Touch, Renew, Del, Members, DelAll,
         DelIndex, history
    <3>2. ASSUME Validate(c) \/ SetEx(c) \/ Del(c) \/ Members(c) \/ DelAll(c) \/ DelIndex(c)
          PROVE  Kept(c)
      <4>1. call'[c].pc \in {"idle", "setEx", "sAdd", "sRem", "delAll", "delIndex"}
        BY <3>2, EndSlot, GotoSlot, SetExSlot, MembersSlot, DelAllSlot
           DEF Validate, Del, DelIndex
      <4> QED BY <4>1 DEF Kept, RefreshUnderWay, Refreshing
    <3>3. ASSUME SAdd(c) PROVE Kept(c)
      <4>1. call[c].op = "login"
        BY <3>3, SlotType DEF SAdd, At, SlotOK, Creating
      <4> QED BY <3>3, <4>1, GotoSlot DEF SAdd, Kept, RefreshUnderWay
    <3>4. ASSUME ReadUser(c) \/ Touch(c) \/ Renew(c) PROVE Kept(c)
      BY <3>4, GotoSlot DEF ReadUser, Touch, Renew, At, Kept, RefreshUnderWay, Refreshing
    <3> QED BY <2>1, <2>6, <3>1, <3>2, <3>3, <3>4, QuietOut
  <2>8. CASE ReadSession(c) \/ Find(c) \/ SRem(c) \/ Crash(c)
    <3>1. ~At(c, "idle")
      BY <2>8 DEF ReadSession, Find, SRem, Crash, At, Serving, Refreshing, Revoking
    <3>2. \/ SignOut(c)
          \/ /\ UNCHANGED <<device, quit, late>>
             /\ End(c) \/ Goto(c, "del") \/ (At(c, "read") /\ Goto(c, "user"))
      BY <2>8 DEF ReadSession, Find, SRem, Crash
    <3>3. SignOut(c) \/ (UNCHANGED <<device, quit, late>> /\ Kept(c))
      BY <3>2, EndSlot, GotoSlot DEF Kept, RefreshUnderWay, Refreshing, At
    <3> QED BY <2>1, <2>5, <3>1, <3>3, QuietOut
  <2> QED BY <1>2, <2>2, <2>3, <2>4, <2>6, <2>8 DEF Step
<1>3. CASE \E d \in Devices : TokenExpires(d)
  <2>1. PICK d \in Devices : TokenExpires(d)
    BY <1>3
  <2>2. \A x \in Devices : device'[x].token # "none" => device[x].token # "none"
    BY <2>1 DEF TokenExpires, Typed, TypeOK
  <2>3. UNCHANGED <<quit, late, call>> /\ quit \subseteq Devices
    BY <2>1 DEF TokenExpires, history, Typed, TypeOK
  <2> QED BY <2>2, <2>3 DEF OutInv, SignedOutStaysOut, LateNoted, RefreshUnderWay
<1>4. CASE (\E s \in Sids : KeyExpires(s)) \/ Ban
  BY <1>4 DEF KeyExpires, Ban, history, OutInv, SignedOutStaysOut, LateNoted, RefreshUnderWay
<1> QED BY <1>1, <1>2, <1>3, <1>4 DEF Next

\* A device that signed out stores no tokens until its next login, unless a
\* refresh of another of its calls was under way then: no other answer, of its own
\* calls or of others', leaves tokens behind.
THEOREM SignedOutHolds == Spec => []SignedOutStaysOut
<1>1. Init => OutInv
  BY DEF Init, OutInv, SignedOutStaysOut, LateNoted, RefreshUnderWay, Refreshing, NoTokens, Idle
<1>2. Spec => []OutInv
  BY <1>1, AlwaysTyped, OutStep, PTL DEF Spec
<1>3. OutInv => SignedOutStaysOut
  BY DEF OutInv
<1> QED BY <1>2, <1>3, PTL

-----------------------------------------------------------------------------
(* A session is missing from the index only by the races named: what a     *)
(* handler has read of Redis is in the index still, or noted, when it      *)
(* writes, and what it takes from the index was revoked.                   *)

Listed == index \union BeingListed \union unlisted \union raced

\* What the handler in slot c relies on.
Relies(c) ==
  /\ At(c, "renew") => call[c].sid \in Listed
  /\ At(c, "sRem") => call[c].sid \in ended
  /\ At(c, "delIndex") => call[c].members \subseteq ended

IndexInv == live \subseteq Listed /\ \A c \in Calls : Relies(c)

\* Whatever takes an entry from the index, or a login from its last step, either
\* notes it or does so to sessions that were revoked: such a session is gone, or
\* raced, and so is one that a refresh is about to write.
LEMMA ListedKept ==
  ASSUME Typed, RevokedInv, IndexInv, NEW c \in Calls,
         \A b \in Calls \ {c} : call'[b] = call[b],
         NEW gone \in SUBSET ended, Listed \ gone \subseteq Listed',
         raced \subseteq raced', ended \subseteq ended',
         live' \subseteq live \union Listed', Relies(c)'
  PROVE  IndexInv'
<1>1. live \subseteq Listed'
  <2>1. live \intersect gone \subseteq raced
    BY DEF RevokedInv, RevokedStaysRevoked
  <2> QED BY <2>1 DEF IndexInv, Listed
<1>2. ASSUME NEW b \in Calls \ {c} PROVE Relies(b)'
  <2>1. At(b, "renew") => call[b].sid \in Listed'
    <3>1. At(b, "renew") /\ call[b].sid \in gone => call[b].sid \in raced
      BY DEF RevokedInv, RenewNoted
    <3>2. At(b, "renew") => call[b].sid \in Listed
      BY DEF IndexInv, Relies
    <3>3. raced \subseteq Listed'
      BY DEF Listed
    <3> QED BY <3>1, <3>2, <3>3
  <2>2. Relies(b) /\ call'[b] = call[b]
    BY DEF IndexInv
  <2> QED BY <2>1, <2>2 DEF Relies, At
<1> QED BY <1>1, <1>2 DEF IndexInv

\* The slots about to be listed are the same but for the one that steps.
LEMMA ListedStays ==
  ASSUME NEW c \in Calls, \A b \in Calls \ {c} : call'[b] = call[b],
         index \subseteq index', unlisted \subseteq unlisted', raced \subseteq raced',
         At(c, "sAdd") => call[c].sid \in index' \union unlisted'
  PROVE  Listed \subseteq Listed'
<1>1. BeingListed \subseteq BeingListed' \union index' \union unlisted'
  <2> SUFFICES ASSUME NEW b \in Calls, At(b, "sAdd"), call[b].sid \notin index' \union unlisted'
               PROVE  call[b].sid \in BeingListed'
    BY DEF BeingListed
  <2>1. b # c /\ call'[b] = call[b]
    OBVIOUS
  <2> QED BY <2>1 DEF BeingListed, At
<1> QED BY <1>1 DEF Listed

\* Steps that write neither the index nor the history of the sessions.
LEMMA QuietIndex ==
  ASSUME Typed, RevokedInv, IndexInv, NEW c \in Calls,
         \A b \in Calls \ {c} : call'[b] = call[b],
         UNCHANGED <<index, ended, raced, unlisted>>, ~At(c, "sAdd"),
         live' \subseteq live \union Listed', Relies(c)'
  PROVE  IndexInv'
<1>1. Listed \subseteq Listed'
  BY ListedStays
<1>2. {} \in SUBSET ended /\ Listed \ {} \subseteq Listed'
  BY <1>1
<1> QED BY <1>2, ListedKept

LEMMA IndexSlotStep ==
  ASSUME Typed, RevokedInv, IndexInv, NEW c \in Calls,
         \A b \in Calls \ {c} : call'[b] = call[b],
         BeginLogin(c) \/ BeginCall(c) \/ Step(c) \/ Crash(c)
  PROVE  IndexInv'
<1>1. CASE BeginLogin(c) \/ BeginCall(c) \/ SendAgain(c)
  <2>1. ~At(c, "sAdd") /\ UNCHANGED <<live, index, ended, raced, unlisted>>
    BY <1>1 DEF BeginLogin, BeginCall, SendAgain, Request, At, redis, history
  <2>2. call'[c].pc \notin {"renew", "sRem", "delIndex"}
    BY <1>1, LoginSlot, RequestSlot DEF BeginCall, SendAgain
  <2> QED BY <2>1, <2>2, QuietIndex DEF Relies, At
<1>2. CASE Store(c) \/ Validate(c) \/ ReadSession(c) \/ ReadUser(c) \/ Find(c) \/ Members(c)
  <2>1. ~At(c, "sAdd") /\ UNCHANGED <<live, index, ended, raced, unlisted>>
    BY <1>2 DEF Store, Validate, ReadSession, ReadUser, Find, Members, At, redis, history
  <2>2. call'[c].pc \notin {"renew", "sRem", "delIndex"}
    BY <1>2, EndSlot, GotoSlot, SignOutSlot, MembersSlot
       DEF Store, Validate, ReadSession, ReadUser, Find
  <2> QED BY <2>1, <2>2, QuietIndex DEF Relies, At
<1>3. CASE SetEx(c)
  <2>1. /\ live' = live \union {created + 1} /\ UNCHANGED <<index, ended, raced, unlisted>>
        /\ ~At(c, "sAdd") /\ call'[c].pc = "sAdd" /\ call'[c].sid = created + 1
    BY <1>3, SetExSlot DEF SetEx, At, history
  <2>2. created + 1 \in Listed'
    BY <2>1 DEF Listed, BeingListed, At
  <2> QED BY <2>1, <2>2, QuietIndex DEF Relies, At
<1>4. CASE SAdd(c)
  <2>1. /\ live' = live /\ index' = index \union {call[c].sid}
        /\ UNCHANGED <<ended, raced, unlisted>> /\ call'[c].pc = "store"
    BY <1>4, GotoSlot DEF SAdd, history
  <2>2. {} \in SUBSET ended /\ Listed \ {} \subseteq Listed'
    BY <2>1, ListedStays
  <2>3. Relies(c)'
    BY <2>1 DEF Relies, At
  <2> QED BY <2>1, <2>2, <2>3, ListedKept
<1>5. CASE Touch(c)
  <2>1. /\ UNCHANGED <<live, index, ended, raced, unlisted>> /\ ~At(c, "sAdd")
        /\ call'[c].sid = call[c].sid /\ call'[c].pc = AfterTouch(c)
    BY <1>5, GotoSlot DEF Touch, redis, history, At
  <2>2. At(c, "renew")' => call[c].sid \in Listed'
    <3>1. Listed \subseteq Listed'
      BY <2>1, ListedStays
    <3> QED BY <2>1, <3>1 DEF IndexInv, AfterTouch, At
  <2> QED BY <2>1, <2>2, QuietIndex DEF Relies, At, AfterTouch
<1>6. CASE Renew(c)
  <2>1. /\ live' = live \union {call[c].sid} /\ UNCHANGED <<index, ended, raced, unlisted>>
        /\ ~At(c, "sAdd") /\ call[c].sid \in Listed /\ call'[c].pc = "store"
    BY <1>6, GotoSlot DEF Renew, IndexInv, Relies, At, history
  <2>2. Listed \subseteq Listed'
    BY <2>1, ListedStays
  <2> QED BY <2>1, <2>2, QuietIndex DEF Relies, At
<1>7. CASE Del(c) \/ DelAll(c)
  <2>1. PICK sids : Revoke(sids) /\ (At(c, "del") => sids = {call[c].sid})
                                /\ (At(c, "delAll") => sids = call[c].members)
    BY <1>7 DEF Del, DelAll, Revoked, At
  <2>2. /\ live' = live \ sids /\ ended' = ended \union sids /\ raced \subseteq raced'
        /\ UNCHANGED <<index, unlisted>> /\ ~At(c, "sAdd")
    BY <1>7, <2>1 DEF Del, DelAll, Revoke, At
  <2>3. Relies(c)'
    <3>1. CASE Del(c)
      <4>1. call'[c].pc = "sRem" /\ call'[c].sid \in ended'
        BY <2>1, <2>2, <3>1, GotoSlot DEF Del
      <4> QED BY <4>1 DEF Relies, At
    <3>2. CASE DelAll(c)
      <4>1. call'[c].pc = "delIndex" /\ call'[c].members \subseteq ended'
        BY <2>1, <2>2, <3>2, DelAllSlot DEF DelAll
      <4> QED BY <4>1 DEF Relies, At
    <3> QED BY <1>7, <3>1, <3>2
  <2>4. {} \in SUBSET ended /\ Listed \ {} \subseteq Listed'
    BY <2>2, ListedStays
  <2> QED BY <2>2, <2>3, <2>4, ListedKept
<1>8. CASE SRem(c)
  <2>1. /\ index' = index \ {call[c].sid} /\ UNCHANGED <<live, ended, raced, unlisted>>
        /\ At(c, "sRem") /\ call'[c].pc = "idle"
    BY <1>8, SignOutSlot DEF SRem
  <2>2. {call[c].sid} \in SUBSET ended
    BY <2>1 DEF IndexInv, Relies
  <2>3. Listed \ {call[c].sid} \subseteq Listed'
    BY <2>1 DEF Listed, BeingListed, At
  <2>4. Relies(c)'
    BY <2>1 DEF Relies, At
  <2> QED BY <2>1, <2>2, <2>3, <2>4, ListedKept
<1>9. CASE DelIndex(c)
  <2>1. /\ UNCHANGED <<live, ended, raced>>
        /\ unlisted' = unlisted \union (index \ call[c].members)
        /\ At(c, "delIndex") /\ call'[c].pc = "idle"
    BY <1>9, EndSlot DEF DelIndex
  <2>2. call[c].members \in SUBSET ended
    BY <2>1 DEF IndexInv, Relies
  <2>3. Listed \ call[c].members \subseteq Listed'
    BY <2>1 DEF Listed, BeingListed, At
  <2>4. Relies(c)'
    BY <2>1 DEF Relies, At
  <2> QED BY <2>1, <2>2, <2>3, <2>4, ListedKept
<1>10. CASE Crash(c)
  <2>1. /\ UNCHANGED <<live, index, ended, raced>> /\ unlisted \subseteq unlisted'
        /\ At(c, "sAdd") => call[c].sid \in unlisted'
        /\ call'[c].pc = "idle"
    BY <1>10, EndSlot, SignOutSlot DEF Crash, redis
  <2>2. {} \in SUBSET ended /\ Listed \ {} \subseteq Listed'
    BY <2>1, ListedStays
  <2>3. Relies(c)'
    BY <2>1 DEF Relies, At
  <2> QED BY <2>1, <2>2, <2>3, ListedKept
<1> QED BY <1>1, <1>2, <1>3, <1>4, <1>5, <1>6, <1>7, <1>8, <1>9, <1>10 DEF Step

LEMMA IndexStep == Typed /\ RevokedInv /\ IndexInv /\ [Next]_vars => IndexInv'
<1> SUFFICES ASSUME Typed, RevokedInv, IndexInv, [Next]_vars PROVE IndexInv'
  OBVIOUS
<1>1. CASE UNCHANGED vars
  BY <1>1 DEF vars, redis, history, IndexInv, Relies, Listed, BeingListed, At
<1>2. ASSUME NEW c \in Calls, BeginLogin(c) \/ BeginCall(c) \/ Step(c) \/ Crash(c)
      PROVE  IndexInv'
  BY <1>2, StepSlots, IndexSlotStep
<1>3. CASE \E s \in Sids : KeyExpires(s)
  BY <1>3 DEF KeyExpires, history, IndexInv, Relies, Listed, BeingListed, At
<1>4. CASE (\E d \in Devices : TokenExpires(d)) \/ Ban
  BY <1>4 DEF TokenExpires, Ban, redis, history, IndexInv, Relies, Listed, BeingListed, At
<1> QED BY <1>1, <1>2, <1>3, <1>4 DEF Next

\* The index of the user lists every session there is, so that logoutAll reaches
\* all of them, but for the sessions of the three races that LiveIsIndexed names,
\* however many calls are in flight.
THEOREM IndexHolds == Spec => []LiveIsIndexed
<1>1. Init => RevokedInv /\ IndexInv
  BY DEF Init, RevokedInv, RevokedStaysRevoked, RenewNoted, IndexInv, Relies, At, Idle
<1>2. Spec => [](RevokedInv /\ IndexInv)
  BY <1>1, AlwaysTyped, RevokedStep, IndexStep, PTL DEF Spec
<1>3. IndexInv => LiveIsIndexed
  BY DEF IndexInv, LiveIsIndexed, Listed
<1> QED BY <1>2, <1>3, PTL

-----------------------------------------------------------------------------
(* Every call comes nearer to its end with each of its steps.              *)

LEMMA LeftValue ==
  ASSUME NEW c \in Calls
  PROVE  /\ At(c, "idle") => Left(c) = 0
         /\ At(c, "sRem") \/ At(c, "delIndex") => Left(c) = 1
         /\ At(c, "del") \/ At(c, "delAll") => Left(c) = 2
         /\ At(c, "find") \/ At(c, "members") => Left(c) = 3
         /\ At(c, "again") => Left(c) = 4
         /\ At(c, "store") => Left(c) = 5
         /\ At(c, "renew") \/ At(c, "sAdd") => Left(c) = 6
         /\ At(c, "touch") \/ At(c, "setEx") => Left(c) = 7
         /\ At(c, "user") \/ At(c, "validate") => Left(c) = 8
         /\ At(c, "read") => Left(c) = 9
BY DEF Left, At

LEMMA LeftNext ==
  ASSUME NEW c \in Calls
  PROVE  /\ At(c, "idle")' => Left(c)' = 0
         /\ At(c, "sRem")' \/ At(c, "delIndex")' => Left(c)' = 1
         /\ At(c, "del")' \/ At(c, "delAll")' => Left(c)' = 2
         /\ At(c, "find")' \/ At(c, "members")' => Left(c)' = 3
         /\ At(c, "again")' => Left(c)' = 4
         /\ At(c, "store")' => Left(c)' = 5
         /\ At(c, "renew")' \/ At(c, "sAdd")' => Left(c)' = 6
         /\ At(c, "touch")' \/ At(c, "setEx")' => Left(c)' = 7
         /\ At(c, "user")' \/ At(c, "validate")' => Left(c)' = 8
         /\ At(c, "read")' => Left(c)' = 9
BY DEF Left, At

LEMMA NearerStep ==
  ASSUME Typed, NEW c \in Calls, Step(c) \/ Crash(c)
  PROVE  Left(c)' < Left(c)
<1>1. CASE SendAgain(c)
  <2>1. At(c, "again") /\ call'[c].pc \in {"idle", "find", "members"}
    BY <1>1, RequestSlot DEF SendAgain
  <2> QED BY <2>1, LeftValue, LeftNext DEF At
<1>2. CASE Store(c)
  <2>1. At(c, "store") /\ call'[c].pc \in {"idle", "again"}
    BY <1>2, EndSlot, GotoSlot DEF Store
  <2> QED BY <2>1, LeftValue, LeftNext DEF At
<1>3. CASE Validate(c)
  <2>1. At(c, "validate") /\ call'[c].pc \in {"idle", "setEx"}
    BY <1>3, EndSlot, GotoSlot DEF Validate
  <2> QED BY <2>1, LeftValue, LeftNext DEF At
<1>4. CASE SetEx(c)
  <2>1. At(c, "setEx") /\ call'[c].pc = "sAdd"
    BY <1>4, SetExSlot DEF SetEx
  <2> QED BY <2>1, LeftValue, LeftNext DEF At
<1>5. CASE SAdd(c)
  BY <1>5, GotoSlot, LeftValue, LeftNext DEF SAdd, At
<1>6. CASE ReadSession(c)
  <2>1. At(c, "read") /\ call'[c].pc \in {"idle", "user"}
    BY <1>6, SignOutSlot, GotoSlot DEF ReadSession
  <2> QED BY <2>1, LeftValue, LeftNext DEF At
<1>7. CASE ReadUser(c)
  <2>1. At(c, "user") /\ call'[c].pc \in {"find", "touch"}
    BY <1>7, GotoSlot DEF ReadUser
  <2> QED BY <2>1, LeftValue, LeftNext DEF At
<1>8. CASE Touch(c)
  <2>1. At(c, "touch") /\ call'[c].pc \in {"renew", "store"}
    BY <1>8, GotoSlot DEF Touch, AfterTouch
  <2> QED BY <2>1, LeftValue, LeftNext DEF At
<1>9. CASE Renew(c)
  BY <1>9, GotoSlot, LeftValue, LeftNext DEF Renew, At
<1>10. CASE Find(c)
  <2>1. At(c, "find") /\ call'[c].pc \in {"idle", "del"}
    BY <1>10, SignOutSlot, GotoSlot DEF Find
  <2> QED BY <2>1, LeftValue, LeftNext DEF At
<1>11. CASE Del(c)
  BY <1>11, GotoSlot, LeftValue, LeftNext DEF Del, At
<1>12. CASE SRem(c)
  BY <1>12, SignOutSlot, LeftValue, LeftNext DEF SRem, At
<1>13. CASE Members(c)
  <2>1. At(c, "members") /\ call'[c].pc \in {"idle", "delAll"}
    BY <1>13, MembersSlot DEF Members
  <2> QED BY <2>1, LeftValue, LeftNext DEF At
<1>14. CASE DelAll(c)
  <2>1. At(c, "delAll") /\ call'[c].pc = "delIndex"
    BY <1>14, DelAllSlot DEF DelAll
  <2> QED BY <2>1, LeftValue, LeftNext DEF At
<1>15. CASE DelIndex(c)
  BY <1>15, EndSlot, LeftValue, LeftNext DEF DelIndex, At
<1>16. CASE Crash(c)
  <2>1. call[c].pc \in Serving /\ call'[c].pc = "idle"
    BY <1>16, EndSlot, SignOutSlot DEF Crash
  <2> QED BY <2>1, LeftValue, LeftNext DEF At, Serving, Refreshing, Revoking
<1> QED
  BY <1>1, <1>2, <1>3, <1>4, <1>5, <1>6, <1>7, <1>8, <1>9, <1>10, <1>11, <1>12, <1>13,
     <1>14, <1>15, <1>16 DEF Step

Nearer(c) == ~At(c, "idle") => call'[c] = call[c] \/ Left(c)' < Left(c)

LEMMA NearerNext == Typed /\ [Next]_vars => [\A c \in Calls : Nearer(c)]_vars
<1> SUFFICES ASSUME Typed, Next, NEW c \in Calls, ~At(c, "idle"), call'[c] # call[c]
             PROVE  Left(c)' < Left(c)
  BY DEF Nearer
<1>1. PICK b \in Calls : BeginLogin(b) \/ BeginCall(b) \/ Step(b) \/ Crash(b)
  BY DEF Next, TokenExpires, KeyExpires, Ban
<1>2. b = c
  BY <1>1, StepSlots
<1>3. ~BeginLogin(c) /\ ~BeginCall(c)
  BY DEF BeginLogin, BeginCall
<1> QED BY <1>1, <1>2, <1>3, NearerStep

\* Every call of a client ends: each step of it brings it nearer to its end, and
\* a token that expires again and again does not keep it refreshing.
THEOREM CallsComeToAnEnd == Spec => CallsEnd
<1>1. [\A c \in Calls : Nearer(c)]_vars
        => [\A c \in Calls : ~At(c, "idle") => call'[c] = call[c] \/ Left(c)' < Left(c)]_vars
  BY DEF Nearer
<1> QED BY <1>1, AlwaysTyped, NearerNext, PTL DEF Spec, CallsEnd

=============================================================================
