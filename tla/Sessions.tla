------------------------------- MODULE Sessions -------------------------------
(***************************************************************************)
(* The sessions of one user: RedisSessionService with its session keys and *)
(* the index of the user's sessions, AuthService's login, refresh, logout  *)
(* and logoutAll, and the clients that hold the tokens of a session and    *)
(* refresh them when a call is answered 401.                               *)
(*                                                                         *)
(* Redis commands are atomic; what is awaited between two of them is not.  *)
(* Tokens are signed statements: the server keeps none, so the state of a  *)
(* token is where it is stored.  Roles, the activity log and the online    *)
(* flag, which nothing here reads, are left out.                           *)
(***************************************************************************)
EXTENDS Integers, FiniteSets

CONSTANTS
  Calls,        \* slots for calls of clients in flight at the same time
  Devices,      \* browsers and phones of the user
  NoDevice,     \* the device of a slot without a call
  MaxSessions   \* bound: sessions ever created

ASSUME SessionAssumption ==
  /\ IsFiniteSet(Calls) /\ IsFiniteSet(Devices)
  /\ NoDevice \notin Devices
  /\ MaxSessions \in Nat

VARIABLES
  live,     \* the keys session:<id> in Redis
  index,    \* the set user:<id>:sessions in Redis
  created,  \* how many sessions have been created
  banned,   \* User.isBanned
  device,   \* what each device stores: its tokens and their session
  call,     \* the calls in flight, with their handler
  ended,    \* history: sessions revoked by a handler
  raced,    \* history: of them, those a refresh had read and not yet written
  quit,     \* history: devices not logged in, or signed out since
  late,     \* history: of them, those with a refresh under way then
  unlisted  \* history: sessions the index never got, or lost to a logoutAll

redis == <<live, index, created>>
history == <<ended, raced, quit, late, unlisted>>
vars == <<redis, banned, device, call, history>>

Sids == 1 .. MaxSessions

\* A token pair names a session: the access token is fresh for 15 minutes, the
\* refresh token is stored and removed with it.
NoTokens == [sid |-> 0, token |-> "none"]
Stores == {NoTokens} \union [sid: Sids, token: {"fresh", "stale"}]

Ops == {"login", "get", "logout", "logoutAll"}
Refreshing == {"read", "user", "touch", "renew"}
Revoking == {"find", "del", "sRem"}
Serving == {"validate", "setEx", "sAdd", "members", "delAll", "delIndex"}
             \union Refreshing \union Revoking
PCs == {"idle", "again", "store"} \union Serving

CallRecords == [pc: PCs, op: Ops, device: Devices \union {NoDevice}, sid: 0 .. MaxSessions,
                members: SUBSET Sids]

Idle == [pc |-> "idle", op |-> "get", device |-> NoDevice, sid |-> 0,
         members |-> {}]

At(c, pc) == call[c].pc = pc
Goto(c, pc) == call' = [call EXCEPT ![c].pc = pc]
End(c) == call' = [call EXCEPT ![c] = Idle]

-----------------------------------------------------------------------------
(* The clients.                                                            *)

Logins == {c \in Calls : call[c].pc \in {"validate", "setEx"}}

BeginLogin(c) ==
  \E d \in Devices :
    /\ device[d].token = "none" /\ created + Cardinality(Logins) < MaxSessions
    /\ At(c, "idle")
    /\ call' = [call EXCEPT ![c] = [Idle EXCEPT !.pc = "validate", !.op = "login", !.device = d]]
    /\ UNCHANGED <<redis, banned, device, history>>

\* A refresh whose answer may still be stored on the device.
RefreshUnderWay(b) == call[b].op # "login" /\ call[b].pc \in Refreshing \union {"store"}

\* The call of a device ends and takes the tokens off it: a refresh was refused,
\* or it was the logout, however that was answered.
OnlyAccessToken(d) == [device[d] EXCEPT !.token = "stale"]
Cleared(d) == NoTokens

SignOutOf(c, d) ==
  /\ device' = [device EXCEPT ![d] = Cleared(d)]
  /\ End(c)
  /\ quit' = quit \union {d}
  /\ late' = IF \E b \in Calls \ {c} : RefreshUnderWay(b) /\ call[b].device = d
             THEN late \union {d} ELSE late

SignOut(c) == SignOutOf(c, call[c].device)

\* A 401 is met with one refresh, and the call is sent once more.
MayRefreshAgain(token, retried) == token = "stale"
MayRefresh(token, retried) == token = "stale" /\ ~retried

\* The guard of the API looks at the access token only.  What a call that only
\* reads is answered changes nothing.
Handler(op) == IF op = "logout" THEN "find" ELSE "members"

\* A call goes out with the tokens its device stores.
Request(c, d, op, retried) ==
  LET stored == device[d]
      Serve(pc) == call' = [call EXCEPT ![c] =
                      [Idle EXCEPT !.pc = pc, !.op = op, !.device = d, !.sid = stored.sid]]
  IN /\ \/ /\ stored.token = "fresh"
           /\ IF op = "get" THEN End(c) ELSE Serve(Handler(op))
           /\ UNCHANGED <<device, quit, late>>
        \/ /\ MayRefresh(stored.token, retried)
           /\ Serve("read")
           /\ UNCHANGED <<device, quit, late>>
        \/ /\ stored.token # "fresh" /\ ~MayRefresh(stored.token, retried)
           /\ IF op = "logout" THEN SignOutOf(c, d)
              ELSE End(c) /\ UNCHANGED <<device, quit, late>>
     /\ UNCHANGED <<redis, banned, ended, raced, unlisted>>

BeginCall(c) ==
  \E d \in Devices, op \in Ops \ {"login"} :
    /\ device[d].token # "none"
    /\ At(c, "idle")
    /\ Request(c, d, op, FALSE)

SendAgain(c) ==
  /\ At(c, "again")
  /\ Request(c, call[c].device, call[c].op, TRUE)

\* The answer of login and refresh arrives and is stored.
Store(c) ==
  LET d == call[c].device
  IN /\ At(c, "store")
     /\ device' = [device EXCEPT ![d] = [sid |-> call[c].sid, token |-> "fresh"]]
     /\ IF call[c].op = "login"
        THEN End(c) /\ quit' = quit \ {d} /\ late' = late \ {d}
        ELSE /\ Goto(c, "again")
             /\ UNCHANGED <<quit, late>>
     /\ UNCHANGED <<redis, banned, ended, raced, unlisted>>

-----------------------------------------------------------------------------
(* login: validateUser, then createSession.                                *)

SignsAtOnce(c) ==
  /\ At(c, "validate")
  /\ IF banned THEN End(c) ELSE Goto(c, "store")
  /\ UNCHANGED <<redis, banned, device, history>>

Validate(c) ==
  /\ At(c, "validate")
  /\ IF banned THEN End(c) ELSE Goto(c, "setEx")
  /\ UNCHANGED <<redis, banned, device, history>>

SetEx(c) ==
  /\ At(c, "setEx")
  /\ created' = created + 1
  /\ live' = live \union {created + 1}
  /\ call' = [call EXCEPT ![c].pc = "sAdd", ![c].sid = created + 1]
  /\ UNCHANGED <<index, banned, device, history>>

SAdd(c) ==
  /\ At(c, "sAdd")
  /\ index' = index \union {call[c].sid}
  /\ Goto(c, "store")
  /\ UNCHANGED <<live, created, banned, device, history>>

-----------------------------------------------------------------------------
(* refresh: getSession, the user, then updateLastActivity, which reads the *)
(* session once more and writes what it read for seven days.               *)

ReadSession(c) ==
  /\ At(c, "read")
  /\ IF call[c].sid \in live
     THEN Goto(c, "user") /\ UNCHANGED <<device, quit, late>>
     ELSE SignOut(c)
  /\ UNCHANGED <<redis, banned, ended, raced, unlisted>>

ReadUser(c) ==
  /\ At(c, "user")
  /\ Goto(c, IF banned THEN "find" ELSE "touch")
  /\ UNCHANGED <<redis, banned, device, history>>

AlwaysRenew(c) == "renew"
AfterTouch(c) == IF call[c].sid \in live THEN "renew" ELSE "store"

Touch(c) ==
  /\ At(c, "touch")
  /\ Goto(c, AfterTouch(c))
  /\ UNCHANGED <<redis, banned, device, history>>

Renew(c) ==
  /\ At(c, "renew")
  /\ live' = live \union {call[c].sid}
  /\ Goto(c, "store")
  /\ UNCHANGED <<index, created, banned, device, history>>

-----------------------------------------------------------------------------
(* revokeSession, of logout and of a refresh for someone banned.           *)

\* Sessions go; those a refresh is about to write back are noted.
Revoke(sids) ==
  /\ live' = live \ sids
  /\ ended' = ended \union sids
  /\ raced' = raced \union {s \in sids : \E b \in Calls : At(b, "renew") /\ call[b].sid = s}

Find(c) ==
  /\ At(c, "find")
  /\ IF call[c].sid \in live
     THEN Goto(c, "del") /\ UNCHANGED <<device, quit, late>>
     ELSE SignOut(c)
  /\ UNCHANGED <<redis, banned, ended, raced, unlisted>>

Del(c) ==
  /\ At(c, "del")
  /\ Revoke({call[c].sid})
  /\ Goto(c, "sRem")
  /\ UNCHANGED <<index, created, banned, device, quit, late, unlisted>>

SRem(c) ==
  /\ At(c, "sRem")
  /\ index' = index \ {call[c].sid}
  /\ SignOut(c)
  /\ UNCHANGED <<live, created, banned, ended, raced, unlisted>>

-----------------------------------------------------------------------------
(* revokeAllUserSessions.                                                  *)

Members(c) ==
  /\ At(c, "members")
  /\ IF index = {} THEN End(c)
     ELSE call' = [call EXCEPT ![c].members = index, ![c].pc = "delAll"]
  /\ UNCHANGED <<redis, banned, device, history>>

AllButOwn(c) == call[c].members \ {call[c].sid}
Revoked(c) == call[c].members

DelAll(c) ==
  /\ At(c, "delAll")
  /\ Revoke(Revoked(c))
  /\ call' = [call EXCEPT ![c].pc = "delIndex", ![c].sid = 0]
  /\ UNCHANGED <<index, created, banned, device, quit, late, unlisted>>

DelIndex(c) ==
  /\ At(c, "delIndex")
  /\ index' = {}
  /\ unlisted' = unlisted \union (index \ call[c].members)
  /\ End(c)
  /\ UNCHANGED <<live, created, banned, device, ended, raced, quit, late>>

-----------------------------------------------------------------------------
(* Time, the administrator and failures.                                   *)

TokenExpires(d) ==
  /\ device[d].token = "fresh"
  /\ device' = [device EXCEPT ![d].token = "stale"]
  /\ UNCHANGED <<redis, banned, call, history>>

\* Seven days without a refresh: the key goes, its entry in the index stays.
KeyExpires(s) ==
  /\ s \in live
  /\ live' = live \ {s}
  /\ UNCHANGED <<index, created, banned, device, call, history>>

\* banUser, which touches no session; unbanUser is left out.
Ban ==
  /\ ~banned
  /\ banned' = TRUE
  /\ UNCHANGED <<redis, device, call, history>>

\* A handler dies: a client that was refreshing or logging out signs out.
Crash(c) ==
  /\ call[c].pc \in Serving
  /\ IF call[c].pc \in Refreshing \union Revoking THEN SignOut(c)
     ELSE End(c) /\ UNCHANGED <<device, quit, late>>
  /\ unlisted' = IF At(c, "sAdd") THEN unlisted \union {call[c].sid} ELSE unlisted
  /\ UNCHANGED <<redis, banned, ended, raced>>

-----------------------------------------------------------------------------
Init ==
  /\ live = {} /\ index = {} /\ created = 0
  /\ banned = FALSE
  /\ device = [d \in Devices |-> NoTokens]
  /\ call = [c \in Calls |-> Idle]
  /\ ended = {} /\ raced = {} /\ quit = Devices /\ late = {}
  /\ unlisted = {}

Step(c) ==
  \/ SendAgain(c) \/ Store(c) \/ Validate(c) \/ SetEx(c) \/ SAdd(c)
  \/ ReadSession(c) \/ ReadUser(c) \/ Touch(c) \/ Renew(c)
  \/ Find(c) \/ Del(c) \/ SRem(c) \/ Members(c) \/ DelAll(c) \/ DelIndex(c)

Next ==
  \/ \E c \in Calls : BeginLogin(c) \/ BeginCall(c) \/ Step(c) \/ Crash(c)
  \/ \E d \in Devices : TokenExpires(d)
  \/ \E s \in Sids : KeyExpires(s)
  \/ Ban

Spec == Init /\ [][Next]_vars

-----------------------------------------------------------------------------
TypeOK ==
  /\ live \subseteq Sids /\ index \subseteq Sids /\ created \in 0 .. MaxSessions
  /\ banned \in BOOLEAN /\ unlisted \subseteq Sids
  /\ device \in [Devices -> Stores]
  /\ call \in [Calls -> CallRecords]
  /\ ended \subseteq Sids /\ raced \subseteq ended
  /\ quit \subseteq Devices /\ late \subseteq quit

\* A session that was revoked exists again only if, when it was deleted, a
\* refresh of it stood between the read and the write of updateLastActivity:
\* no refresh that comes later, and no other handler, brings it back
\* (redis-session.service.ts updateLastActivity, auth.service.ts refresh).
RevokedStaysRevoked == ended \intersect live \subseteq raced

\* Every session there is can be listed and reached by logoutAll, but for those
\* that three races leave out: createSession has written the key and not yet
\* the index (or died there); revokeAllUserSessions deleted the index with an
\* entry it had not read; the session came back after it was revoked.  No other
\* order of commands makes a session nobody can see
\* (redis-session.service.ts createSession, revokeAllUserSessions).
BeingListed == {call[c].sid : c \in {b \in Calls : At(b, "sAdd")}}

LiveIsIndexed ==
  live \subseteq index \union BeingListed \union unlisted \union raced

\* A device that signed out stores no tokens until the next login, unless a
\* refresh of another of its calls was under way at that moment, whose answer
\* may come late: no refresh is begun, and no call sent again, from a device
\* that signed out (baseApi.ts, client.ts, authSlice.ts logout).
SignedOutStaysOut ==
  \A d \in quit : device[d].token # "none" => d \in late

\* How far a call is from its end.
Left(c) ==
  LET r == call[c]
  IN CASE r.pc = "idle" -> 0
       [] r.pc \in {"sRem", "delIndex"} -> 1
       [] r.pc \in {"del", "delAll"} -> 2
       [] r.pc \in {"find", "members"} -> 3
       [] r.pc = "again" -> 4
       [] r.pc = "store" -> 5
       [] r.pc \in {"renew", "sAdd"} -> 6
       [] r.pc \in {"touch", "setEx"} -> 7
       [] r.pc \in {"user", "validate"} -> 8
       [] r.pc = "read" -> 9

\* Every call of a client ends, answered or at the login page: whatever else
\* happens to sessions and tokens, a call under way only comes nearer to its end,
\* and a token that expires again and again does not keep it refreshing
\* (client.ts _retry, baseApi.ts baseQueryWithReauth).
CallsEnd ==
  [][\A c \in Calls :
       ~At(c, "idle") => call'[c] = call[c] \/ Left(c)' < Left(c)]_vars
=============================================================================
