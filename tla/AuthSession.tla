---------------------------- MODULE AuthSession ----------------------------
(***************************************************************************)
(* The sessions of one user: login, refreshToken and logout                *)
(* (auth.service.ts), the check of every authenticated request             *)
(* (jwt.strategy.ts, validate) and the Redis keys they share               *)
(* (auth-redis.service.ts).  A client has one session per deviceId; users  *)
(* share no key, so one user is enough.                                    *)
(*                                                                         *)
(* Requests are handled concurrently and every awaited call is a step.  An *)
(* access token and the refresh token issued with it carry the same        *)
(* sessionId: they are one number here, the order in which they were       *)
(* signed.  Time is abstracted: a token may expire at any moment, a key    *)
(* with a TTL may vanish at any moment its TTL allows.                     *)
(***************************************************************************)
EXTENDS Integers

CONSTANTS
  Null,
  Clients,      \* the deviceIds of the user
  Calls,        \* requests that may be in progress together
  MaxTokens,    \* bound on the tokens issued
  MaxFaults     \* bound on the failed calls and crashes

ASSUME SessionAssumption ==
  /\ MaxTokens \in Nat /\ MaxFaults \in Nat
  /\ Null \notin Nat /\ Null \notin Clients

Tokens == 1..MaxTokens

VARIABLES
  exists,       \* whether the row of the user exists
  issued,       \* number of tokens signed
  owner,        \* deviceId inside each token signed
  held,         \* the tokens some client has received
  expired,      \* the refresh tokens whose exp has passed
  session,      \* imox:auth:session:<user>:<deviceId>
  blacklist,    \* imox:auth:blacklist:<token>
  calls,        \* the requests in progress
  ended,        \* history: tokens that were a session's and no longer are
  banned,       \* history: tokens that have been blacklisted
  faults
tokens == <<issued, owner, held, expired>>
redis  == <<session, blacklist>>
past   == <<ended, banned>>
vars == <<exists, issued, owner, held, expired, session, blacklist, calls, ended,
          banned, faults>>

Kinds == {"none", "login", "refresh", "logout", "access"}
Pcs   == {"idle", "check", "get", "user", "blacklist", "delete", "save"}

\* `late`: the token had already been retired when the request arrived.
NoCall == [kind |-> "none", pc |-> "idle", token |-> Null, new |-> Null, late |-> FALSE]

Init ==
  /\ exists = TRUE
  /\ issued = 0
  /\ owner = [t \in Tokens |-> Null]
  /\ held = {}
  /\ expired = {}
  /\ session = [d \in Clients |-> Null]
  /\ blacklist = {}
  /\ calls = [c \in Calls |-> NoCall]
  /\ ended = {}
  /\ banned = {}
  /\ faults = 0

\* generateAccessToken and generateRefreshToken with a fresh sessionId.
Sign(d) ==
  /\ issued < MaxTokens
  /\ issued' = issued + 1
  /\ owner' = [owner EXCEPT ![issued + 1] = d]

\* The value of the session key of client d changes.
PutSession(d, t) ==
  /\ session' = [session EXCEPT ![d] = t]
  /\ ended' = IF session[d] = Null THEN ended ELSE ended \union {session[d]}

Goto(c, pc) == calls' = [calls EXCEPT ![c].pc = pc]
Done(c)     == calls' = [calls EXCEPT ![c] = NoCall]
-----------------------------------------------------------------------------
\* login, up to the signed tokens: the user exists and the password matches.
Login(c, d) ==
  /\ calls[c].pc = "idle" /\ exists
  /\ Sign(d)
  /\ calls' = [calls EXCEPT ![c] = [NoCall EXCEPT !.kind = "login", !.pc = "save",
                                                  !.new = issued + 1]]
  /\ UNCHANGED <<exists, held, expired, redis, past, faults>>

\* A client presents a token it has received.
Request(c, kind, t) ==
  /\ calls[c].pc = "idle" /\ t \in held
  /\ calls' = [calls EXCEPT ![c] =
       [kind |-> kind, token |-> t, new |-> Null,
        pc |-> IF kind = "access" THEN "get" ELSE "check",
        late |-> t \in ended \/ (kind = "refresh" /\ t \in banned)]]
  /\ UNCHANGED <<exists, tokens, redis, past, faults>>

\* isTokenBlacklisted and verifyRefreshToken, of refreshToken and logout.  (An
\* access token is never blacklisted: validate's question is always answered no.)
CheckToken(c) ==
  /\ calls[c].pc = "check"
  /\ IF calls[c].token \in blacklist \union expired THEN Done(c)
     ELSE Goto(c, IF calls[c].kind = "logout" THEN "blacklist" ELSE "get")
  /\ UNCHANGED <<exists, tokens, redis, past, faults>>

\* getSession: a refresh with a token that is not the current one also deletes
\* the session it finds; a request is refused.
GetSession(c) ==
  LET current == session[owner[calls[c].token]]
  IN /\ calls[c].pc = "get"
     /\ IF current = calls[c].token THEN Goto(c, "user")
        ELSE IF calls[c].kind = "refresh" /\ current # Null THEN Goto(c, "delete")
        ELSE Done(c)
     /\ UNCHANGED <<exists, tokens, redis, past, faults>>

\* Access granted, or no such user: nothing is left to do.
FindUserAnswered(c) ==
  /\ calls[c].pc = "user"
  /\ calls[c].kind = "access" \/ ~exists
  /\ Done(c)
  /\ UNCHANGED <<exists, tokens, redis, past, faults>>

\* The old token is blacklisted for the rest of its life; one that expired on
\* the way is not, and the new tokens are signed at once.
FindUserRefresh(c) ==
  /\ calls[c].pc = "user" /\ calls[c].kind = "refresh" /\ exists
  /\ IF calls[c].token \in expired
       THEN /\ Sign(owner[calls[c].token])
            /\ calls' = [calls EXCEPT ![c].pc = "save", ![c].new = issued + 1]
       ELSE Goto(c, "blacklist") /\ UNCHANGED <<issued, owner>>
  /\ UNCHANGED <<exists, held, expired, redis, past, faults>>

\* Variant: the token to come instead of the one presented.
Blacklist_New(c) ==
  /\ blacklist' = blacklist \union {calls[c].new}
  /\ banned' = banned \union {calls[c].new}

Blacklist(c) ==
  /\ blacklist' = blacklist \union {calls[c].token}
  /\ banned' = banned \union {calls[c].token}

\* refreshToken: blacklistToken, and the new tokens.
RotateToken(c) ==
  /\ calls[c].pc = "blacklist" /\ calls[c].kind = "refresh"
  /\ Blacklist(c)
  /\ Sign(owner[calls[c].token])
  /\ calls' = [calls EXCEPT ![c].pc = "save", ![c].new = issued + 1]
  /\ UNCHANGED <<exists, held, expired, session, ended, faults>>

\* Variant: the token is blacklisted and the session left to its TTL.
RevokeToken_KeepSession(c) ==
  /\ calls[c].pc = "blacklist" /\ calls[c].kind = "logout"
  /\ Blacklist(c)
  /\ Done(c)
  /\ UNCHANGED <<exists, tokens, session, ended, faults>>

\* logout: blacklistToken.
RevokeToken(c) ==
  /\ calls[c].pc = "blacklist" /\ calls[c].kind = "logout"
  /\ Blacklist(c)
  /\ Goto(c, "delete")
  /\ UNCHANGED <<exists, tokens, session, ended, faults>>

\* deleteSession, whatever session the client has by now.
DeleteSession(c) ==
  /\ calls[c].pc = "delete"
  /\ PutSession(owner[calls[c].token], Null)
  /\ Done(c)
  /\ UNCHANGED <<exists, tokens, blacklist, banned, faults>>

\* saveSession; the tokens are returned to the client.
SaveSession(c) ==
  /\ calls[c].pc = "save"
  /\ PutSession(owner[calls[c].new], calls[c].new)
  /\ held' = held \union {calls[c].new}
  /\ Done(c)
  /\ UNCHANGED <<exists, issued, owner, expired, blacklist, banned, faults>>
-----------------------------------------------------------------------------
ExpireToken(t) ==
  /\ t \in held \ expired
  /\ expired' = expired \union {t}
  /\ UNCHANGED <<exists, issued, owner, held, redis, calls, past, faults>>

ExpireSession(d) ==
  /\ session[d] # Null
  /\ PutSession(d, Null)
  /\ UNCHANGED <<exists, tokens, blacklist, calls, banned, faults>>

\* Variant: an entry with a TTL of its own, which may end before the token expires.
ExpireBlacklist_Early(t) ==
  /\ t \in blacklist
  /\ blacklist' = blacklist \ {t}
  /\ UNCHANGED <<exists, tokens, session, calls, past, faults>>

\* The TTL of the entry is the rest of the token's life and two minutes more.
ExpireBlacklist(t) ==
  /\ t \in blacklist /\ t \in expired
  /\ blacklist' = blacklist \ {t}
  /\ UNCHANGED <<exists, tokens, session, calls, past, faults>>

\* users.delete, the end of deleteAccount; the keys in Redis stay.
DeleteUser ==
  /\ exists
  /\ exists' = FALSE
  /\ UNCHANGED <<tokens, redis, calls, past, faults>>

Busy == {c \in Calls : calls[c].pc # "idle"}

\* A rejected call ends its request; a crash ends them all.  Redis stays.
Fault(K) ==
  /\ K # {} /\ faults < MaxFaults
  /\ faults' = faults + 1
  /\ calls' = [c \in Calls |-> IF c \in K THEN NoCall ELSE calls[c]]
  /\ UNCHANGED <<exists, tokens, redis, past>>

CallStep(c) ==
  \/ CheckToken(c)
  \/ GetSession(c)
  \/ FindUserAnswered(c)
  \/ FindUserRefresh(c)
  \/ RotateToken(c)
  \/ RevokeToken(c)
  \/ DeleteSession(c)
  \/ SaveSession(c)

Next ==
  \/ \E c \in Calls, d \in Clients : Login(c, d)
  \/ \E c \in Calls, t \in Tokens, kind \in {"refresh", "logout", "access"} :
       Request(c, kind, t)
  \/ \E c \in Calls : CallStep(c)
  \/ \E t \in Tokens : ExpireToken(t) \/ ExpireBlacklist(t)
  \/ \E d \in Clients : ExpireSession(d)
  \/ DeleteUser
  \/ \E c \in Busy : Fault({c})
  \/ Fault(Busy)

Spec == Init /\ [][Next]_vars
-----------------------------------------------------------------------------
(* Properties *)

Call == [kind : Kinds, pc : Pcs, token : Tokens \union {Null},
         new : Tokens \union {Null}, late : BOOLEAN]

TypeOK ==
  /\ exists \in BOOLEAN
  /\ issued \in 0..MaxTokens
  /\ owner \in [Tokens -> Clients \union {Null}]
  /\ held \subseteq Tokens
  /\ expired \subseteq Tokens
  /\ session \in [Clients -> Tokens \union {Null}]
  /\ blacklist \subseteq Tokens
  /\ calls \in [Calls -> Call]
  /\ ended \subseteq Tokens
  /\ banned \subseteq Tokens
  /\ faults \in 0..MaxFaults

\* A client is never left with a session whose refresh token is refused: while
\* the current token is blacklisted, a request that presented it is about to
\* replace or delete the session, unless one died in between.
\* (auth.service.ts:95-103, 144-166)
CurrentTokenUsable ==
  \A d \in Clients : session[d] \in blacklist =>
    \/ \E c \in Calls : calls[c].token = session[d] /\ calls[c].pc \in {"save", "delete"}
    \/ faults > 0

\* A token that was replaced, logged out or lost its session is never accepted
\* from a request that arrives later, nor is a refresh token that was once
\* blacklisted, whatever else is in progress, after the entry of the blacklist is
\* gone and after a crash that left the session in place.
\* (auth.service.ts:117-135, jwt.strategy.ts:39-56)
RetiredTokensRefused ==
  \A c \in Calls : calls[c].late =>
    \/ calls[c].kind = "logout"
    \/ calls[c].pc \in {"check", "get", "delete"}
=============================================================================
