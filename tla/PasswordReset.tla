--------------------------- MODULE PasswordReset ---------------------------
(***************************************************************************)
(* The recovery of the password of one account: sendVerificacionCode and   *)
(* resetPassword (auth.service.ts) over the two Redis keys of its e-mail,  *)
(* the code and the counter of the day (auth-redis.service.ts).  Accounts  *)
(* share no key.                                                           *)
(*                                                                         *)
(* Requests are handled concurrently and every awaited call is a step.     *)
(* Codes are numbered in the order they are drawn, so two draws are        *)
(* different.  Time is abstracted: a key may expire at any moment once it  *)
(* has a TTL.                                                              *)
(***************************************************************************)
EXTENDS Integers, FiniteSets

CONSTANTS
  Null,
  Calls,        \* requests that may be in progress together
  Limit,        \* mails a day: 3
  MaxCodes,     \* bound on the codes drawn
  MaxFaults     \* bound on the failed calls and crashes

ASSUME ResetAssumption ==
  /\ Limit \in Nat \ {0} /\ MaxCodes \in Nat /\ MaxFaults \in Nat
  /\ Null \notin Nat /\ IsFiniteSet(Calls)

Codes == 1..MaxCodes

VARIABLES
  exists,       \* whether the row of the user exists
  drawn,        \* codes drawn so far
  code,         \* imox:auth:verification_code:<email>
  counter,      \* imox:auth:reset_limit:<email>, 0 when absent
  counterTtl,   \* whether that key has a TTL
  mailed,       \* the codes the user has received
  sent,         \* mails since the counter last expired
  password,     \* the code the password was last changed with, Null at first
  used,         \* history: codes of the resets that were completed
  calls,        \* the requests in progress
  faults
limit == <<counter, counterTtl>>
mail  == <<mailed, sent>>
vars  == <<exists, drawn, code, counter, counterTtl, mailed, sent, password, used,
           calls, faults>>

\* `late`: a reset with the same code was complete when the request arrived.
NoCall == [pc |-> "idle", code |-> Null, late |-> FALSE]

Init ==
  /\ exists = TRUE
  /\ drawn = 0
  /\ code = Null
  /\ counter = 0 /\ counterTtl = FALSE
  /\ mailed = {} /\ sent = 0
  /\ password = Null
  /\ used = {}
  /\ calls = [c \in Calls |-> NoCall]
  /\ faults = 0

Goto(c, pc) == calls' = [calls EXCEPT ![c].pc = pc]
Done(c)     == calls' = [calls EXCEPT ![c] = NoCall]
-----------------------------------------------------------------------------
(* sendVerificacionCode *)

\* The user is looked up; a code is asked for.
AskCode(c) ==
  /\ calls[c].pc = "idle" /\ exists
  /\ Goto(c, "limit")
  /\ UNCHANGED <<exists, drawn, code, limit, mail, password, used, faults>>

\* Variant: the limit itself is still below the limit.
CheckLimit_OneMore(c) ==
  /\ calls[c].pc = "limit"
  /\ IF counter > Limit THEN Done(c) /\ UNCHANGED drawn
     ELSE /\ drawn < MaxCodes
          /\ drawn' = drawn + 1
          /\ calls' = [calls EXCEPT ![c].pc = "saveCode", ![c].code = drawn + 1]
  /\ UNCHANGED <<exists, code, limit, mail, password, used, faults>>

\* Variant: the code of the call is the one before the one drawn.
CheckLimit_Previous(c) ==
  /\ calls[c].pc = "limit"
  /\ IF counter >= Limit THEN Done(c) /\ UNCHANGED drawn
     ELSE /\ drawn < MaxCodes
          /\ drawn' = drawn + 1
          /\ calls' = [calls EXCEPT ![c].pc = "saveCode", ![c].code = drawn]
  /\ UNCHANGED <<exists, code, limit, mail, password, used, faults>>

\* getResetAttempts, and the code drawn below the limit.
CheckLimit(c) ==
  /\ calls[c].pc = "limit"
  /\ IF counter >= Limit THEN Done(c) /\ UNCHANGED drawn
     ELSE /\ drawn < MaxCodes
          /\ drawn' = drawn + 1
          /\ calls' = [calls EXCEPT ![c].pc = "saveCode", ![c].code = drawn + 1]
  /\ UNCHANGED <<exists, code, limit, mail, password, used, faults>>

SaveCode(c) ==
  /\ calls[c].pc = "saveCode"
  /\ code' = calls[c].code
  /\ Goto(c, "send")
  /\ UNCHANGED <<exists, drawn, limit, mail, password, used, faults>>

\* The mail service accepts the mail.
SendMail(c) ==
  /\ calls[c].pc = "send"
  /\ mailed' = mailed \union {calls[c].code}
  /\ sent' = sent + 1
  /\ Goto(c, "incr")
  /\ UNCHANGED <<exists, drawn, code, limit, password, used, faults>>

\* Variant: the TTL is set when the limit is reached, not by the first mail.
Increment_LastSetsTtl(c) ==
  /\ calls[c].pc = "incr"
  /\ counter' = counter + 1
  /\ IF counter' = Limit THEN Goto(c, "expire") ELSE Done(c)
  /\ UNCHANGED <<exists, drawn, code, counterTtl, mail, password, used, faults>>

\* INCR, which creates the key without TTL; only the first one sets it.
Increment(c) ==
  /\ calls[c].pc = "incr"
  /\ counter' = counter + 1
  /\ IF counter' = 1 THEN Goto(c, "expire") ELSE Done(c)
  /\ UNCHANGED <<exists, drawn, code, counterTtl, mail, password, used, faults>>

SetCounterTtl(c) ==
  /\ calls[c].pc = "expire"
  /\ counterTtl' = (counter > 0)
  /\ Done(c)
  /\ UNCHANGED <<exists, drawn, code, counter, mail, password, used, faults>>
-----------------------------------------------------------------------------
(* resetPassword *)

\* A code the user received, of any age.
AskReset(c, k) ==
  /\ calls[c].pc = "idle" /\ k \in mailed
  /\ calls' = [calls EXCEPT ![c] = [pc |-> "readCode", code |-> k, late |-> k \in used]]
  /\ UNCHANGED <<exists, drawn, code, limit, mail, password, used, faults>>

ReadCode(c) ==
  /\ calls[c].pc = "readCode"
  /\ IF code = calls[c].code THEN Goto(c, "findUser") ELSE Done(c)
  /\ UNCHANGED <<exists, drawn, code, limit, mail, password, used, faults>>

FindUser(c) ==
  /\ calls[c].pc = "findUser"
  /\ IF exists THEN Goto(c, "update") ELSE Done(c)
  /\ UNCHANGED <<exists, drawn, code, limit, mail, password, used, faults>>

\* users.update; the update of a row that is gone is an error.
UpdatePassword(c) ==
  /\ calls[c].pc = "update"
  /\ IF exists THEN password' = calls[c].code /\ Goto(c, "deleteCode")
     ELSE Done(c) /\ UNCHANGED password
  /\ UNCHANGED <<exists, drawn, code, limit, mail, used, faults>>

\* Variant: the code is left to its TTL.
DeleteCode_LeftToTtl(c) ==
  /\ calls[c].pc = "deleteCode"
  /\ used' = used \union {calls[c].code}
  /\ Done(c)
  /\ UNCHANGED <<exists, drawn, code, limit, mail, password, faults>>

\* deleteVerificationCode deletes the key, whatever code is there by now.
DeleteCode(c) ==
  /\ calls[c].pc = "deleteCode"
  /\ code' = Null
  /\ used' = used \union {calls[c].code}
  /\ Done(c)
  /\ UNCHANGED <<exists, drawn, limit, mail, password, faults>>
-----------------------------------------------------------------------------
ExpireCode ==
  /\ code # Null
  /\ code' = Null
  /\ UNCHANGED <<exists, drawn, limit, mail, password, used, calls, faults>>

ExpireCounter ==
  /\ counterTtl
  /\ counter' = 0 /\ counterTtl' = FALSE /\ sent' = 0
  /\ UNCHANGED <<exists, drawn, code, mailed, password, used, calls, faults>>

\* users.delete, by deleteAccount.
DeleteUser ==
  /\ exists
  /\ exists' = FALSE
  /\ UNCHANGED <<drawn, code, limit, mail, password, used, calls, faults>>

Busy == {c \in Calls : calls[c].pc # "idle"}

\* A rejected call, the mail service's included, ends its request; a crash ends
\* them all.  The keys stay.
Fault(K) ==
  /\ K # {} /\ faults < MaxFaults
  /\ faults' = faults + 1
  /\ calls' = [c \in Calls |-> IF c \in K THEN NoCall ELSE calls[c]]
  /\ UNCHANGED <<exists, drawn, code, limit, mail, password, used>>

CallStep(c) ==
  \/ CheckLimit(c)
  \/ SaveCode(c)
  \/ SendMail(c)
  \/ Increment(c)
  \/ SetCounterTtl(c)
  \/ ReadCode(c)
  \/ FindUser(c)
  \/ UpdatePassword(c)
  \/ DeleteCode(c)

Next ==
  \/ \E c \in Calls : AskCode(c) \/ CallStep(c)
  \/ \E c \in Calls, k \in Codes : AskReset(c, k)
  \/ ExpireCode
  \/ ExpireCounter
  \/ DeleteUser
  \/ \E c \in Busy : Fault({c})
  \/ Fault(Busy)

Spec == Init /\ [][Next]_vars
-----------------------------------------------------------------------------
(* Properties *)

At(pcs) == Cardinality({c \in Calls : calls[c].pc \in pcs})

TypeOK ==
  /\ exists \in BOOLEAN
  /\ drawn \in 0..MaxCodes
  /\ code \in Codes \union {Null}
  /\ counter \in 0..MaxCodes
  /\ counterTtl \in BOOLEAN
  /\ mailed \subseteq Codes
  /\ sent \in 0..MaxCodes
  /\ password \in Codes \union {Null}
  /\ used \subseteq Codes
  /\ calls \in [Calls -> [pc : {"idle", "limit", "saveCode", "send", "incr", "expire", "readCode",
                                "findUser", "update", "deleteCode"},
                          code : Codes \union {Null}, late : BOOLEAN]]
  /\ faults \in 0..MaxFaults

\* The limit is read before the mail and counted after it, so it is exceeded,
\* but only by the other requests that may be in progress, and by the mails that
\* a crash left uncounted.  (auth.service.ts:186-192, 240-243)
MailsBounded == sent =< Limit + (Cardinality(Calls) - 1) + faults * Cardinality(Calls)

\* Nobody stays locked out for good: a counter without TTL is about to get one,
\* unless the request that had to set it died.  (auth-redis.service.ts:119-131)
LockoutEnds == counter > 0 /\ ~counterTtl => At({"expire"}) > 0 \/ faults > 0

\* A code changes the password for good: once its reset is complete, a request
\* that arrives later with the same code does not reach the account, whatever
\* other codes and resets are in progress.  (auth.service.ts:268-297)
UsedCodesRefused == \A c \in Calls : calls[c].late => calls[c].pc = "readCode"
=============================================================================
