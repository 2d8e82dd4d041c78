------------------------------ MODULE Accounts ------------------------------
(***************************************************************************)
(* Accounts: sign-up, login by one-time code, password or Google, the      *)
(* password reset, the lockout after wrong codes, and the change of a      *)
(* login contact.  A login handler loads the account without a lock and    *)
(* then saves every column of what it loaded, once or several times; what  *)
(* it will save is fixed when it loads.  The contact change and the first  *)
(* password work under the lock of the account's row.                      *)
(*                                                                         *)
(* A contact is an e-mail address or a phone number in one written form;   *)
(* of the two contact columns of an account the model follows one.         *)
(***************************************************************************)
EXTENDS Integers, Sequences, FiniteSets

CONSTANTS
    Users,          \* accounts that may be created
    Contacts,       \* contacts an account may have
    Requests,       \* handler activations that can be in flight
    OtpValid,       \* otp_expiry_minutes, and OTP_VALID_MINUTES of the contact change
    ResendWait,     \* otp_resend_seconds, and MIN_SECONDS_BETWEEN_REQUESTS
    LockoutTime,    \* how long a lockout lasts
    MaxAttempts,    \* wrong codes that lock an account, or burn a contact code
    MaxCodes,       \* bound on the codes issued
    MaxHandlers,    \* bound on the handlers that start
    MaxTime,        \* bound on the clock
    None

ASSUME AccountsAssumption ==
    /\ {OtpValid, ResendWait, MaxCodes, MaxHandlers, MaxTime} \subseteq Nat
    /\ {LockoutTime, MaxAttempts} \subseteq Nat \ {0} /\ None \notin Contacts

VARIABLES
    account,    \* the users table
    req,        \* the handlers in flight
    started,    \* handlers started so far
    issued,     \* codes generated so far; a code is its number
    sentTo,     \* the contact each code of a contact change went to
    proven,     \* <<u, c>>: c was given at sign-up, or its code was entered by u
    guessed,    \* history: wrong codes answered since the count was last cleared
    uncounted,  \* history: saves since then that put an older count over a newer one
    now

guessVars == <<guessed, uncounted>>
accountVars == <<account, req, started, issued, sentTo, proven, guessVars, now>>
-----------------------------------------------------------------------------
(* A code 0, an expiry 0 and a lockout 0 stand for NULL. *)
Row == [contact : Contacts \cup {None}, active : BOOLEAN, password : BOOLEAN, session : BOOLEAN,
        otp : Nat, otp_expiry : Nat, otp_attempts : Nat, lockout_until : Nat,
        pending : Contacts \cup {None}, contact_otp : Nat, contact_otp_expiry : Nat,
        contact_otp_attempts : Nat, requested_at : Int]
NewRow(c) == [contact |-> c, active |-> TRUE, password |-> FALSE, session |-> FALSE,
              otp |-> 0, otp_expiry |-> 0, otp_attempts |-> 0, lockout_until |-> 0,
              pending |-> None, contact_otp |-> 0, contact_otp_expiry |-> 0,
              contact_otp_attempts |-> 0, requested_at |-> -ResendWait]
NoRow == NewRow(None)

(* The columns that count the wrong codes of a login and of a contact.     *)
LoginCount(row) == <<row.otp_attempts, row.lockout_until>>
ContactCount(row) == <<row.pending, row.contact_otp, row.contact_otp_attempts>>
Kinds == {"login", "contact"}

(* saves are the rows still to be saved; base is the count of logins as it *)
(* was last loaded or saved; miss says that the code was a wrong one; lock *)
(* is the lock of the row.                                                 *)
Request == [user : Users \cup {None}, saves : Seq(Row), base : Nat \X Nat, miss : BOOLEAN,
            lock : BOOLEAN, sms : BOOLEAN]
Idle == [user |-> None, saves |-> <<>>, base |-> <<0, 0>>, miss |-> FALSE, lock |-> FALSE, sms |-> FALSE]

Exists(u) == account[u].contact # None
Holds(q, u) == req[q].user = u /\ req[q].lock
RowFree(u, r) == \A q \in Requests \ {r} : ~Holds(q, u)
NotLocked(u) == \A q \in Requests : ~Holds(q, u)

(* The unique columns of the table: an INSERT or UPDATE that repeats a     *)
(* contact raises IntegrityError.                                          *)
(* Mutant: the column is not unique.                                       *)
UniqueUnchecked(u, row) == TRUE

Unique(u, row) == \A v \in Users \ {u} : account[v].contact # row.contact

Taken(u, c) == \E v \in Users \ {u} : account[v].contact = c
-----------------------------------------------------------------------------
(* The rows a login handler saves, from the row it loaded.                 *)
(* Mutant: a lockout is taken for over while it lasts.                     *)
IsLockedTooShort(row) == row.lockout_until > now + LockoutTime

IsLocked(row) == row.lockout_until > now
LockoutOver(row) == row.lockout_until > 0 /\ ~IsLocked(row)

(* is_locked_out: a lockout that is over is cleared and saved at once.     *)
Unlocked(row) == IF LockoutOver(row) THEN [row EXCEPT !.lockout_until = 0, !.otp_attempts = 0]
                                     ELSE row
UnlockSaves(row) == IF LockoutOver(row) THEN <<Unlocked(row)>> ELSE <<>>

generate_otp(row, code) == [row EXCEPT !.otp = code, !.otp_expiry = now + OtpValid]

increment_otp_attempts(row) ==
    [row EXCEPT !.otp_attempts = @ + 1,
                !.lockout_until = IF row.otp_attempts + 1 >= MaxAttempts THEN now + LockoutTime ELSE @]

CodeMatches(row, code) == code # 0 /\ row.otp = code /\ now <= row.otp_expiry
CodeSpent(row) == [row EXCEPT !.otp = 0, !.otp_expiry = 0, !.otp_attempts = 0]

_issue_token(row) == IF row.active THEN <<[row EXCEPT !.session = TRUE]>> ELSE <<>>

Start(r, u, saves, sms, miss) ==
    /\ started < MaxHandlers                                               \* bound
    /\ saves # <<>>
    /\ started' = started + 1
    /\ req' = [req EXCEPT ![r] = [Idle EXCEPT !.user = u, !.saves = saves, !.sms = sms, !.miss = miss,
                                              !.base = LoginCount(account[u])]]
-----------------------------------------------------------------------------
(* Sign-up.  OTP request, registration and Google login look for the       *)
(* contact first; the row, an artist's profile with it, is created in one  *)
(* transaction, whose INSERT may still find the contact taken.  The same   *)
(* handler goes on with the first code or the first session.               *)
SignUp(r, u, c, via) ==
    /\ req[r] = Idle /\ ~Exists(u) /\ ~Taken(u, c)
    /\ \A q \in Requests : req[q].user # u               \* the new row has an id of its own
    /\ LET row == [NewRow(c) EXCEPT !.password = (via = "register")] IN
       \/ /\ via \in {"phone", "email"} /\ issued < MaxCodes                \* bound
          /\ Start(r, u, <<row, generate_otp(row, issued + 1)>>, via = "phone", FALSE)
          /\ issued' = issued + 1
       \/ /\ via \in {"register", "google"}
          /\ Start(r, u, <<row>> \o _issue_token(row), FALSE, FALSE)
          /\ UNCHANGED issued
    /\ UNCHANGED <<account, sentTo, proven, guessVars, now>>

Register(r, u, c) == SignUp(r, u, c, "register")

(* PhoneOTPView, EmailOTPView and forgot_password.  Only the phone login   *)
(* asks for a pause between codes and learns that a message did not arrive.*)
RequestOtp(r, u, via) ==
    /\ req[r] = Idle /\ Exists(u) /\ issued < MaxCodes                      \* bound
    /\ LET row == account[u] IN
       /\ via # "email" => row.active
       /\ ~IsLocked(row)
       /\ IF via = "phone" /\ row.otp_expiry > 0 /\ now - (row.otp_expiry - OtpValid) < ResendWait
          THEN Start(r, u, UnlockSaves(row), FALSE, FALSE) /\ UNCHANGED issued
          ELSE /\ Start(r, u, UnlockSaves(row) \o <<generate_otp(Unlocked(row), issued + 1)>>,
                        via = "phone", FALSE)
               /\ issued' = issued + 1
    /\ UNCHANGED <<account, sentTo, proven, guessVars, now>>

RequestPhoneOtp(r, u) == RequestOtp(r, u, "phone")
RequestEmailOtp(r, u) == RequestOtp(r, u, "email")
ForgotPassword(r, u) == RequestOtp(r, u, "forgot")

VerifyOtp(r, u, code) ==
    /\ req[r] = Idle /\ Exists(u) /\ ~IsLocked(account[u])
    /\ LET row == Unlocked(account[u]) IN
       Start(r, u, UnlockSaves(account[u]) \o
                   (IF CodeMatches(row, code) THEN <<CodeSpent(row)>> \o _issue_token(CodeSpent(row))
                                              ELSE <<increment_otp_attempts(row)>>),
             FALSE, ~CodeMatches(row, code))
    /\ UNCHANGED <<account, issued, sentTo, proven, guessVars, now>>

VerifyPhoneOtp(r, u, code) == VerifyOtp(r, u, code)
VerifyEmailOtp(r, u, code) == VerifyOtp(r, u, code)     \* takes the same steps

ResetPassword(r, u, code) ==
    /\ req[r] = Idle /\ Exists(u) /\ account[u].active /\ ~IsLocked(account[u])
    /\ LET row == Unlocked(account[u]) IN
       Start(r, u, UnlockSaves(account[u]) \o
                   (IF CodeMatches(row, code)
                    THEN <<[CodeSpent(row) EXCEPT !.password = TRUE, !.session = FALSE,
                                                  !.lockout_until = 0]>>
                    ELSE <<increment_otp_attempts(row)>>), FALSE, ~CodeMatches(row, code))
    /\ UNCHANGED <<account, issued, sentTo, proven, guessVars, now>>

(* Logins without a code start from the row they found.                    *)
Login(r, u, saves) ==
    /\ req[r] = Idle /\ Exists(u)
    /\ Start(r, u, saves \o _issue_token(account[u]), FALSE, FALSE)
    /\ UNCHANGED <<account, issued, sentTo, proven, guessVars, now>>

PasswordLogin(r, u) == account[u].password /\ Login(r, u, <<>>)

(* The first time, it links the account that has the e-mail address.       *)
GoogleLogin(r, u, first) == Login(r, u, IF first THEN <<account[u]>> ELSE <<>>)

RefreshToken(r, u) == account[u].session /\ Login(r, u, <<>>)

(* A request under a valid session: the stored token, and an active user.  *)
Authenticated(u) == Exists(u) /\ account[u].session /\ account[u].active

(* update_extract keeps the contacts and saves the whole row.              *)
UpdateProfile(r, u) ==
    /\ req[r] = Idle /\ Authenticated(u)
    /\ Start(r, u, <<account[u]>>, FALSE, FALSE)
    /\ UNCHANGED <<account, issued, sentTo, proven, guessVars, now>>

(* A count is cleared when its lockout is over, or with the code that was  *)
(* right.                                                                  *)
Clears(count, row) ==
    row.otp_attempts < count[1] /\ (count[2] \in 1..now \/ row.otp = 0)

(* A login handler whose count is still the one in the table clears it or  *)
(* adds to it; one that another save has overtaken may write less than is  *)
(* there.  Only a count properly cleared starts the history anew.          *)
Tally(r, u, row, misses) ==
    LET found == account[u]
        fresh == req[r].base = LoginCount(found)
        cleared == fresh /\ Clears(LoginCount(found), row)
        lost == ~fresh /\ row.otp_attempts < found.otp_attempts + misses
    IN  IF req[r].lock
        THEN guessed' = [guessed EXCEPT ![u]["contact"] = @ + misses] /\ UNCHANGED uncounted
        ELSE /\ guessed' = [guessed EXCEPT ![u]["login"] = IF cleared THEN 0 ELSE @ + misses]
             /\ uncounted' = [uncounted EXCEPT
                    ![u]["login"] = IF cleared THEN 0 ELSE IF lost THEN @ + 1 ELSE @,
                    ![u]["contact"] = IF ContactCount(row) # ContactCount(found) THEN @ + 1 ELSE @]

(* One save of the row that was loaded.  A save that breaks a constraint   *)
(* raises and ends the handler, whether the code was right or wrong.       *)
Save(r) ==
    /\ req[r].saves # <<>>
    /\ LET u == req[r].user  row == Head(req[r].saves)  rest == Tail(req[r].saves) IN
       /\ RowFree(u, r)
       /\ IF Unique(u, row)
          THEN /\ account' = [account EXCEPT ![u] = row]
               /\ Tally(r, u, row, IF req[r].miss /\ rest = <<>> THEN 1 ELSE 0)
               /\ proven' = IF Exists(u) THEN proven ELSE proven \cup {<<u, row.contact>>}
               /\ req' = [req EXCEPT ![r] = IF rest = <<>> /\ ~req[r].sms THEN Idle
                                            ELSE [req[r] EXCEPT !.saves = rest, !.base = LoginCount(row)]]
          ELSE req' = [req EXCEPT ![r] = Idle] /\ UNCHANGED <<account, proven, guessVars>>
    /\ UNCHANGED <<started, issued, sentTo, now>>

(* The message goes out, or the gateway refuses it and the code is dropped.*)
SendSms(r) ==
    /\ req[r].sms /\ req[r].saves = <<>>
    /\ \/ UNCHANGED account
       \/ /\ RowFree(req[r].user, r)
          /\ account' = [account EXCEPT ![req[r].user].otp = 0, ![req[r].user].otp_expiry = 0]
    /\ req' = [req EXCEPT ![r] = Idle]
    /\ UNCHANGED <<started, issued, sentTo, proven, guessVars, now>>

Abandon(r) ==              \* a worker dies
    /\ req[r] # Idle
    /\ req' = [req EXCEPT ![r] = Idle]
    /\ UNCHANGED <<started, account, issued, sentTo, proven, guessVars, now>>
-----------------------------------------------------------------------------
(* Column updates. *)
SetPassword(u) ==          \* under the row lock, and only if there is none
    /\ Authenticated(u) /\ ~account[u].password
    /\ NotLocked(u)
    /\ account' = [account EXCEPT ![u].password = TRUE]
    /\ UNCHANGED <<started, req, issued, sentTo, proven, guessVars, now>>

RevokeAllSessions ==       \* the management command
    /\ \E u \in Users : account[u].session
    /\ \A u \in Users : NotLocked(u)
    /\ account' = [u \in Users |-> [account[u] EXCEPT !.session = FALSE]]
    /\ UNCHANGED <<started, req, issued, sentTo, proven, guessVars, now>>

Deactivate(u) ==           \* by an administrator
    /\ Exists(u) /\ account[u].active
    /\ NotLocked(u)
    /\ account' = [account EXCEPT ![u].active = FALSE]
    /\ UNCHANGED <<started, req, issued, sentTo, proven, guessVars, now>>
-----------------------------------------------------------------------------
(* ContactChangeView. *)
_clear_pending(row) == [row EXCEPT !.pending = None, !.contact_otp = 0, !.contact_otp_expiry = 0,
                                   !.contact_otp_attempts = 0]

RequestContactChange(u, c) ==
    /\ Authenticated(u) /\ issued < MaxCodes                               \* bound
    /\ NotLocked(u)
    /\ now - account[u].requested_at >= ResendWait
    /\ c # account[u].contact /\ ~Taken(u, c)
    /\ account' = [account EXCEPT ![u] = [_clear_pending(@) EXCEPT
                      !.pending = c, !.contact_otp = issued + 1,
                      !.contact_otp_expiry = now + OtpValid, !.requested_at = now]]
    /\ issued' = issued + 1
    /\ sentTo' = [sentTo EXCEPT ![issued + 1] = c]
    /\ guessed' = [guessed EXCEPT ![u]["contact"] = 0]
    /\ uncounted' = [uncounted EXCEPT ![u]["contact"] = 0]
    /\ UNCHANGED <<started, req, proven, now>>

(* Mutant: the expiry of the code is looked at, the code is not.           *)
ContactCodeAny(row, code) == code # 0

ContactCode(row, code) == row.contact_otp = code

(* What verify_extract saves; the row is locked from the check to the save.*)
AfterContactCode(u, code) ==
    LET row == account[u] IN
    IF now > row.contact_otp_expiry THEN _clear_pending(row)
    ELSE IF ~ContactCode(row, code)
    THEN IF row.contact_otp_attempts + 1 >= MaxAttempts THEN _clear_pending(row)
         ELSE [row EXCEPT !.contact_otp_attempts = @ + 1]
    ELSE IF Taken(u, row.pending) THEN _clear_pending(row)
    ELSE _clear_pending([row EXCEPT !.contact = row.pending])

VerifyContactChange(r, u, code) ==
    /\ req[r] = Idle /\ Authenticated(u) /\ RowFree(u, r)
    /\ account[u].pending # None /\ account[u].contact_otp # 0
    /\ started < MaxHandlers /\ started' = started + 1                     \* bound
    /\ req' = [req EXCEPT ![r] = [Idle EXCEPT
                   !.user = u, !.lock = TRUE, !.saves = <<AfterContactCode(u, code)>>,
                   !.miss = now <= account[u].contact_otp_expiry /\ account[u].contact_otp # code]]
    /\ proven' = IF now <= account[u].contact_otp_expiry /\ code = account[u].contact_otp
                 THEN proven \cup {<<u, sentTo[code]>>} ELSE proven
    /\ UNCHANGED <<account, issued, sentTo, guessVars, now>>

Tick == /\ now < MaxTime
        /\ now' = now + 1
        /\ UNCHANGED <<started, account, req, issued, sentTo, proven, guessVars>>
-----------------------------------------------------------------------------
AccountsInit == /\ account = [u \in Users |-> NoRow]
                /\ req = [r \in Requests |-> Idle]
                /\ started = 0 /\ issued = 0 /\ sentTo = [code \in 1..MaxCodes |-> None]
                /\ proven = {} /\ now = 0
                /\ guessed = [u \in Users |-> [kind \in Kinds |-> 0]]
                /\ uncounted = [u \in Users |-> [kind \in Kinds |-> 0]]

(* The holder of an account enters any code issued so far, or a wrong one. *)
Entered == 0..issued

AccountsNext ==
    \/ \E r \in Requests, u \in Users :
          \/ \E c \in Contacts : \/ \E via \in {"phone", "email", "google"} : SignUp(r, u, c, via)
                               \/ Register(r, u, c)
          \/ RequestPhoneOtp(r, u) \/ RequestEmailOtp(r, u) \/ ForgotPassword(r, u)
          \/ \E code \in Entered : \/ VerifyPhoneOtp(r, u, code) \/ VerifyEmailOtp(r, u, code)
                                   \/ ResetPassword(r, u, code) \/ VerifyContactChange(r, u, code)
          \/ PasswordLogin(r, u) \/ RefreshToken(r, u) \/ \E first \in BOOLEAN : GoogleLogin(r, u, first)
          \/ UpdateProfile(r, u)
    \/ \E r \in Requests : Save(r) \/ SendSms(r) \/ Abandon(r)
    \/ \E u \in Users : \/ SetPassword(u) \/ Deactivate(u)
                        \/ \E c \in Contacts : RequestContactChange(u, c)
    \/ RevokeAllSessions \/ Tick

AccountsSpec == AccountsInit /\ [][AccountsNext]_accountVars
-----------------------------------------------------------------------------
AccountsTypeOK == /\ account \in [Users -> Row]
                  /\ req \in [Requests -> Request]
                  /\ started \in 0..MaxHandlers /\ issued \in 0..MaxCodes
                  /\ sentTo \in [1..MaxCodes -> Contacts \cup {None}]
                  /\ proven \subseteq Users \X Contacts
                  /\ guessed \in [Users -> [Kinds -> Nat]] /\ uncounted \in [Users -> [Kinds -> Nat]]
                  /\ now \in Nat

(* No two accounts share a contact, though sign-ups and contact changes    *)
(* look for it before they write it.                                       *)
ContactsUnique == \A u, v \in Users : u # v /\ Exists(u) => account[u].contact # account[v].contact

(* ContactChangeView: the contact of an account is one it signed up with   *)
(* or whose own code was entered, whichever saves cross.                   *)
ContactProven == \A u \in Users : Exists(u) => <<u, account[u].contact>> \in proven

(* increment_otp_attempts and verify_extract of the contact change: an     *)
(* account that has taken its last wrong code is locked and a contact code *)
(* is gone with its last wrong guess.  The limit itself is not kept, for a *)
(* row saved over a newer one puts an old count back or lifts a lockout;   *)
(* but only such a save exceeds it, and by MaxAttempts at most.            *)
GuessesBounded ==
    \A u \in Users : /\ account[u].otp_attempts >= MaxAttempts => account[u].lockout_until > 0
                     /\ account[u].contact_otp_attempts < MaxAttempts
                     /\ \A kind \in Kinds : guessed[u][kind] <= MaxAttempts * (1 + uncounted[u][kind])
=============================================================================
