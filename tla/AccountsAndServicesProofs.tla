--------------------- MODULE AccountsAndServicesProofs ----------------------
(***************************************************************************)
(* Accounts keep contacts of their own, each proven by its own code, and   *)
(* guessing at codes and PINs is bounded but for the guesses a row saved   *)
(* whole forgets, each such save counted: for every set of accounts,       *)
(* contacts, handlers and limits.  After them the services around them,    *)
(* one after the other: chat, help centre, reminders, address book, stored *)
(* files and lists, for every number of clients, handlers, rows and files. *)
(***************************************************************************)
EXTENDS Credentials, AppServices, FiniteSetTheorems, SequenceTheorems, WellFoundedInduction, TLAPS

-----------------------------------------------------------------------------
(* Accounts.  What a row shows that is stored or about to be: the limits   *)
(* on guesses are kept, and the code of a contact change is the one that   *)
(* was sent to the contact to be.                                          *)
Sane(row) ==
    /\ row.otp_attempts <= MaxAttempts
    /\ row.otp_attempts = MaxAttempts => row.lockout_until > 0
    /\ row.contact_otp_attempts < MaxAttempts
    /\ row.contact_otp <= issued
    /\ row.pending # None /\ row.contact_otp # 0 => sentTo[row.contact_otp] = row.pending

(* The rows with which a handler may overwrite an account: all those of    *)
(* one handler have the same contact.                                      *)
Savable(c) == {row \in Row : row.contact = c /\ Sane(row)}

SavesInv(q) ==
    q.saves # <<>> =>
        \E c \in Contacts : /\ q.saves \in Seq(Savable(c))
                            /\ q.user \in Users
                            /\ Exists(q.user) => <<q.user, c>> \in proven

(* An account that does not exist yet is being made by one handler only.   *)
SoleCreator == \A q, r \in Requests :
    /\ req[q].saves # <<>> /\ req[r].saves # <<>>
    /\ req[q].user = req[r].user /\ ~Exists(req[q].user)
    => q = r

AccountsInv ==
    /\ AccountsTypeOK
    /\ \A u \in Users : Sane(account[u])
    /\ \A r \in Requests : SavesInv(req[r])
    /\ SoleCreator
    /\ ContactsUnique
    /\ ContactProven

(* How many guesses the history counts beyond the stored counters: none,   *)
(* but for the saves that put an older count back.                         *)
TallyInv(u) ==
    /\ guessed[u].login <= account[u].otp_attempts + MaxAttempts * uncounted[u].login
    /\ guessed[u].contact <= MaxAttempts * (1 + uncounted[u].contact)
    /\ account[u].pending # None =>
           guessed[u].contact <= account[u].contact_otp_attempts + MaxAttempts * uncounted[u].contact

(* A handler that was given a wrong code adds one to the count it loaded,  *)
(* in the last row it saves; the one that holds the lock adds it to the    *)
(* count that is stored, or drops the contact code.                        *)
MissInv(q) ==
    q.miss /\ ~q.lock /\ q.saves # <<>> =>
        \/ Len(q.saves) = 1 /\ q.saves[1].otp_attempts = q.base[1] + 1
        \/ Len(q.saves) = 2 /\ q.saves[2].otp_attempts = q.saves[1].otp_attempts + 1
LockInv(q) ==
    q.lock /\ q.saves # <<>> =>
        /\ Len(q.saves) = 1 /\ q.user \in Users
        /\ q.saves[1].otp_attempts = account[q.user].otp_attempts
        /\ account[q.user].pending # None
        /\ q.saves[1].pending # None =>
               /\ q.miss
               /\ q.saves[1].contact_otp_attempts = account[q.user].contact_otp_attempts + 1

(* No save lowers the count it started from but to clear it.               *)
Fair(count, row) == row.otp_attempts < count[1] => Clears(count, row)
Steady(count, saves) ==
    /\ Fair(count, saves[1])
    /\ \A i \in 1..(Len(saves) - 1) : Fair(LoginCount(saves[i]), saves[i + 1])
ClearInv(q) == ~q.lock /\ q.saves # <<>> => Steady(q.base, q.saves)

HandlerCounts(q) == MissInv(q) /\ LockInv(q) /\ ClearInv(q)
CountsInv == (\A u \in Users : TallyInv(u)) /\ \A r \in Requests : HandlerCounts(req[r])

-----------------------------------------------------------------------------
(* ServicePins.  A row of the PIN is locked exactly when its guesses are   *)
(* spent.  A row in hand, to be saved or still to be loaded, is worth the  *)
(* guesses it leaves.                                                      *)
Spent(row) == row.attempts >= MaxGuesses
RowLocked(row) == row.locked_until # Never <=> Spent(row)
Left(row) == IF Spent(row) THEN 0 ELSE MaxGuesses - row.attempts
Less(n) == IF n = 0 THEN 0 ELSE n - 1
InHand(g) == guess[g].step \in {"missed", "count"}
Worth(g) == IF guess[g].step = "count" THEN Left(guess[g].row) ELSE Less(Left(pinRow))

(* The wrong guesses so far, those still possible, and the bound, all      *)
(* doubled: with nothing in hand, with one row in hand, and with two.  The *)
(* row d leaves is in the table, e and f are in hand.                      *)
Bound == MaxGuesses * (MaxGuesses + 3)
Up(n) == n * (n + 1)
FitNone(w, d) == 2 * w + 2 * d + Up(d) <= Bound
FitOne(w, d, e) == /\ 2 * w + 2 * e + 2 * d + Up(e) <= Bound
                   /\ 2 * w + 2 * e + Up(d) <= Bound
FitTwo(w, e, f) == /\ 2 * w + 2 * e + 2 * f + Up(e) <= Bound
                   /\ 2 * w + 2 * e + 2 * f + Up(f) <= Bound

NoneHeld == (\A g \in Guessers : ~InHand(g)) => FitNone(wrong, Left(pinRow))
OneHeld == \A g \in Guessers :
    InHand(g) /\ (\A h \in Guessers \ {g} : ~InHand(h)) => FitOne(wrong, Left(pinRow), Worth(g))
TwoHeld == \A g, h \in Guessers :
    g # h /\ InHand(g) /\ InHand(h) => FitTwo(wrong, Worth(g), Worth(h))
Fits == NoneHeld /\ OneHeld /\ TwoHeld

HandsInv == \A g \in Guessers :
    /\ guess[g].step = "count" => RowLocked(guess[g].row) /\ Left(guess[g].row) < MaxGuesses
    /\ guess[g].step = "unlock" => guess[g].row.attempts = 0 /\ guess[g].row.locked_until = Never

PinsInv ==
    /\ PinsTypeOK
    /\ RowLocked(pinRow) /\ HandsInv
    /\ Cardinality(Guessers) <= 2 => Fits

CredentialsInv == AccountsInv /\ CountsInv /\ PinsInv

-----------------------------------------------------------------------------
(* Codes are only ever added: what a row says of the codes stays true.     *)
LEMMA SaneStays ==
    ASSUME AccountsTypeOK, issued' \in Nat, issued <= issued',
           \A k \in 1..issued : sentTo'[k] = sentTo[k],
           NEW row \in Row, Sane(row)
    PROVE  Sane(row)'
<1>1. row.contact_otp \in Nat /\ issued \in Nat
  BY AccountsAssumption DEF AccountsTypeOK, Row
<1>2. row.contact_otp # 0 => row.contact_otp \in 1..issued
  BY <1>1 DEF Sane
<1> QED
  BY <1>1, <1>2 DEF Sane

LEMMA SavableStays ==
    ASSUME AccountsTypeOK, issued' \in Nat, issued <= issued',
           \A k \in 1..issued : sentTo'[k] = sentTo[k],
           NEW c \in Contacts
    PROVE  Seq(Savable(c)) \subseteq Seq(Savable(c)')
<1>1. Savable(c) \subseteq Savable(c)'
  <2> SUFFICES ASSUME NEW row \in Savable(c) PROVE row \in Savable(c)'
    OBVIOUS
  <2>1. row \in Row /\ row.contact = c /\ Sane(row)
    BY DEF Savable
  <2>2. Sane(row)'
    BY <2>1, SaneStays
  <2> QED
    BY <2>1, <2>2 DEF Savable
<1> HIDE DEF Savable
<1> QED
  BY <1>1

(* The rows that handlers derive from a row they loaded are savable.       *)
LEMMA StoredSavable ==
    ASSUME AccountsInv, NEW u \in Users, Exists(u)
    PROVE  account[u].contact \in Contacts /\ account[u] \in Savable(account[u].contact)
  BY DEF AccountsInv, AccountsTypeOK, Savable, Exists, Row

(* A row that differs from a savable one in the login columns only, and    *)
(* keeps the limit.                                                        *)
LEMMA ChangeSavable ==
    ASSUME NEW c \in Contacts, NEW row \in Savable(c), NEW new \in Row,
           \A k \in {"contact", "pending", "contact_otp", "contact_otp_attempts"} : new[k] = row[k],
           new.otp_attempts <= MaxAttempts,
           new.otp_attempts = MaxAttempts => new.lockout_until > 0
    PROVE  new \in Savable(c)
<1>1. row.contact = c /\ Sane(row)
  BY DEF Savable
<1>2. /\ new.contact = row.contact /\ new.pending = row.pending
      /\ new.contact_otp = row.contact_otp
      /\ new.contact_otp_attempts = row.contact_otp_attempts
  OBVIOUS
<1>3. Sane(new)
  BY <1>1, <1>2 DEF Sane
<1> QED
  BY <1>1, <1>2, <1>3 DEF Savable

LEMMA NewRowSavable ==
    ASSUME AccountsTypeOK, NEW c \in Contacts, NEW p \in BOOLEAN
    PROVE  [NewRow(c) EXCEPT !.password = p] \in Savable(c)
<1> DEFINE R == [NewRow(c) EXCEPT !.password = p]
<1>1. -ResendWait \in Int /\ MaxAttempts \in Nat \ {0} /\ issued \in Nat
  BY AccountsAssumption DEF AccountsTypeOK
<1>2. R \in Row
  BY <1>1 DEF NewRow, Row
<1>3. /\ R.contact = c /\ R.otp_attempts = 0 /\ R.contact_otp_attempts = 0
      /\ R.contact_otp = 0
  BY DEF NewRow
<1> HIDE DEF R
<1>4. Sane(R)
  BY <1>1, <1>3 DEF Sane
<1> QED
  BY <1>2, <1>3, <1>4 DEF Savable, R

LEMMA OtpSavable ==
    ASSUME AccountsTypeOK, NEW c \in Contacts, NEW row \in Savable(c), NEW code \in Nat
    PROVE  generate_otp(row, code) \in Savable(c)
<1> DEFINE R == generate_otp(row, code)
<1>1. row \in Row /\ Sane(row) /\ now + OtpValid \in Nat
  BY AccountsAssumption DEF AccountsTypeOK, Savable
<1>2. R \in Row /\ R.otp_attempts = row.otp_attempts /\ R.lockout_until = row.lockout_until
  BY <1>1 DEF generate_otp, Row
<1>3. \A k \in {"contact", "pending", "contact_otp", "contact_otp_attempts"} : R[k] = row[k]
  BY <1>1 DEF generate_otp, Row
<1> HIDE DEF R
<1>4. R.otp_attempts <= MaxAttempts /\ (R.otp_attempts = MaxAttempts => R.lockout_until > 0)
  BY <1>1, <1>2 DEF Sane
<1> QED
  BY <1>2, <1>3, <1>4, ChangeSavable DEF R

LEMMA UnlockedSavable ==
    ASSUME AccountsTypeOK, NEW c \in Contacts, NEW row \in Savable(c)
    PROVE  Unlocked(row) \in Savable(c) /\ UnlockSaves(row) \in Seq(Savable(c))
<1> DEFINE R == [row EXCEPT !.lockout_until = 0, !.otp_attempts = 0]
<1>1. row \in Row
  BY DEF Savable
<1>2. R \in Row /\ R.otp_attempts = 0
  BY <1>1 DEF Row
<1>3. \A k \in {"contact", "pending", "contact_otp", "contact_otp_attempts"} : R[k] = row[k]
  BY <1>1 DEF Row
<1> HIDE DEF R
<1>4. R.otp_attempts <= MaxAttempts /\ R.otp_attempts # MaxAttempts
  BY <1>2, AccountsAssumption
<1>5. R \in Savable(c)
  BY <1>2, <1>3, <1>4, ChangeSavable
<1>6. Unlocked(row) \in Savable(c)
  BY <1>5 DEF Unlocked, R
<1> HIDE DEF Savable
<1> QED
  BY <1>6 DEF UnlockSaves

LEMMA MissSavable ==
    ASSUME AccountsTypeOK, NEW c \in Contacts, NEW row \in Savable(c), row.otp_attempts < MaxAttempts
    PROVE  /\ increment_otp_attempts(row) \in Savable(c)
           /\ increment_otp_attempts(row).otp_attempts = row.otp_attempts + 1
<1> DEFINE R == increment_otp_attempts(row)
<1> row \in Row /\ row.otp_attempts \in Nat /\ now \in Nat /\ LockoutTime \in Nat \ {0}
  BY AccountsAssumption DEF AccountsTypeOK, Savable, Row
<1>1. /\ row.otp_attempts + 1 \in Nat
      /\ now + LockoutTime \in Nat /\ now + LockoutTime > 0
  OBVIOUS
<1>2. /\ R \in Row /\ R.otp_attempts = row.otp_attempts + 1
      /\ R.lockout_until = IF row.otp_attempts + 1 >= MaxAttempts THEN now + LockoutTime
                                                               ELSE row.lockout_until
  BY <1>1 DEF increment_otp_attempts, Row
<1>3. \A k \in {"contact", "pending", "contact_otp", "contact_otp_attempts"} : R[k] = row[k]
  BY <1>1 DEF increment_otp_attempts, Row
<1> HIDE DEF R
<1>4. R.otp_attempts <= MaxAttempts /\ (R.otp_attempts = MaxAttempts => R.lockout_until > 0)
  BY <1>1, <1>2, AccountsAssumption
<1> QED
  BY <1>2, <1>3, <1>4, ChangeSavable DEF R

LEMMA SpentSavable ==
    ASSUME AccountsTypeOK, NEW c \in Contacts, NEW row \in Savable(c)
    PROVE  /\ CodeSpent(row) \in Savable(c)
           /\ [CodeSpent(row) EXCEPT !.password = TRUE, !.session = FALSE, !.lockout_until = 0]
                  \in Savable(c)
<1> DEFINE R == CodeSpent(row)
           Q == [R EXCEPT !.password = TRUE, !.session = FALSE, !.lockout_until = 0]
<1>1. row \in Row
  BY DEF Savable
<1>2. R \in Row /\ R.otp_attempts = 0
  BY <1>1 DEF CodeSpent, Row
<1>3. \A k \in {"contact", "pending", "contact_otp", "contact_otp_attempts"} : R[k] = row[k]
  BY <1>1 DEF CodeSpent, Row
<1> HIDE DEF R
<1>4. Q \in Row /\ Q.otp_attempts = 0
  BY <1>2 DEF Row
<1>5. \A k \in {"contact", "pending", "contact_otp", "contact_otp_attempts"} : Q[k] = R[k]
  BY <1>2 DEF Row
<1> HIDE DEF Q
<1>6. /\ R.otp_attempts <= MaxAttempts /\ R.otp_attempts # MaxAttempts
      /\ Q.otp_attempts <= MaxAttempts /\ Q.otp_attempts # MaxAttempts
  BY <1>2, <1>4, AccountsAssumption
<1>7. R \in Savable(c)
  BY <1>2, <1>3, <1>6, ChangeSavable
<1>8. Q \in Savable(c)
  BY <1>4, <1>5, <1>6, <1>7, ChangeSavable
<1> QED
  BY <1>7, <1>8 DEF Q, R

LEMMA TokenSavable ==
    ASSUME NEW c \in Contacts, NEW row \in Savable(c)
    PROVE  _issue_token(row) \in Seq(Savable(c))
<1>1. [row EXCEPT !.session = TRUE] \in Savable(c)
  BY DEF Savable, Row, Sane
<1> HIDE DEF Savable
<1> QED
  BY <1>1 DEF _issue_token

-----------------------------------------------------------------------------
(* A step that changes no contact of an account keeps the invariant if the *)
(* rows it stores and those it hands to a handler are savable.             *)
CodesKept == issued' \in Nat /\ issued <= issued' /\ \A k \in 1..issued : sentTo'[k] = sentTo[k]

LEMMA QuietStep ==
    ASSUME AccountsInv, AccountsTypeOK', CodesKept, proven \subseteq proven',
           \A u \in Users : account'[u].contact = account[u].contact /\ Sane(account[u])',
           \A q \in Requests :
              \/ req'[q] = req[q]
              \/ req'[q].saves = <<>>
              \/ /\ SavesInv(req[q])'
                 /\ \A p \in Requests \ {q} : req'[p] = req[p]
                 /\ \/ Exists(req'[q].user) /\ req'[q].user \in Users
                    \/ \A p \in Requests : req[p].user # req'[q].user
    PROVE  AccountsInv'
<1> USE DEF CodesKept
<1>1. \A u \in Users : Exists(u)' <=> Exists(u)
  BY DEF Exists
<1>2. \A q \in Requests : SavesInv(req[q])'
  <2> SUFFICES ASSUME NEW q \in Requests, req'[q] = req[q], req[q].saves # <<>>
               PROVE  SavesInv(req[q])'
    BY DEF SavesInv
  <2>1. PICK c \in Contacts : /\ req[q].saves \in Seq(Savable(c))
                              /\ req[q].user \in Users
                              /\ Exists(req[q].user) => <<req[q].user, c>> \in proven
    BY DEF AccountsInv, SavesInv
  <2>2. req[q].saves \in Seq(Savable(c)')
    BY <2>1, SavableStays DEF AccountsInv
  <2>3. Exists(req[q].user)' => <<req[q].user, c>> \in proven'
    BY <1>1, <2>1
  <2> HIDE DEF Savable
  <2> QED
    BY <2>1, <2>2, <2>3 DEF SavesInv
<1>3. SoleCreator'
  <2> SUFFICES ASSUME NEW q \in Requests, NEW r \in Requests,
                      req'[q].saves # <<>>, req'[r].saves # <<>>,
                      req'[q].user = req'[r].user, ~Exists(req[q].user)', q # r
               PROVE  FALSE
    BY DEF SoleCreator
  <2>0. req'[q].user \in Users /\ ~Exists(req'[q].user) /\ ~Exists(req'[r].user)
    BY <1>1, <1>2 DEF SavesInv, Exists
  <2>1. CASE req'[q] = req[q] /\ req'[r] = req[r]
    BY <2>0, <2>1 DEF AccountsInv, SoleCreator
  <2>2. CASE req'[q] # req[q]
    BY <2>0, <2>2
  <2>3. CASE req'[r] # req[r]
    BY <2>0, <2>3
  <2> QED
    BY <2>1, <2>2, <2>3
<1>4. ContactsUnique' /\ ContactProven'
  BY <1>1 DEF AccountsInv, ContactsUnique, ContactProven
<1> QED
  BY <1>2, <1>3, <1>4 DEF AccountsInv

(* A handler starts with rows of one contact, of an account that exists or *)
(* that nobody else is making.                                             *)
LEMMA StartKeeps ==
    ASSUME AccountsInv, NEW r \in Requests, NEW u \in Users, NEW c \in Contacts,
           NEW saves \in Seq(Savable(c)), NEW sms \in BOOLEAN, NEW miss \in BOOLEAN,
           Start(r, u, saves, sms, miss),
           issued' \in issued..MaxCodes, UNCHANGED <<account, sentTo, proven, guessVars, now>>,
           Exists(u) => <<u, c>> \in proven,
           Exists(u) \/ \A q \in Requests : req[q].user # u
    PROVE  AccountsInv'
<1> DEFINE N == [Idle EXCEPT !.user = u, !.saves = saves, !.sms = sms, !.miss = miss,
                             !.base = LoginCount(account[u])]
<1>1. issued \in Nat /\ MaxCodes \in Nat /\ MaxHandlers \in Nat /\ issued' \in 0..MaxCodes
  BY AccountsAssumption DEF AccountsInv, AccountsTypeOK
<1>2. CodesKept
  BY <1>1 DEF CodesKept
<1>3. req' = [req EXCEPT ![r] = N] /\ started' \in 0..MaxHandlers
  <2>1. started' = started + 1 /\ started < MaxHandlers /\ started \in 0..MaxHandlers
    BY DEF Start, AccountsInv, AccountsTypeOK
  <2>2. started' \in 0..MaxHandlers
    BY <1>1, <2>1
  <2> QED
    BY <2>2 DEF Start
<1>4. Savable(c) \subseteq Row
  BY DEF Savable
<1>5. N \in Request
  <2> HIDE DEF Savable
  <2> saves \in Seq(Row)
    BY <1>4
  <2> Idle \in Request
    BY DEF Idle, Request
  <2> LoginCount(account[u]) \in Nat \X Nat
    BY DEF LoginCount, AccountsInv, AccountsTypeOK, Row
  <2> QED
    BY DEF Request
<1>6. AccountsTypeOK'
  BY <1>1, <1>3, <1>5 DEF AccountsInv, AccountsTypeOK, guessVars
<1>7. \A q \in Requests : req'[q] = IF q = r THEN N ELSE req[q]
  BY <1>3 DEF AccountsInv, AccountsTypeOK
<1>8. SavesInv(req[r])'
  <2>1. saves \in Seq(Savable(c)')
    BY <1>2, SavableStays DEF AccountsInv, CodesKept
  <2>2. N.saves = saves /\ N.user = u
    BY DEF Idle
  <2>3. (Exists(u)' <=> Exists(u)) /\ proven' = proven
    BY DEF Exists
  <2> HIDE DEF Savable, N
  <2> QED
    BY <1>7, <2>1, <2>2, <2>3 DEF SavesInv
<1>9. \A v \in Users : account'[v].contact = account[v].contact /\ Sane(account[v])'
  BY <1>2, SaneStays DEF AccountsInv, AccountsTypeOK, CodesKept, Sane
<1>10. N.user = u
  BY DEF Idle
<1> HIDE DEF N
<1> QED
  BY <1>2, <1>6, <1>7, <1>8, <1>9, <1>10, QuietStep

LEMMA SignUpKeeps ==
    ASSUME AccountsInv, NEW r \in Requests, NEW u \in Users, NEW c \in Contacts,
           NEW via \in {"phone", "email", "google", "register"}, SignUp(r, u, c, via)
    PROVE  AccountsInv'
<1> DEFINE row == [NewRow(c) EXCEPT !.password = (via = "register")]
<1>1. AccountsTypeOK /\ issued \in Nat /\ MaxCodes \in Nat
  BY AccountsAssumption DEF AccountsInv, AccountsTypeOK
<1>2. (via = "register") \in BOOLEAN
  OBVIOUS
<1>3. row \in Savable(c)
  BY <1>1, <1>2, NewRowSavable
<1>4. /\ ~Exists(u) /\ \A q \in Requests : req[q].user # u
      /\ UNCHANGED <<account, sentTo, proven, guessVars, now>>
  BY DEF SignUp
<1> HIDE DEF row
<1>5. CASE /\ issued < MaxCodes /\ issued' = issued + 1
           /\ Start(r, u, <<row, generate_otp(row, issued + 1)>>, via = "phone", FALSE)
  <2>1. generate_otp(row, issued + 1) \in Savable(c)
    BY <1>1, <1>3, OtpSavable
  <2> HIDE DEF Savable
  <2>2. <<row, generate_otp(row, issued + 1)>> \in Seq(Savable(c))
    BY <1>3, <2>1
  <2>3. (via = "phone") \in BOOLEAN /\ issued' \in issued..MaxCodes
    BY <1>1, <1>5
  <2> QED
    BY <1>4, <1>5, <2>2, <2>3, StartKeeps
<1>6. CASE Start(r, u, <<row>> \o _issue_token(row), FALSE, FALSE) /\ UNCHANGED issued
  <2>1. _issue_token(row) \in Seq(Savable(c))
    BY <1>3, TokenSavable
  <2> HIDE DEF Savable
  <2>2. <<row>> \o _issue_token(row) \in Seq(Savable(c))
    BY <1>3, <2>1
  <2>3. issued' \in issued..MaxCodes
    BY <1>6 DEF AccountsInv, AccountsTypeOK
  <2> QED
    BY <1>4, <1>6, <2>2, <2>3, StartKeeps
<1> QED
  BY <1>5, <1>6 DEF SignUp, row

LEMMA Unchanged_issued ==
    ASSUME AccountsInv, UNCHANGED issued
    PROVE  issued' \in issued..MaxCodes
  BY DEF AccountsInv, AccountsTypeOK

(* The handlers of an account that exists.                                 *)
LEMMA ExistingStarts ==
    ASSUME AccountsInv, NEW r \in Requests, NEW u \in Users, Exists(u),
           NEW saves \in Seq(Savable(account[u].contact)), NEW sms \in BOOLEAN,
           NEW miss \in BOOLEAN, Start(r, u, saves, sms, miss),
           issued' \in issued..MaxCodes,
           UNCHANGED <<account, sentTo, proven, guessVars, now>>
    PROVE  AccountsInv'
<1>1. account[u].contact \in Contacts /\ <<u, account[u].contact>> \in proven
  BY StoredSavable DEF AccountsInv, ContactProven
<1> QED
  BY <1>1, StartKeeps

LEMMA RequestOtpKeeps ==
    ASSUME AccountsInv, NEW r \in Requests, NEW u \in Users,
           NEW via \in {"phone", "email", "forgot"}, RequestOtp(r, u, via)
    PROVE  AccountsInv'
<1> DEFINE row == account[u]
           c == account[u].contact
<1>1. Exists(u) /\ issued < MaxCodes /\ UNCHANGED <<account, sentTo, proven, guessVars, now>>
  BY DEF RequestOtp
<1>2. c \in Contacts /\ row \in Savable(c) /\ AccountsTypeOK /\ issued \in Nat /\ MaxCodes \in Nat
  BY <1>1, StoredSavable, AccountsAssumption DEF AccountsInv, AccountsTypeOK
<1>3. Unlocked(row) \in Savable(c) /\ UnlockSaves(row) \in Seq(Savable(c))
  BY <1>2, UnlockedSavable
<1>4. generate_otp(Unlocked(row), issued + 1) \in Savable(c)
  BY <1>2, <1>3, OtpSavable
<1> HIDE DEF Savable
<1>5. UnlockSaves(row) \o <<generate_otp(Unlocked(row), issued + 1)>> \in Seq(Savable(c))
  BY <1>3, <1>4
<1>6. (via = "phone") \in BOOLEAN
  OBVIOUS
<1>7. CASE Start(r, u, UnlockSaves(row), FALSE, FALSE) /\ UNCHANGED issued
  <2>1. UnlockSaves(row) \in Seq(Savable(c)) /\ issued' \in issued..MaxCodes
    BY <1>3, <1>7, Unchanged_issued
  <2> HIDE DEF row
  <2> QED
    BY <1>1, <1>7, <2>1, ExistingStarts
<1>8. CASE /\ Start(r, u, UnlockSaves(row) \o <<generate_otp(Unlocked(row), issued + 1)>>,
                    via = "phone", FALSE)
           /\ issued' = issued + 1
  <2>1. issued' \in issued..MaxCodes
    BY <1>1, <1>2, <1>8
  <2> HIDE DEF row
  <2> QED
    BY <1>1, <1>5, <1>6, <1>8, <2>1, ExistingStarts
<1> QED
  BY <1>7, <1>8 DEF RequestOtp

LEMMA VerifyOtpKeeps ==
    ASSUME AccountsInv, NEW r \in Requests, NEW u \in Users, NEW code \in Nat,
           VerifyOtp(r, u, code) \/ ResetPassword(r, u, code)
    PROVE  AccountsInv'
<1> DEFINE c == account[u].contact
           row == Unlocked(account[u])
           reset == [CodeSpent(row) EXCEPT !.password = TRUE, !.session = FALSE, !.lockout_until = 0]
<1>1. Exists(u) /\ UNCHANGED <<account, issued, sentTo, proven, guessVars, now>>
  BY DEF VerifyOtp, ResetPassword
<1>2. c \in Contacts /\ account[u] \in Savable(c) /\ AccountsTypeOK
  BY <1>1, StoredSavable DEF AccountsInv
<1>3. row \in Savable(c) /\ UnlockSaves(account[u]) \in Seq(Savable(c))
  BY <1>2, UnlockedSavable
<1> HIDE DEF row
<1>l. row.otp_attempts < MaxAttempts
  <2>1. /\ ~IsLocked(account[u]) /\ Sane(account[u]) /\ account[u].otp_attempts \in Nat
        /\ account[u] \in Row /\ MaxAttempts \in Nat \ {0}
    BY <1>2, AccountsAssumption DEF VerifyOtp, ResetPassword, Savable, Row
  <2>2. CASE LockoutOver(account[u])
    BY <2>1, <2>2 DEF Unlocked, row, Row
  <2>3. CASE ~LockoutOver(account[u])
    BY <2>1, <2>3 DEF Unlocked, row, LockoutOver, Sane
  <2> QED
    BY <2>2, <2>3
<1>4. increment_otp_attempts(row) \in Savable(c) /\ CodeSpent(row) \in Savable(c) /\ reset \in Savable(c)
  BY <1>2, <1>3, <1>l, MissSavable, SpentSavable
<1>5. _issue_token(CodeSpent(row)) \in Seq(Savable(c))
  BY <1>2, <1>4, TokenSavable
<1> HIDE DEF Savable, reset
<1>6. /\ UnlockSaves(account[u]) \o (<<CodeSpent(row)>> \o _issue_token(CodeSpent(row))) \in Seq(Savable(c))
      /\ UnlockSaves(account[u]) \o <<increment_otp_attempts(row)>> \in Seq(Savable(c))
      /\ UnlockSaves(account[u]) \o <<reset>> \in Seq(Savable(c))
  BY <1>3, <1>4, <1>5
<1> DEFINE Given(saves, miss) == saves \in Seq(Savable(c)) /\ Start(r, u, saves, FALSE, miss)
<1>7. \E saves : saves \in Seq(Savable(c)) /\ \E miss \in BOOLEAN : Start(r, u, saves, FALSE, miss)
  <2> DEFINE spent == UnlockSaves(account[u]) \o (<<CodeSpent(row)>> \o _issue_token(CodeSpent(row)))
             missed == UnlockSaves(account[u]) \o <<increment_otp_attempts(row)>>
             set == UnlockSaves(account[u]) \o <<reset>>
             miss == ~CodeMatches(row, code)
  <2>1. \/ Start(r, u, spent, FALSE, miss)
        \/ Start(r, u, missed, FALSE, miss)
        \/ Start(r, u, set, FALSE, miss)
    BY DEF VerifyOtp, ResetPassword, row, reset
  <2>2. miss \in BOOLEAN
    BY DEF CodeMatches
  <2>3. {spent, missed, set} \subseteq Seq(Savable(c))
    BY <1>6
  <2> HIDE DEF spent, missed, set, miss
  <2> QED
    BY <2>1, <2>2, <2>3
<1>8. ASSUME NEW saves, NEW miss \in BOOLEAN, Given(saves, miss) PROVE AccountsInv'
  BY <1>1, <1>8, Unchanged_issued, ExistingStarts
<1> QED
  BY <1>7, <1>8

LEMMA LoginKeeps ==
    ASSUME AccountsInv, NEW r \in Requests, NEW u \in Users,
           NEW saves \in {<<>>, <<account[u]>>}, Login(r, u, saves) \/ UpdateProfile(r, u)
    PROVE  AccountsInv'
<1> DEFINE c == account[u].contact
<1>1. Exists(u) /\ UNCHANGED <<account, issued, sentTo, proven, guessVars, now>>
  BY DEF Login, UpdateProfile, Authenticated
<1>2. c \in Contacts /\ account[u] \in Savable(c)
  BY <1>1, StoredSavable
<1>3. _issue_token(account[u]) \in Seq(Savable(c))
  BY <1>2, TokenSavable
<1> HIDE DEF Savable
<1>4. <<account[u]>> \in Seq(Savable(c)) /\ saves \o _issue_token(account[u]) \in Seq(Savable(c))
  <2>1. <<account[u]>> \in Seq(Savable(c)) /\ <<>> \in Seq(Savable(c))
    BY <1>2
  <2>2. saves \in Seq(Savable(c))
    BY <2>1
  <2> QED
    BY <1>3, <2>1, <2>2
<1>5. \/ Start(r, u, saves \o _issue_token(account[u]), FALSE, FALSE)
      \/ Start(r, u, <<account[u]>>, FALSE, FALSE)
  BY DEF Login, UpdateProfile
<1> DEFINE Given(s) == s \in Seq(Savable(c)) /\ Start(r, u, s, FALSE, FALSE)
<1>6. ASSUME NEW s, Given(s) PROVE AccountsInv'
  BY <1>1, <1>6, Unchanged_issued, ExistingStarts
<1> QED
  BY <1>4, <1>5, <1>6

(* Steps that change login columns of stored rows, or end a handler.       *)
LEMMA ColumnStep ==
    ASSUME AccountsInv, account' \in [Users -> Row], req' \in [Requests -> Request], now' \in Nat,
           UNCHANGED <<started, issued, sentTo, proven, guessVars>>,
           \A u \in Users :
              /\ account'[u].contact = account[u].contact
              /\ account'[u].pending = account[u].pending
              /\ account'[u].contact_otp = account[u].contact_otp
              /\ account'[u].contact_otp_attempts = account[u].contact_otp_attempts
              /\ account'[u].otp_attempts = account[u].otp_attempts
              /\ account'[u].lockout_until = account[u].lockout_until,
           \A q \in Requests : req'[q] = req[q] \/ req'[q].saves = <<>>
    PROVE  AccountsInv'
<1>1. CodesKept
  BY DEF CodesKept, AccountsInv, AccountsTypeOK
<1>2. AccountsTypeOK'
  BY DEF AccountsInv, AccountsTypeOK, guessVars
<1>3. \A u \in Users : Sane(account[u])'
  BY DEF AccountsInv, Sane
<1> QED
  BY <1>1, <1>2, <1>3, QuietStep

LEMMA SendSmsKeeps ==
    ASSUME AccountsInv, NEW r \in Requests, SendSms(r)
    PROVE  AccountsInv'
<1> DEFINE x == req[r].user
<1>1. account \in [Users -> Row] /\ req \in [Requests -> Request] /\ now \in Nat
  BY DEF AccountsInv, AccountsTypeOK
<1>2. Idle \in Request /\ Idle.saves = <<>>
  BY DEF Idle, Request
<1>3. req' = [req EXCEPT ![r] = Idle] /\ UNCHANGED <<started, issued, sentTo, proven, guessVars, now>>
  BY DEF SendSms
<1>4. \/ UNCHANGED account
      \/ account' = [account EXCEPT ![x].otp = 0, ![x].otp_expiry = 0]
  BY DEF SendSms
<1> HIDE DEF x
<1>5. ASSUME NEW u \in Users
      PROVE  /\ account'[u] \in Row
             /\ account'[u].contact = account[u].contact
             /\ account'[u].pending = account[u].pending
             /\ account'[u].contact_otp = account[u].contact_otp
             /\ account'[u].contact_otp_attempts = account[u].contact_otp_attempts
             /\ account'[u].otp_attempts = account[u].otp_attempts
             /\ account'[u].lockout_until = account[u].lockout_until
  <2> DEFINE mid == [account[u] EXCEPT !.otp = 0]
             new == [mid EXCEPT !.otp_expiry = 0]
  <2>1. account[u] \in Row
    BY <1>1
  <2>2. mid \in Row /\ new \in Row
    BY <2>1 DEF Row
  <2>3. /\ new.contact = account[u].contact /\ new.pending = account[u].pending
        /\ new.contact_otp = account[u].contact_otp
        /\ new.contact_otp_attempts = account[u].contact_otp_attempts
        /\ new.otp_attempts = account[u].otp_attempts
        /\ new.lockout_until = account[u].lockout_until
    BY <2>1 DEF Row
  <2>4. account'[u] = account[u] \/ account'[u] = new
    BY <1>1, <1>4
  <2> HIDE DEF new
  <2> QED
    BY <2>1, <2>2, <2>3, <2>4
<1>6. account' \in [Users -> Row]
  BY <1>1, <1>4, <1>5
<1>7. \A q \in Requests : req'[q] = req[q] \/ req'[q].saves = <<>>
  BY <1>1, <1>2, <1>3
<1>8. req' \in [Requests -> Request] /\ now' \in Nat
  BY <1>1, <1>2, <1>3
<1> QED
  BY <1>3, <1>5, <1>6, <1>7, <1>8, ColumnStep

LEMMA AbandonKeeps ==
    ASSUME AccountsInv, NEW r \in Requests, Abandon(r)
    PROVE  AccountsInv'
<1>1. account \in [Users -> Row] /\ req \in [Requests -> Request] /\ now \in Nat
  BY DEF AccountsInv, AccountsTypeOK
<1>2. Idle \in Request /\ Idle.saves = <<>>
  BY DEF Idle, Request
<1>3. /\ req' = [req EXCEPT ![r] = Idle]
      /\ UNCHANGED <<started, account, issued, sentTo, proven, guessVars, now>>
  BY DEF Abandon
<1>4. \A q \in Requests : req'[q] = req[q] \/ req'[q].saves = <<>>
  BY <1>1, <1>2, <1>3
<1> QED
  BY <1>1, <1>2, <1>3, <1>4, ColumnStep

LEMMA TickKeeps ==
    ASSUME AccountsInv, Tick
    PROVE  AccountsInv'
<1>1. account \in [Users -> Row] /\ req \in [Requests -> Request] /\ now' \in Nat
  BY DEF AccountsInv, AccountsTypeOK, Tick
<1> QED
  BY <1>1, ColumnStep DEF Tick

(* set_password, revoke_all_sessions and the deactivation of an account.   *)
LEMMA AccountColumnsKeep ==
    ASSUME AccountsInv,
           (\E u \in Users : SetPassword(u) \/ Deactivate(u)) \/ RevokeAllSessions
    PROVE  AccountsInv'
<1>1. account \in [Users -> Row] /\ req \in [Requests -> Request] /\ now \in Nat
  BY DEF AccountsInv, AccountsTypeOK
<1>2. UNCHANGED <<started, req, issued, sentTo, proven, guessVars, now>>
  BY DEF SetPassword, Deactivate, RevokeAllSessions
<1>3. ASSUME NEW v \in Users
      PROVE  \/ account'[v] = account[v]
             \/ account'[v] = [account[v] EXCEPT !.password = TRUE]
             \/ account'[v] = [account[v] EXCEPT !.active = FALSE]
             \/ account'[v] = [account[v] EXCEPT !.session = FALSE]
  BY <1>1 DEF SetPassword, Deactivate, RevokeAllSessions
<1>4. ASSUME NEW v \in Users
      PROVE  /\ account'[v] \in Row
             /\ account'[v].contact = account[v].contact
             /\ account'[v].pending = account[v].pending
             /\ account'[v].contact_otp = account[v].contact_otp
             /\ account'[v].contact_otp_attempts = account[v].contact_otp_attempts
             /\ account'[v].otp_attempts = account[v].otp_attempts
             /\ account'[v].lockout_until = account[v].lockout_until
  <2>1. account[v] \in Row
    BY <1>1
  <2>2. CASE account'[v] = account[v]
    BY <2>1, <2>2
  <2>3. CASE account'[v] = [account[v] EXCEPT !.password = TRUE]
    BY <2>1, <2>3 DEF Row
  <2>4. CASE account'[v] = [account[v] EXCEPT !.active = FALSE]
    BY <2>1, <2>4 DEF Row
  <2>5. CASE account'[v] = [account[v] EXCEPT !.session = FALSE]
    BY <2>1, <2>5 DEF Row
  <2> QED
    BY <1>3, <2>2, <2>3, <2>4, <2>5
<1>5. account' \in [Users -> Row]
  <2>1. account' = [v \in Users |-> account'[v]]
    BY <1>1 DEF SetPassword, Deactivate, RevokeAllSessions
  <2> QED
    BY <1>4, <2>1
<1> QED
  BY <1>1, <1>2, <1>4, <1>5, ColumnStep

(* ContactChangeView.  The new code is the one sent to the pending contact.*)
LEMMA ClearedPending ==
    ASSUME AccountsTypeOK, NEW row \in Row, Sane(row)
    PROVE  /\ _clear_pending(row) \in Row /\ Sane(_clear_pending(row))
           /\ _clear_pending(row).contact = row.contact
<1> DEFINE R == _clear_pending(row)
<1>1. /\ R \in Row /\ R.contact = row.contact /\ R.contact_otp = 0
      /\ R.contact_otp_attempts = 0
  BY DEF _clear_pending, Row
<1>2. R.otp_attempts = row.otp_attempts /\ R.lockout_until = row.lockout_until
  BY DEF _clear_pending, Row
<1>3. issued \in Nat /\ MaxAttempts \in Nat \ {0}
  BY AccountsAssumption DEF AccountsTypeOK
<1> HIDE DEF R
<1>4. Sane(R)
  BY <1>1, <1>2, <1>3 DEF Sane
<1> QED
  BY <1>1, <1>4 DEF R

LEMMA RequestChangeKeeps ==
    ASSUME AccountsInv, NEW u \in Users, NEW c \in Contacts, RequestContactChange(u, c)
    PROVE  AccountsInv'
<1> DEFINE old == _clear_pending(account[u])
           new == [old EXCEPT !.pending = c, !.contact_otp = issued + 1,
                              !.contact_otp_expiry = now + OtpValid, !.requested_at = now]
<1>1. AccountsTypeOK /\ account[u] \in Row /\ Sane(account[u])
  BY DEF AccountsInv, AccountsTypeOK
<1>2. old \in Row /\ Sane(old) /\ old.contact = account[u].contact
  BY <1>1, ClearedPending
<1>3. /\ issued \in Nat /\ issued < MaxCodes /\ MaxCodes \in Nat /\ now \in Nat /\ OtpValid \in Nat
      /\ issued' = issued + 1 /\ sentTo' = [sentTo EXCEPT ![issued + 1] = c]
      /\ account' = [account EXCEPT ![u] = new]
      /\ UNCHANGED <<started, req, proven, now>>
  BY AccountsAssumption, <1>1 DEF AccountsTypeOK, RequestContactChange
<1>4. issued + 1 \in 1..MaxCodes /\ now + OtpValid \in Nat /\ now \in Int /\ issued + 1 \in Nat
  BY <1>3
<1>5. sentTo \in [1..MaxCodes -> Contacts \cup {None}]
  BY <1>1 DEF AccountsTypeOK
<1> HIDE DEF old
<1>6. /\ new \in Row /\ new.contact = old.contact /\ new.pending = c /\ new.contact_otp = issued + 1
      /\ new.contact_otp_attempts = old.contact_otp_attempts
      /\ new.otp_attempts = old.otp_attempts /\ new.lockout_until = old.lockout_until
  BY <1>2, <1>4 DEF Row
<1> HIDE DEF new
<1>7. sentTo'[issued + 1] = c
  BY <1>3, <1>4, <1>5
<1>8. Sane(account[u])'
  <2>1. new.contact_otp <= issued'
    BY <1>3, <1>6
  <2>2. account'[u] = new
    BY <1>1, <1>3 DEF AccountsTypeOK
  <2>3. /\ new.otp_attempts <= MaxAttempts
        /\ new.otp_attempts = MaxAttempts => new.lockout_until > 0
        /\ new.contact_otp_attempts < MaxAttempts
    BY <1>2, <1>6 DEF Sane
  <2>4. sentTo'[new.contact_otp] = new.pending
    BY <1>6, <1>7
  <2> QED
    BY <2>1, <2>2, <2>3, <2>4 DEF Sane
<1>9. CodesKept
  <2>1. \A k \in 1..issued : k # issued + 1 /\ k \in 1..MaxCodes
    BY <1>3
  <2>2. \A k \in 1..issued : sentTo'[k] = sentTo[k]
    BY <1>3, <1>5, <2>1
  <2> QED
    BY <1>3, <2>2 DEF CodesKept
<1>10. AccountsTypeOK'
  <2>1. issued' \in 0..MaxCodes
    BY <1>3
  <2>2. sentTo' \in [1..MaxCodes -> Contacts \cup {None}] /\ account' \in [Users -> Row]
    BY <1>1, <1>3, <1>5, <1>6 DEF AccountsTypeOK
  <2>3. /\ guessed' = [guessed EXCEPT ![u]["contact"] = 0]
        /\ uncounted' = [uncounted EXCEPT ![u]["contact"] = 0]
    BY DEF RequestContactChange
  <2>4. guessed' \in [Users -> [Kinds -> Nat]] /\ uncounted' \in [Users -> [Kinds -> Nat]]
    BY <1>1, <2>3 DEF AccountsTypeOK, Kinds
  <2> QED
    BY <1>1, <1>3, <2>1, <2>2, <2>4 DEF AccountsTypeOK
<1>11. \A v \in Users : account'[v].contact = account[v].contact /\ Sane(account[v])'
  <2> TAKE v \in Users
  <2>1. CASE v = u
    <3>1. account'[v] = new
      BY <1>1, <1>3, <2>1 DEF AccountsTypeOK
    <3> QED
      BY <1>2, <1>6, <1>8, <2>1, <3>1
  <2>2. CASE v # u
    <3>1. account'[v] = account[v] /\ account[v] \in Row /\ Sane(account[v])
      BY <1>1, <1>3, <2>2 DEF AccountsTypeOK, AccountsInv
    <3>2. Sane(account[v])'
      BY <1>1, <1>9, <3>1, SaneStays DEF CodesKept, Sane
    <3> QED
      BY <3>1, <3>2
  <2> QED
    BY <2>1, <2>2
<1> QED
  BY <1>3, <1>9, <1>10, <1>11, QuietStep

(* What verify_extract is about to save.                                   *)
LEMMA ContactCodeRow ==
    ASSUME AccountsInv, NEW u \in Users, NEW code \in Nat,
           Exists(u), account[u].pending # None, account[u].contact_otp # 0
    PROVE  /\ AfterContactCode(u, code) \in Row /\ Sane(AfterContactCode(u, code))
           /\ \/ AfterContactCode(u, code).contact = account[u].contact
              \/ /\ now <= account[u].contact_otp_expiry /\ code = account[u].contact_otp
                 /\ code \in 1..MaxCodes
                 /\ AfterContactCode(u, code).contact = account[u].pending
                 /\ sentTo[code] = account[u].pending
<1> DEFINE row == account[u]
           miss == [row EXCEPT !.contact_otp_attempts = @ + 1]
           moved == [row EXCEPT !.contact = row.pending]
           new == AfterContactCode(u, code)
<1>1. AccountsTypeOK /\ row \in Row /\ Sane(row)
  BY DEF AccountsInv, AccountsTypeOK
<1>2. _clear_pending(row) \in Row /\ Sane(_clear_pending(row)) /\ _clear_pending(row).contact = row.contact
  BY <1>1, ClearedPending
<1>3. moved \in Row /\ Sane(moved) /\ moved.contact = row.pending
  BY <1>1 DEF Row, Sane
<1>4. /\ _clear_pending(moved) \in Row /\ Sane(_clear_pending(moved))
      /\ _clear_pending(moved).contact = row.pending
  BY <1>1, <1>3, ClearedPending
<1>5. /\ row.contact_otp_attempts + 1 < MaxAttempts => miss \in Row /\ Sane(miss)
      /\ miss.contact = row.contact
  <2>1. row.contact_otp_attempts \in Nat /\ MaxAttempts \in Nat
    BY <1>1, AccountsAssumption DEF Row
  <2>2. /\ miss \in Row /\ miss.contact = row.contact /\ miss.pending = row.pending
        /\ miss.contact_otp = row.contact_otp
        /\ miss.contact_otp_attempts = row.contact_otp_attempts + 1
    BY <1>1, <2>1 DEF Row
  <2>3. miss.otp_attempts = row.otp_attempts /\ miss.lockout_until = row.lockout_until
    BY <1>1 DEF Row
  <2> HIDE DEF miss
  <2> QED
    BY <1>1, <2>1, <2>2, <2>3 DEF Sane
<1>6. row.contact_otp_attempts \in Nat /\ MaxAttempts \in Nat
  BY <1>1, AccountsAssumption DEF Row
<1>7. \/ new = _clear_pending(row)
      \/ new = miss /\ row.contact_otp_attempts + 1 < MaxAttempts
      \/ new = _clear_pending(moved) /\ row.contact_otp = code /\ now <= row.contact_otp_expiry
  <2>1. now \in Nat /\ row.contact_otp_expiry \in Nat
    BY <1>1 DEF AccountsTypeOK, Row
  <2> QED
    BY <1>6, <2>1 DEF AfterContactCode, ContactCode
<1>8. row.contact_otp = code => code \in 1..MaxCodes /\ sentTo[code] = row.pending
  <2>1. issued \in 0..MaxCodes /\ MaxCodes \in Nat
    BY <1>1, AccountsAssumption DEF AccountsTypeOK
  <2>2. row.contact_otp <= issued /\ sentTo[row.contact_otp] = row.pending
    BY <1>1 DEF Sane
  <2> QED
    BY <2>1, <2>2
<1> HIDE DEF new, miss, moved
<1>9. new \in Row /\ Sane(new)
  BY <1>2, <1>4, <1>5, <1>7
<1>10. \/ new.contact = row.contact
       \/ new.contact = row.pending /\ row.contact_otp = code /\ now <= row.contact_otp_expiry
  <2>1. CASE new = _clear_pending(row)
    BY <1>2, <2>1
  <2>2. CASE new = miss
    BY <1>5, <2>2
  <2>3. CASE new = _clear_pending(moved) /\ row.contact_otp = code /\ now <= row.contact_otp_expiry
    BY <1>4, <2>3
  <2> QED
    BY <1>7, <2>1, <2>2, <2>3
<1> QED
  BY <1>8, <1>9, <1>10 DEF new

LEMMA VerifyChangeKeeps ==
    ASSUME AccountsInv, NEW r \in Requests, NEW u \in Users, NEW code \in Entered,
           VerifyContactChange(r, u, code)
    PROVE  AccountsInv'
<1> DEFINE new == AfterContactCode(u, code)
           miss == now <= account[u].contact_otp_expiry /\ account[u].contact_otp # code
           entered == now <= account[u].contact_otp_expiry /\ code = account[u].contact_otp
           N == [Idle EXCEPT !.user = u, !.lock = TRUE, !.saves = <<new>>, !.miss = miss]
<1>1. AccountsTypeOK /\ ContactProven /\ code \in Nat
  BY DEF AccountsInv, AccountsTypeOK, Entered
<1>2. /\ req[r] = Idle /\ Exists(u) /\ account[u].pending # None /\ account[u].contact_otp # 0
      /\ started < MaxHandlers /\ started' = started + 1
      /\ req' = [req EXCEPT ![r] = N]
      /\ proven' = IF entered THEN proven \cup {<<u, sentTo[code]>>} ELSE proven
      /\ UNCHANGED <<account, issued, sentTo, guessVars, now>>
  BY DEF VerifyContactChange, Authenticated
<1>3. /\ new \in Row /\ Sane(new)
      /\ \/ new.contact = account[u].contact
         \/ /\ entered /\ new.contact = account[u].pending /\ sentTo[code] = account[u].pending
  BY <1>1, <1>2, ContactCodeRow
<1>4. account[u].contact \in Contacts /\ <<u, account[u].contact>> \in proven
  BY <1>1, <1>2, StoredSavable DEF ContactProven
<1>5. account[u].pending \in Contacts
  BY <1>1, <1>2 DEF AccountsTypeOK, Row
<1>6. new.contact \in Contacts /\ <<u, new.contact>> \in proven'
  BY <1>2, <1>3, <1>4, <1>5
<1>e. entered => sentTo[code] = account[u].pending
  BY <1>1, <1>2 DEF AccountsInv, Sane
<1> HIDE DEF new, entered, miss
<1>b. miss \in BOOLEAN
  BY DEF miss
<1>7. Idle \in Request /\ <<new>> \in Seq(Row)
  BY <1>3 DEF Idle, Request
<1>8. N \in Request /\ N.user = u /\ N.saves = <<new>>
  BY <1>7, <1>b DEF Request
<1> HIDE DEF N
<1>9. CodesKept
  BY <1>1, <1>2, AccountsAssumption DEF CodesKept, AccountsTypeOK
<1>10. AccountsTypeOK'
  <2>1. started' \in 0..MaxHandlers
    BY <1>1, <1>2, AccountsAssumption DEF AccountsTypeOK
  <2>3. proven' \subseteq Users \X Contacts
    BY <1>1, <1>2, <1>5, <1>e DEF AccountsTypeOK
  <2>4. req' \in [Requests -> Request]
    BY <1>1, <1>2, <1>8 DEF AccountsTypeOK
  <2> QED
    BY <1>1, <1>2, <2>1, <2>3, <2>4 DEF AccountsTypeOK, guessVars
<1>11. \A v \in Users : account'[v].contact = account[v].contact /\ Sane(account[v])'
  BY <1>2 DEF AccountsInv, Sane
<1>12. req'[r] = N /\ \A p \in Requests \ {r} : req'[p] = req[p]
  BY <1>1, <1>2 DEF AccountsTypeOK
<1>13. SavesInv(req[r])'
  <2> DEFINE c == new.contact
  <2>1. new \in Savable(c)
    BY <1>3 DEF Savable
  <2>2. <<new>> \in Seq(Savable(c))
    <3> HIDE DEF Savable
    <3> QED
      BY <2>1
  <2>3. \A s \in Contacts : Seq(Savable(s)) \subseteq Seq(Savable(s)')
    BY <1>1, <1>9, SavableStays DEF CodesKept
  <2> HIDE DEF c
  <2>4. c \in Contacts /\ <<u, c>> \in proven'
    BY <1>6 DEF c
  <2>5. \E s \in Contacts : <<new>> \in Seq(Savable(s)') /\ <<u, s>> \in proven'
    BY <2>2, <2>3, <2>4
  <2> HIDE DEF Savable
  <2> QED
    BY <1>8, <1>12, <2>5 DEF SavesInv
<1> QED
  <2>1. proven \subseteq proven'
    BY <1>2
  <2> QED
    BY <1>2, <1>8, <1>9, <1>10, <1>11, <1>12, <1>13, <2>1, QuietStep

(* The whole-row save: the new row has the contact the account had, or one *)
(* that was proven, or creates the account; the unique column refuses it   *)
(* otherwise.                                                              *)
LEMMA SaveKeeps ==
    ASSUME AccountsInv, NEW r \in Requests, Save(r)
    PROVE  AccountsInv'
<1> DEFINE rest == [req[r] EXCEPT !.saves = Tail(req[r].saves), !.base = LoginCount(Head(req[r].saves))]
<1>1. AccountsTypeOK /\ ContactProven /\ ContactsUnique /\ SoleCreator
  BY DEF AccountsInv
<1>2. req[r].saves # <<>> /\ UNCHANGED <<started, issued, sentTo, now>>
  BY DEF Save
<1>3. PICK c \in Contacts : /\ req[r].saves \in Seq(Savable(c)) /\ req[r].user \in Users
                            /\ Exists(req[r].user) => <<req[r].user, c>> \in proven
  BY <1>2 DEF AccountsInv, SavesInv
<1>u. PICK u \in Users : u = req[r].user
  BY <1>3
<1>r. PICK row : row = Head(req[r].saves)
  OBVIOUS
<1>4. row \in Savable(c) /\ Tail(req[r].saves) \in Seq(Savable(c))
  <2> HIDE DEF Savable
  <2> QED
    BY <1>2, <1>3, <1>r
<1>5. row \in Row /\ row.contact = c /\ Sane(row)
  BY <1>4 DEF Savable
<1>6. Idle \in Request /\ Idle.saves = <<>>
  BY DEF Idle, Request
<1>7. CASE req' = [req EXCEPT ![r] = Idle] /\ UNCHANGED <<account, proven, guessVars>>
  <2>1. \A q \in Requests : req'[q] = req[q] \/ req'[q].saves = <<>>
    BY <1>1, <1>6, <1>7 DEF AccountsTypeOK
  <2>2. /\ account' \in [Users -> Row] /\ req' \in [Requests -> Request] /\ now' \in Nat
    BY <1>1, <1>2, <1>6, <1>7 DEF AccountsTypeOK
  <2> QED
    BY <1>2, <1>7, <2>1, <2>2, ColumnStep
<1>8. CASE /\ Unique(u, row) /\ account' = [account EXCEPT ![u] = row]
           /\ proven' = IF Exists(u) THEN proven ELSE proven \cup {<<u, row.contact>>}
           /\ \E x \in {Idle, rest} : req' = [req EXCEPT ![r] = x]
           /\ \E misses \in {0, 1} : Tally(r, u, row, misses)
  <2>1. rest \in Request /\ rest.user = u /\ rest.saves = Tail(req[r].saves)
    <3>1. Savable(c) \subseteq Row
      BY DEF Savable
    <3>2. Tail(req[r].saves) \in Seq(Row)
      <4> HIDE DEF Savable
      <4> QED
        BY <1>4, <3>1
    <3>3. req[r] \in Request
      BY <1>1 DEF AccountsTypeOK
    <3>4. LoginCount(Head(req[r].saves)) \in Nat \X Nat
      BY <1>5, <1>r DEF LoginCount, Row
    <3> QED
      BY <3>2, <3>3, <3>4, <1>u DEF Request
  <2> HIDE DEF rest
  <2>2. req'[r] \in {Idle, rest} /\ \A p \in Requests \ {r} : req'[p] = req[p]
    BY <1>1, <1>8 DEF AccountsTypeOK
  <2>3. AccountsTypeOK'
    <3>1. req' \in [Requests -> Request]
      BY <1>1, <1>6, <1>8, <2>1 DEF AccountsTypeOK
    <3>2. account' \in [Users -> Row] /\ proven' \subseteq Users \X Contacts
      BY <1>1, <1>3, <1>5, <1>8 DEF AccountsTypeOK
    <3>3. guessed' \in [Users -> [Kinds -> Nat]] /\ uncounted' \in [Users -> [Kinds -> Nat]]
      <4>1. PICK misses \in {0, 1} : Tally(r, u, row, misses)
        BY <1>8
      <4>2. /\ guessed \in [Users -> [Kinds -> Nat]] /\ uncounted \in [Users -> [Kinds -> Nat]]
            /\ "login" \in Kinds /\ "contact" \in Kinds
        BY <1>1 DEF AccountsTypeOK, Kinds
      <4>3. guessed[u].login + misses \in Nat /\ guessed[u].contact + misses \in Nat
        BY <4>1, <4>2
      <4>4. uncounted[u].login + 1 \in Nat /\ uncounted[u].contact + 1 \in Nat
        BY <4>2
      <4>5. CASE req[r].lock
        <5>1. \E n \in {guessed[u].contact + misses} : guessed' = [guessed EXCEPT ![u]["contact"] = n]
          BY <4>1, <4>5 DEF Tally
        <5>2. UNCHANGED uncounted
          BY <4>1, <4>5 DEF Tally
        <5> QED
          BY <4>2, <4>3, <5>1, <5>2
      <4>6. CASE ~req[r].lock
        <5>1. \E n \in {0, guessed[u].login + misses} : guessed' = [guessed EXCEPT ![u]["login"] = n]
          BY <4>1, <4>6 DEF Tally
        <5>2. \E m \in {0, uncounted[u].login, uncounted[u].login + 1} :
              \E n \in {uncounted[u].contact, uncounted[u].contact + 1} :
                 uncounted' = [uncounted EXCEPT ![u]["login"] = m, ![u]["contact"] = n]
          BY <4>1, <4>6 DEF Tally
        <5>3. guessed' \in [Users -> [Kinds -> Nat]]
          BY <4>2, <4>3, <5>1
        <5>4. uncounted' \in [Users -> [Kinds -> Nat]]
          BY <4>2, <4>4, <5>2
        <5> QED
          BY <5>3, <5>4
      <4> QED
        BY <4>5, <4>6
    <3> QED
      BY <1>1, <1>2, <3>1, <3>2, <3>3 DEF AccountsTypeOK
  <2>4. account'[u] = row /\ \A v \in Users \ {u} : account'[v] = account[v]
    BY <1>1, <1>3, <1>8 DEF AccountsTypeOK
  <2>5. /\ Exists(u)' /\ <<u, c>> \in proven' /\ proven \subseteq proven'
        /\ \A v \in Users \ {u} : Exists(v)' <=> Exists(v)
    <3>1. Exists(u)'
      BY <1>5, <2>4, AccountsAssumption DEF Exists
    <3>2. <<u, c>> \in proven' /\ proven \subseteq proven'
      BY <1>3, <1>u, <1>5, <1>8
    <3>3. \A v \in Users \ {u} : Exists(v)' <=> Exists(v)
      BY <2>4 DEF Exists
    <3> QED
      BY <3>1, <3>2, <3>3
  <2>6. \A v \in Users : Sane(account[v])'
    BY <1>2, <1>5, <2>4 DEF AccountsInv, Sane
  <2>7. \A s \in Contacts : Seq(Savable(s)) \subseteq Seq(Savable(s)')
    BY <1>1, <1>2, SavableStays, AccountsAssumption DEF AccountsTypeOK
  <2>8. \A p \in Requests : SavesInv(req[p])'
    <3> SUFFICES ASSUME NEW p \in Requests, req'[p].saves # <<>> PROVE SavesInv(req[p])'
      BY DEF SavesInv
    <3> HIDE DEF Savable
    <3>1. CASE p = r
      <4>1. req'[p] = rest
        BY <1>6, <2>2, <3>1
      <4>2. Tail(req[r].saves) \in Seq(Savable(c)')
        BY <1>4, <2>7
      <4> QED
        BY <2>1, <2>5, <4>1, <4>2 DEF SavesInv
    <3>2. CASE p # r
      <4>1. req'[p] = req[p]
        BY <2>2, <3>2
      <4>2. PICK s \in Contacts : /\ req[p].saves \in Seq(Savable(s)) /\ req[p].user \in Users
                                  /\ Exists(req[p].user) => <<req[p].user, s>> \in proven
        BY <4>1 DEF AccountsInv, SavesInv
      <4>3. req[p].user = u => Exists(u)
        BY <1>1, <1>2, <1>u, <3>2, <4>1 DEF SoleCreator
      <4>4. req[p].saves \in Seq(Savable(s)')
        BY <2>7, <4>2
      <4>5. Exists(req[p].user)' => <<req[p].user, s>> \in proven'
        <5>1. CASE req[p].user = u
          BY <2>5, <4>2, <4>3, <5>1
        <5>2. CASE req[p].user # u
          <6>1. Exists(req[p].user)' => account'[req[p].user].contact # None
            BY <4>1 DEF Exists
          <6>2. account'[req[p].user] = account[req[p].user]
            BY <2>4, <4>2, <5>2
          <6> QED
            BY <2>5, <4>2, <6>1, <6>2 DEF Exists
        <5> QED
          BY <5>1, <5>2
      <4> QED
        BY <4>1, <4>2, <4>4, <4>5 DEF SavesInv
    <3> QED
      BY <3>1, <3>2
  <2>9. SoleCreator'
    <3> SUFFICES ASSUME NEW p \in Requests, NEW q \in Requests,
                        req'[p].saves # <<>>, req'[q].saves # <<>>,
                        req'[p].user = req'[q].user, ~Exists(req[p].user)', p # q
                 PROVE  FALSE
      BY DEF SoleCreator
    <3>1. req'[p].user # u /\ req'[p].user \in Users
      <4>1. req'[p].user \in Users
        BY <2>8 DEF SavesInv
      <4>2. account'[req'[p].user].contact = None /\ account'[u].contact # None
        BY <2>5 DEF Exists
      <4> QED
        BY <4>1, <4>2
    <3>2. p # r /\ q # r
      BY <1>6, <2>1, <2>2, <3>1
    <3>3. req'[p] = req[p] /\ req'[q] = req[q]
      BY <2>2, <3>2
    <3>4. ~Exists(req[p].user)
      BY <2>4, <3>1, <3>3 DEF Exists
    <3> QED
      BY <1>1, <3>3, <3>4 DEF SoleCreator
  <2>10. ContactsUnique'
    <3> SUFFICES ASSUME NEW v \in Users, NEW w \in Users, v # w, Exists(v)'
                 PROVE  account'[v].contact # account'[w].contact
      BY DEF ContactsUnique
    <3>1. CASE v # u /\ w # u
      BY <1>1, <2>4, <2>5, <3>1 DEF ContactsUnique
    <3>2. CASE v = u \/ w = u
      BY <1>8, <2>4, <3>2 DEF Unique
    <3> QED
      BY <3>1, <3>2
  <2>11. ContactProven'
    <3> SUFFICES ASSUME NEW v \in Users, Exists(v)' PROVE <<v, account'[v].contact>> \in proven'
      BY DEF ContactProven
    <3>1. CASE v = u
      BY <1>5, <2>4, <2>5, <3>1
    <3>2. CASE v # u
      BY <1>1, <2>4, <2>5, <3>2 DEF ContactProven
    <3> QED
      BY <3>1, <3>2
  <2> QED
    BY <2>3, <2>6, <2>8, <2>9, <2>10, <2>11 DEF AccountsInv
<1>9. \/ req' = [req EXCEPT ![r] = Idle] /\ UNCHANGED <<account, proven, guessVars>>
      \/ /\ Unique(u, row) /\ account' = [account EXCEPT ![u] = row]
         /\ proven' = IF Exists(u) THEN proven ELSE proven \cup {<<u, row.contact>>}
         /\ \E x \in {Idle, rest} : req' = [req EXCEPT ![r] = x]
         /\ \E misses \in {0, 1} : Tally(r, u, row, misses)
  <2>1. CASE ~Unique(u, row)
    BY <1>u, <1>r, <2>1 DEF Save
  <2>2. CASE Unique(u, row)
    <3>1. account' = [account EXCEPT ![u] = row]
      BY <1>u, <1>r, <2>2 DEF Save
    <3>2. proven' = IF Exists(u) THEN proven ELSE proven \cup {<<u, row.contact>>}
      BY <1>u, <1>r, <2>2 DEF Save
    <3>3. \E x \in {Idle, rest} : req' = [req EXCEPT ![r] = x]
      <4> DEFINE last == Tail(req[r].saves) = <<>> /\ ~req[r].sms
                 x == IF last THEN Idle ELSE rest
      <4>1. req' = [req EXCEPT ![r] = x]
        BY <1>u, <1>r, <2>2 DEF Save
      <4> HIDE DEF last, rest
      <4>2. x \in {Idle, rest}
        OBVIOUS
      <4> QED
        BY <4>1, <4>2
    <3>4. \E misses \in {0, 1} : Tally(r, u, row, misses)
      <4> DEFINE misses == IF req[r].miss /\ Tail(req[r].saves) = <<>> THEN 1 ELSE 0
      <4>1. Tally(r, u, row, misses)
        BY <1>u, <1>r, <2>2 DEF Save
      <4>2. misses \in {0, 1}
        OBVIOUS
      <4> HIDE DEF misses
      <4> QED
        BY <4>1, <4>2
    <3> QED
      BY <2>2, <3>1, <3>2, <3>3, <3>4
  <2> QED
    BY <2>1, <2>2
<1> QED
  BY <1>7, <1>8, <1>9

LEMMA InitAccounts == AccountsInit => AccountsInv
<1> SUFFICES ASSUME AccountsInit PROVE AccountsInv
  OBVIOUS
<1>1. Idle \in Request /\ Idle.saves = <<>>
  BY DEF Idle, Request
<1>2. /\ {OtpValid, ResendWait, MaxCodes, MaxHandlers, MaxTime} \subseteq Nat
      /\ MaxAttempts \in Nat \ {0} /\ None \notin Contacts /\ -ResendWait \in Int
  BY AccountsAssumption
<1>3. NoRow \in Row /\ NoRow.contact = None
  BY <1>2 DEF NoRow, NewRow, Row
<1>4. NoRow.otp_attempts = 0 /\ NoRow.contact_otp_attempts = 0 /\ NoRow.contact_otp = 0
  BY DEF NoRow, NewRow
<1>5. AccountsTypeOK
  BY <1>1, <1>2, <1>3 DEF AccountsInit, AccountsTypeOK
<1>6. \A u \in Users : Sane(account[u]) /\ ~Exists(u)
  BY <1>2, <1>3, <1>4 DEF AccountsInit, Sane, Exists
<1>7. \A r \in Requests : req[r].saves = <<>>
  BY <1>1 DEF AccountsInit
<1> QED
  BY <1>5, <1>6, <1>7 DEF AccountsInv, SavesInv, SoleCreator, ContactsUnique, ContactProven

LEMMA InitCounts == AccountsInit => CountsInv
<1> SUFFICES ASSUME AccountsInit PROVE CountsInv
  OBVIOUS
<1>1. MaxAttempts \in Nat \ {0} /\ MaxAttempts * 0 = 0 /\ MaxAttempts * (1 + 0) = MaxAttempts
  BY AccountsAssumption
<1>2. /\ NoRow.otp_attempts = 0 /\ NoRow.contact_otp_attempts = 0
      /\ Idle.saves = <<>>
  BY DEF NoRow, NewRow, Idle
<1>3. ASSUME NEW u \in Users PROVE TallyInv(u)
  <2>1. /\ account[u] = NoRow /\ guessed[u].login = 0 /\ guessed[u].contact = 0
        /\ uncounted[u].login = 0 /\ uncounted[u].contact = 0
    BY DEF AccountsInit, Kinds
  <2> QED
    BY <1>1, <1>2, <2>1 DEF TallyInv
<1>4. \A r \in Requests : MissInv(req[r]) /\ LockInv(req[r])
  BY <1>2 DEF AccountsInit, MissInv, LockInv
<1>5. \A r \in Requests : ClearInv(req[r])
  BY <1>2 DEF AccountsInit, ClearInv
<1> QED
  BY <1>3, <1>4, <1>5 DEF CountsInv, HandlerCounts

LEMMA AccountsInvStep == AccountsInv /\ AccountsNext => AccountsInv'
<1> SUFFICES ASSUME AccountsInv, AccountsNext PROVE AccountsInv'
  OBVIOUS
<1>1. issued \in Nat
  BY DEF AccountsInv, AccountsTypeOK
<1>2. ASSUME NEW r \in Requests, NEW u \in Users, NEW c \in Contacts,
             NEW via \in {"phone", "email", "google"}, SignUp(r, u, c, via)
      PROVE  AccountsInv'
  BY <1>2, SignUpKeeps
<1>3. ASSUME NEW r \in Requests, NEW u \in Users, NEW c \in Contacts, Register(r, u, c)
      PROVE  AccountsInv'
  BY <1>3, SignUpKeeps DEF Register
<1>4. ASSUME NEW r \in Requests, NEW u \in Users,
             RequestPhoneOtp(r, u) \/ RequestEmailOtp(r, u) \/ ForgotPassword(r, u)
      PROVE  AccountsInv'
  BY <1>4, RequestOtpKeeps DEF RequestPhoneOtp, RequestEmailOtp, ForgotPassword
<1>5. ASSUME NEW r \in Requests, NEW u \in Users, NEW code \in Entered,
             \/ VerifyPhoneOtp(r, u, code) \/ VerifyEmailOtp(r, u, code)
             \/ ResetPassword(r, u, code)
      PROVE  AccountsInv'
  <2> code \in Nat
    BY <1>1 DEF Entered
  <2> QED
    BY <1>5, VerifyOtpKeeps DEF VerifyPhoneOtp, VerifyEmailOtp
<1>6. ASSUME NEW r \in Requests, NEW u \in Users, NEW code \in Entered,
             VerifyContactChange(r, u, code)
      PROVE  AccountsInv'
  BY <1>6, VerifyChangeKeeps
<1>7. ASSUME NEW r \in Requests, NEW u \in Users,
             \/ PasswordLogin(r, u) \/ RefreshToken(r, u) \/ UpdateProfile(r, u)
             \/ \E first \in BOOLEAN : GoogleLogin(r, u, first)
      PROVE  AccountsInv'
  <2>1. \/ UpdateProfile(r, u)
        \/ \E saves \in {<<>>, <<account[u]>>} : Login(r, u, saves)
    BY <1>7 DEF PasswordLogin, RefreshToken, GoogleLogin
  <2> QED
    BY <2>1, LoginKeeps
<1>8. ASSUME NEW r \in Requests, Save(r) \/ SendSms(r) \/ Abandon(r)
      PROVE  AccountsInv'
  BY <1>8, SaveKeeps, SendSmsKeeps, AbandonKeeps
<1>9. CASE (\E u \in Users : SetPassword(u) \/ Deactivate(u)) \/ RevokeAllSessions
  BY <1>9, AccountColumnsKeep
<1>10. CASE \E u \in Users, c \in Contacts : RequestContactChange(u, c)
  BY <1>10, RequestChangeKeeps
<1>11. CASE Tick
  BY <1>11, TickKeeps
<1> QED
  BY <1>2, <1>3, <1>4, <1>5, <1>6, <1>7, <1>8, <1>9, <1>10, <1>11 DEF AccountsNext

-----------------------------------------------------------------------------
(* The history of wrong codes.  Most steps leave the counters of every     *)
(* account alone, and those of the requests that still have rows to save.  *)
LEMMA LimitTimes ==
    ASSUME NEW n \in Nat
    PROVE  /\ MaxAttempts \in Nat \ {0} /\ MaxAttempts * n \in Nat
           /\ MaxAttempts * (1 + n) = MaxAttempts + MaxAttempts * n
           /\ MaxAttempts * (n + 1) = MaxAttempts + MaxAttempts * n
           /\ MaxAttempts * (1 + (n + 1)) = MaxAttempts + (MaxAttempts + MaxAttempts * n)
           /\ MaxAttempts * 0 = 0
  BY AccountsAssumption

LEMMA CountsQuiet ==
    ASSUME CountsInv, UNCHANGED guessVars, now \in Nat, now' \in Nat, now' >= now,
           req \in [Requests -> Request],
           \A u \in Users :
              /\ account'[u].pending = account[u].pending
              /\ account'[u].contact_otp_attempts = account[u].contact_otp_attempts
              /\ account'[u].otp_attempts = account[u].otp_attempts,
           \A q \in Requests : \/ req'[q] = req[q]
                               \/ req'[q].saves = <<>>
                               \/ HandlerCounts(req[q])'
    PROVE  CountsInv'
<1>1. \A u \in Users : TallyInv(u)'
  BY DEF CountsInv, TallyInv, guessVars
<1>2. ASSUME NEW q \in Requests PROVE HandlerCounts(req[q])'
  <2>1. CASE req'[q] = req[q]
    <3>1. MissInv(req[q])' /\ LockInv(req[q])'
      BY <2>1 DEF CountsInv, HandlerCounts, MissInv, LockInv
    <3>2. ClearInv(req[q])'
      <4>1. \A count, row : Fair(count, row) => Fair(count, row)'
        BY DEF Fair, Clears
      <4>2. ClearInv(req[q])
        BY DEF CountsInv, HandlerCounts
      <4>3. \A count, saves : Steady(count, saves) => Steady(count, saves)'
        BY <4>1 DEF Steady, LoginCount
      <4> QED
        BY <2>1, <4>2, <4>3 DEF ClearInv
    <3> QED
      BY <3>1, <3>2 DEF HandlerCounts
  <2>2. CASE req'[q].saves = <<>>
    BY <2>2 DEF HandlerCounts, MissInv, LockInv, ClearInv
  <2> QED
    BY <2>1, <2>2
<1> QED
  BY <1>1, <1>2 DEF CountsInv

(* Short sequences, joined.                                                *)
LEMMA Joined ==
    ASSUME NEW x, NEW y, NEW z
    PROVE  /\ <<>> \o <<>> = <<>> /\ <<>> \o <<x>> = <<x>> /\ <<x>> \o <<>> = <<x>>
           /\ <<>> \o <<x, y>> = <<x, y>>
           /\ <<x>> \o <<y>> = <<x, y>> /\ <<x>> \o <<y, z>> = <<x, y, z>>
<1> DEFINE S == {x, y, z}
<1>1. <<>> \in Seq(S) /\ <<x>> \in Seq(S) /\ <<y>> \in Seq(S) /\ <<y, z>> \in Seq(S) /\ <<x, y>> \in Seq(S) /\ <<x, y, z>> \in Seq(S)
  OBVIOUS
<1>2. <<>> \o <<>> = <<>> /\ <<>> \o <<x>> = <<x>> /\ <<x>> \o <<>> = <<x>> /\ <<>> \o <<x, y>> = <<x, y>>
  BY <1>1, ConcatEmptySeq
<1>3. <<x>> \o <<y>> = <<x, y>>
  <2>1. <<x>> \o <<y>> \in Seq(S) /\ Len(<<x>> \o <<y>>) = 2
    BY <1>1
  <2>2. (<<x>> \o <<y>>)[1] = x /\ (<<x>> \o <<y>>)[2] = y
    BY <1>1
  <2>3. \A i \in 1..2 : (<<x>> \o <<y>>)[i] = <<x, y>>[i]
    BY <2>2
  <2> QED
    BY <1>1, <2>1, <2>3, SeqEqual
<1>4. <<x>> \o <<y, z>> = <<x, y, z>>
  <2>1. <<x>> \o <<y, z>> \in Seq(S) /\ Len(<<x>> \o <<y, z>>) = 3
    BY <1>1
  <2>2. /\ (<<x>> \o <<y, z>>)[1] = x /\ (<<x>> \o <<y, z>>)[2] = y
        /\ (<<x>> \o <<y, z>>)[3] = z
    BY <1>1
  <2>3. \A i \in 1..3 : (<<x>> \o <<y, z>>)[i] = <<x, y, z>>[i]
    BY <2>2
  <2> QED
    BY <1>1, <2>1, <2>3, SeqEqual
<1> QED
  BY <1>2, <1>3, <1>4

(* Rows that keep the count, or clear it, one after the other.             *)
LEMMA FairRow ==
    ASSUME NEW row, row.otp_attempts \in Nat, NEW count,
           count[1] = row.otp_attempts \/ row.otp = 0
    PROVE  Fair(count, row)
  BY DEF Fair, Clears

LEMMA SteadyShort ==
    ASSUME NEW count, NEW x, NEW y, NEW z, Fair(count, x)
    PROVE  /\ Steady(count, <<x>>)
           /\ Fair(LoginCount(x), y) => Steady(count, <<x, y>>)
           /\ Fair(LoginCount(x), y) /\ Fair(LoginCount(y), z) => Steady(count, <<x, y, z>>)
<1>1. Steady(count, <<x>>)
  BY DEF Steady
<1>2. ASSUME Fair(LoginCount(x), y) PROVE Steady(count, <<x, y>>)
  <2> SUFFICES ASSUME NEW i \in 1..1 PROVE Fair(LoginCount(<<x, y>>[i]), <<x, y>>[i + 1])
    BY DEF Steady
  <2>1. i = 1
    OBVIOUS
  <2> QED
    BY <1>2, <2>1
<1>3. ASSUME Fair(LoginCount(x), y), Fair(LoginCount(y), z) PROVE Steady(count, <<x, y, z>>)
  <2> SUFFICES ASSUME NEW i \in 1..2 PROVE Fair(LoginCount(<<x, y, z>>[i]), <<x, y, z>>[i + 1])
    BY DEF Steady
  <2>1. i = 1 \/ i = 2
    OBVIOUS
  <2> QED
    BY <1>3, <2>1
<1> QED
  BY <1>1, <1>2, <1>3

LEMMA UnlockFair ==
    ASSUME AccountsTypeOK, NEW row \in Row, LockoutOver(row)
    PROVE  Fair(LoginCount(row), Unlocked(row))
<1>1. row.lockout_until \in 1..now
  BY DEF LockoutOver, IsLocked, AccountsTypeOK, Row
<1> QED
  BY <1>1 DEF Fair, Clears, LoginCount

LEMMA UnlockSteady ==
    ASSUME AccountsTypeOK, NEW row \in Row, NEW x, NEW y, Fair(LoginCount(Unlocked(row)), x)
    PROVE  /\ UnlockSaves(row) # <<>> => Steady(LoginCount(row), UnlockSaves(row))
           /\ Steady(LoginCount(row), UnlockSaves(row) \o <<x>>)
           /\ Fair(LoginCount(x), y) => Steady(LoginCount(row), UnlockSaves(row) \o <<x, y>>)
<1>1. CASE LockoutOver(row)
  <2>1. UnlockSaves(row) = <<Unlocked(row)>> /\ Fair(LoginCount(row), Unlocked(row))
    BY <1>1, UnlockFair DEF UnlockSaves
  <2>2. /\ UnlockSaves(row) \o <<x>> = <<Unlocked(row), x>>
        /\ UnlockSaves(row) \o <<x, y>> = <<Unlocked(row), x, y>>
    BY <2>1, Joined
  <2> QED
    BY <2>1, <2>2, SteadyShort
<1>2. CASE ~LockoutOver(row)
  <2>1. UnlockSaves(row) = <<>> /\ Unlocked(row) = row
    BY <1>2 DEF UnlockSaves, Unlocked
  <2>2. UnlockSaves(row) \o <<x>> = <<x>> /\ UnlockSaves(row) \o <<x, y>> = <<x, y>>
    BY <2>1, Joined
  <2> QED
    BY <2>1, <2>2, SteadyShort
<1> QED
  BY <1>1, <1>2

LEMMA CountsStart ==
    ASSUME AccountsInv, CountsInv, NEW r \in Requests, NEW u \in Users,
           NEW saves, NEW sms, NEW miss, Start(r, u, saves, sms, miss),
           UNCHANGED <<account, guessVars, now>>, Steady(LoginCount(account[u]), saves),
           miss => \/ Len(saves) = 1 /\ saves[1].otp_attempts = account[u].otp_attempts + 1
                   \/ Len(saves) = 2 /\ saves[2].otp_attempts = saves[1].otp_attempts + 1
    PROVE  CountsInv'
<1> DEFINE N == [Idle EXCEPT !.user = u, !.saves = saves, !.sms = sms, !.miss = miss,
                             !.base = LoginCount(account[u])]
<1>1. /\ req' = [req EXCEPT ![r] = N] /\ req \in [Requests -> Request] /\ now \in Nat
  BY DEF Start, AccountsInv, AccountsTypeOK
<1>2. /\ N.saves = saves /\ N.miss = miss /\ ~N.lock /\ N.base = LoginCount(account[u])
      /\ N.base[1] = account[u].otp_attempts
  BY DEF Idle, LoginCount
<1> HIDE DEF N
<1>3. req'[r] = N /\ \A q \in Requests \ {r} : req'[q] = req[q]
  BY <1>1
<1>4. MissInv(req[r])' /\ LockInv(req[r])'
  BY <1>2, <1>3 DEF MissInv, LockInv
<1>5. Steady(LoginCount(account[u]), saves)'
  BY DEF Steady, Fair, Clears, LoginCount
<1>6. ClearInv(req[r])'
  BY <1>2, <1>3, <1>5 DEF ClearInv
<1> QED
  BY <1>1, <1>3, <1>4, <1>6, CountsQuiet DEF HandlerCounts

(* Handlers that save nothing but the row, and a new session.              *)
LEMMA CountsLogin ==
    ASSUME AccountsInv, CountsInv, NEW r \in Requests, NEW u \in Users,
           \/ \E saves \in {<<>>, <<account[u]>>} : Login(r, u, saves)
           \/ UpdateProfile(r, u)
    PROVE  CountsInv'
<1> DEFINE row == account[u]
           token == [row EXCEPT !.session = TRUE]
<1>1. /\ row \in Row /\ token \in Row /\ token.otp_attempts = row.otp_attempts
      /\ row.otp_attempts \in Nat
  BY DEF AccountsInv, AccountsTypeOK, Row
<1>2. /\ LoginCount(row)[1] = row.otp_attempts /\ LoginCount(token)[1] = row.otp_attempts
  BY <1>1 DEF LoginCount
<1>3. UNCHANGED <<account, guessVars, now>>
  BY DEF Login, UpdateProfile
<1> HIDE DEF token
<1>4. PICK saves \in {<<row>>, <<token>>, <<row, token>>} : Start(r, u, saves, FALSE, FALSE)
  <2> DEFINE given == _issue_token(row)
  <2>1. given = <<token>> \/ given = <<>>
    BY DEF _issue_token, token
  <2>2. \/ Start(r, u, <<>> \o given, FALSE, FALSE)
        \/ Start(r, u, <<row>> \o given, FALSE, FALSE)
        \/ Start(r, u, <<row>>, FALSE, FALSE)
    BY DEF Login, UpdateProfile
  <2> HIDE DEF given, row
  <2>3. ~Start(r, u, <<>>, FALSE, FALSE)
    BY DEF Start
  <2>4. <<>> \o <<>> = <<>> /\ <<row>> \o <<>> = <<row>>
    BY Joined
  <2>5. <<>> \o <<token>> = <<token>> /\ <<row>> \o <<token>> = <<row, token>>
    BY Joined
  <2> QED
    BY <2>1, <2>2, <2>3, <2>4, <2>5
<1>5. Fair(LoginCount(row), row) /\ Fair(LoginCount(row), token)
  BY <1>1, <1>2, FairRow
<1>6. Steady(LoginCount(row), saves)
  BY <1>5, SteadyShort
<1> QED
  BY <1>3, <1>4, <1>6, CountsStart

LEMMA CountsSignUp ==
    ASSUME AccountsInv, CountsInv, NEW r \in Requests, NEW u \in Users, NEW c, NEW via,
           SignUp(r, u, c, via)
    PROVE  CountsInv'
<1> DEFINE row == [NewRow(c) EXCEPT !.password = (via = "register")]
           token == [row EXCEPT !.session = TRUE]
           code == generate_otp(row, issued + 1)
<1>1. /\ row.otp = 0 /\ row.otp_attempts = 0 /\ LoginCount(row)[1] = 0
      /\ token.otp_attempts = 0 /\ code.otp_attempts = 0
  BY DEF NewRow, LoginCount, generate_otp
<1>2. UNCHANGED <<account, guessVars, now>>
  BY DEF SignUp
<1>3. PICK saves \in {<<row>>, <<row, token>>, <<row, code>>} : \E sms : Start(r, u, saves, sms, FALSE)
  <2> DEFINE given == _issue_token(row)
  <2>1. given = <<token>> \/ given = <<>>
    BY DEF _issue_token
  <2>2. \/ \E sms : Start(r, u, <<row, code>>, sms, FALSE)
        \/ Start(r, u, <<row>> \o given, FALSE, FALSE)
    BY DEF SignUp
  <2> HIDE DEF given, row, token, code
  <2>3. <<row>> \o <<>> = <<row>> /\ <<row>> \o <<token>> = <<row, token>>
    BY Joined
  <2> QED
    BY <2>1, <2>2, <2>3
<1> HIDE DEF row, token, code
<1>4. /\ Fair(LoginCount(account[u]), row)
      /\ Fair(LoginCount(row), token) /\ Fair(LoginCount(row), code)
  BY <1>1, FairRow
<1>5. Steady(LoginCount(account[u]), saves)
  BY <1>4, SteadyShort
<1> QED
  BY <1>2, <1>3, <1>5, CountsStart

LEMMA CountsRequestOtp ==
    ASSUME AccountsInv, CountsInv, NEW r \in Requests, NEW u \in Users, NEW via,
           RequestOtp(r, u, via)
    PROVE  CountsInv'
<1> DEFINE row == account[u]
           code == generate_otp(Unlocked(row), issued + 1)
<1>1. UNCHANGED <<account, guessVars, now>>
  BY DEF RequestOtp
<1>2. PICK saves \in {UnlockSaves(row), UnlockSaves(row) \o <<code>>} :
           \E sms : Start(r, u, saves, sms, FALSE)
  BY DEF RequestOtp
<1>3. row \in Row /\ Unlocked(row) \in Row /\ AccountsTypeOK
  BY DEF AccountsInv, AccountsTypeOK, Unlocked, Row
<1>4. code.otp_attempts = Unlocked(row).otp_attempts /\ code.otp_attempts \in Nat
  BY <1>3 DEF generate_otp, Row
<1>5. LoginCount(Unlocked(row))[1] = code.otp_attempts
  BY <1>4 DEF LoginCount
<1> HIDE DEF code, row
<1>6. Fair(LoginCount(Unlocked(row)), code)
  BY <1>4, <1>5, FairRow
<1>7. saves # <<>>
  BY <1>2 DEF Start
<1>8. Steady(LoginCount(row), saves)
  BY <1>2, <1>3, <1>6, <1>7, UnlockSteady
<1> QED
  BY <1>1, <1>2, <1>8, CountsStart DEF row

LEMMA CountsVerify ==
    ASSUME AccountsInv, CountsInv, NEW r \in Requests, NEW u \in Users, NEW code,
           VerifyOtp(r, u, code) \/ ResetPassword(r, u, code)
    PROVE  CountsInv'
<1> DEFINE found == account[u]
           row == Unlocked(found)
           spent == CodeSpent(row)
           token == [spent EXCEPT !.session = TRUE]
           reset == [spent EXCEPT !.password = TRUE, !.session = FALSE, !.lockout_until = 0]
           counted == increment_otp_attempts(row)
           missed == UnlockSaves(found) \o <<counted>>
<1>1. UNCHANGED <<account, guessVars, now>>
  BY DEF VerifyOtp, ResetPassword
<1>3. found \in Row /\ AccountsTypeOK
  BY DEF AccountsInv, AccountsTypeOK
<1>4. row \in Row /\ row.otp_attempts \in Nat /\ LoginCount(row)[1] = row.otp_attempts
  BY <1>3 DEF Unlocked, Row, LoginCount
<1>5. /\ counted.otp_attempts = row.otp_attempts + 1
      /\ spent.otp = 0 /\ spent.otp_attempts = 0 /\ token.otp = 0 /\ token.otp_attempts = 0
      /\ reset.otp = 0 /\ reset.otp_attempts = 0
  BY <1>4 DEF increment_otp_attempts, CodeSpent, Row
<1>2. \/ \E saves \in {<<spent>>, <<spent, token>>, <<reset>>} :
            Start(r, u, UnlockSaves(found) \o saves, FALSE, FALSE)
      \/ Start(r, u, missed, FALSE, TRUE)
  <2> DEFINE given == _issue_token(spent)
  <2>1. given = <<token>> \/ given = <<>>
    BY DEF _issue_token
  <2>2. <<spent>> \o <<token>> = <<spent, token>> /\ <<spent>> \o <<>> = <<spent>>
    <3> HIDE DEF spent, token
    <3> QED
      BY Joined
  <2>3. \/ Start(r, u, UnlockSaves(found) \o (<<spent>> \o given), FALSE, FALSE)
        \/ Start(r, u, UnlockSaves(found) \o <<reset>>, FALSE, FALSE)
        \/ Start(r, u, missed, FALSE, TRUE)
    BY DEF VerifyOtp, ResetPassword
  <2> HIDE DEF given, spent, token, reset, missed, found
  <2> QED
    BY <2>1, <2>2, <2>3
<1> HIDE DEF spent, token, reset, counted, row, found
<1>6. /\ Fair(LoginCount(row), spent) /\ Fair(LoginCount(spent), token) /\ Fair(LoginCount(row), reset)
  BY <1>5, FairRow
<1>7. Fair(LoginCount(row), counted)
  BY <1>4, <1>5 DEF Fair
<1>8. /\ Steady(LoginCount(found), missed)
      /\ \A saves \in {<<spent>>, <<spent, token>>, <<reset>>} :
             Steady(LoginCount(found), UnlockSaves(found) \o saves)
  BY <1>3, <1>6, <1>7, UnlockSteady DEF row
<1>9. \/ Len(missed) = 1 /\ missed[1].otp_attempts = found.otp_attempts + 1
      \/ Len(missed) = 2 /\ missed[2].otp_attempts = missed[1].otp_attempts + 1
  <2>1. CASE LockoutOver(found)
    <3>1. missed = <<row>> \o <<counted>>
      BY <2>1 DEF UnlockSaves, row
    <3> HIDE DEF missed
    <3> QED
      BY <1>5, <3>1
  <2>2. CASE ~LockoutOver(found)
    <3>1. missed = <<>> \o <<counted>> /\ row = found
      BY <2>2 DEF UnlockSaves, Unlocked, row
    <3> HIDE DEF missed
    <3> QED
      BY <1>5, <3>1
  <2> QED
    BY <2>1, <2>2
<1> HIDE DEF missed
<1> QED
  BY <1>1, <1>2, <1>8, <1>9, CountsStart DEF found

LEMMA CountsColumns ==
    ASSUME AccountsInv, CountsInv,
           \/ \E r \in Requests : SendSms(r) \/ Abandon(r)
           \/ \E u \in Users : SetPassword(u) \/ Deactivate(u)
           \/ RevokeAllSessions \/ Tick
    PROVE  CountsInv'
<1>1. /\ account \in [Users -> Row] /\ req \in [Requests -> Request] /\ UNCHANGED guessVars
      /\ now \in Nat /\ now' \in {now, now + 1}
  BY DEF AccountsInv, AccountsTypeOK, SendSms, Abandon, SetPassword, Deactivate, RevokeAllSessions, Tick
<1>2. \A q \in Requests : req'[q] = req[q] \/ req'[q].saves = <<>>
  <2>1. Idle.saves = <<>>
    BY DEF Idle
  <2>2. req' = req \/ \E r \in Requests : req' = [req EXCEPT ![r] = Idle]
    BY DEF SendSms, Abandon, SetPassword, Deactivate, RevokeAllSessions, Tick
  <2> QED
    BY <1>1, <2>1, <2>2
<1>3. ASSUME NEW v \in Users
      PROVE  /\ account'[v].pending = account[v].pending
             /\ account'[v].contact_otp_attempts = account[v].contact_otp_attempts
             /\ account'[v].otp_attempts = account[v].otp_attempts
  <2> account[v] \in Row
    BY <1>1
  <2>1. \/ account'[v] = account[v]
        \/ \E k \in {"password", "active", "session"}, b \in BOOLEAN : account'[v] = [account[v] EXCEPT ![k] = b]
        \/ account'[v] = [[account[v] EXCEPT !.otp = 0] EXCEPT !.otp_expiry = 0]
    BY <1>1 DEF SendSms, Abandon, SetPassword, Deactivate, RevokeAllSessions, Tick
  <2> QED
    BY <2>1 DEF Row
<1> QED
  BY <1>1, <1>2, <1>3, CountsQuiet

(* A new contact code starts its count anew; no handler that holds the     *)
(* lock of the account is under way then.                                  *)
LEMMA CountsRequestChange ==
    ASSUME AccountsInv, CountsInv, NEW u \in Users, NEW c \in Contacts, RequestContactChange(u, c)
    PROVE  CountsInv'
<1>1. /\ account \in [Users -> Row] /\ req' = req /\ NotLocked(u)
      /\ guessed \in [Users -> [Kinds -> Nat]] /\ uncounted \in [Users -> [Kinds -> Nat]]
      /\ now' = now
  BY DEF AccountsInv, AccountsTypeOK, RequestContactChange
<1>2. /\ account'[u].otp_attempts = account[u].otp_attempts
      /\ account'[u].contact_otp_attempts = 0
      /\ \A v \in Users \ {u} : account'[v] = account[v]
  BY <1>1 DEF RequestContactChange, _clear_pending, Row
<1>3. /\ guessed'[u].contact = 0 /\ uncounted'[u].contact = 0
      /\ guessed'[u].login = guessed[u].login /\ uncounted'[u].login = uncounted[u].login
      /\ \A v \in Users \ {u} : guessed'[v] = guessed[v] /\ uncounted'[v] = uncounted[v]
  BY <1>1 DEF RequestContactChange, Kinds
<1>4. TallyInv(u)'
  BY <1>2, <1>3, LimitTimes DEF CountsInv, TallyInv
<1>5. \A v \in Users \ {u} : TallyInv(v)'
  BY <1>2, <1>3 DEF CountsInv, TallyInv
<1>6. ASSUME NEW q \in Requests PROVE HandlerCounts(req[q])'
  <2>1. HandlerCounts(req[q])
    BY DEF CountsInv
  <2>2. LockInv(req[q])'
    BY <1>1, <1>2, <2>1 DEF HandlerCounts, LockInv, NotLocked, Holds
  <2>3. MissInv(req[q])' /\ ClearInv(req[q])'
    BY <1>1, <2>1 DEF HandlerCounts, MissInv, ClearInv, Steady, Fair, Clears, LoginCount
  <2> QED
    BY <2>2, <2>3 DEF HandlerCounts
<1> QED
  BY <1>4, <1>5, <1>6 DEF CountsInv

LEMMA CountsVerifyChange ==
    ASSUME AccountsInv, CountsInv, NEW r \in Requests, NEW u \in Users, NEW code,
           VerifyContactChange(r, u, code)
    PROVE  CountsInv'
<1> DEFINE new == AfterContactCode(u, code)
           miss == now <= account[u].contact_otp_expiry /\ account[u].contact_otp # code
           N == [Idle EXCEPT !.user = u, !.lock = TRUE, !.saves = <<new>>, !.miss = miss]
<1>1. /\ account[u] \in Row /\ req \in [Requests -> Request] /\ now \in Nat
      /\ account[u].pending # None /\ req' = [req EXCEPT ![r] = N] /\ UNCHANGED <<account, guessVars, now>>
  BY DEF AccountsInv, AccountsTypeOK, VerifyContactChange
<1>2. /\ new.otp_attempts = account[u].otp_attempts
      /\ new.pending # None =>
            miss /\ new.contact_otp_attempts = account[u].contact_otp_attempts + 1
  <2> DEFINE row == account[u]
             moved == [row EXCEPT !.contact = row.pending]
             counted == [row EXCEPT !.contact_otp_attempts = @ + 1]
  <2>1. \/ new = _clear_pending(row) \/ new = _clear_pending(moved)
        \/ miss /\ new = counted
    BY <1>1 DEF AfterContactCode, ContactCode, Row
  <2>2. row \in Row /\ moved \in Row
    BY <1>1 DEF Row
  <2>3. ASSUME NEW x \in Row
        PROVE  _clear_pending(x).pending = None /\ _clear_pending(x).otp_attempts = x.otp_attempts
    BY DEF _clear_pending, Row
  <2>4. moved.otp_attempts = row.otp_attempts
    BY <2>2 DEF Row
  <2>5. /\ counted.otp_attempts = row.otp_attempts
        /\ counted.contact_otp_attempts = row.contact_otp_attempts + 1
    BY <2>2 DEF Row
  <2> HIDE DEF new, miss, moved, counted
  <2> QED
    BY <2>1, <2>2, <2>3, <2>4, <2>5
<1> HIDE DEF new, miss
<1>3. N.saves = <<new>> /\ N.miss = miss /\ N.lock /\ N.user = u
  BY DEF Idle
<1> HIDE DEF N
<1>4. req'[r] = N /\ \A q \in Requests \ {r} : req'[q] = req[q]
  BY <1>1
<1>5. HandlerCounts(req[r])'
  <2>1. Len(<<new>>) = 1 /\ <<new>>[1] = new
    OBVIOUS
  <2>2. /\ req'[r].saves = <<new>> /\ req'[r].miss = miss /\ req'[r].lock /\ req'[r].user = u
        /\ account'[u] = account[u]
    BY <1>1, <1>3, <1>4
  <2>3. MissInv(req[r])'
    BY <2>2 DEF MissInv
  <2>4. LockInv(req[r])'
    BY <1>1, <1>2, <2>1, <2>2 DEF LockInv
  <2>5. ClearInv(req[r])'
    BY <2>2 DEF ClearInv
  <2> QED
    BY <2>3, <2>4, <2>5 DEF HandlerCounts
<1> QED
  BY <1>1, <1>4, <1>5, CountsQuiet

LEMMA CountSums ==
    \A a, b, c, d, M \in Nat, m \in {0, 1} :
       /\ a <= b + c /\ b < M => a + m <= M + c
       /\ a <= b + c /\ b + m <= d => a + m <= d + c
       /\ a <= b + c /\ b <= M /\ m <= d => a + m <= d + (M + c)
       /\ a <= M + c => a <= M + (M + c) /\ a <= d + (M + c)
  OBVIOUS

LEMMA LoginSums ==
    \A a, b, c, d, k, M \in Nat, m \in {0, 1}, same \in BOOLEAN :
       a <= b + c /\ b <= M /\ (same => k = b) /\ (m = 1 => d = k + 1) =>
          /\ ~same /\ d < b + m => a + m <= d + (M + c)
          /\ ~(same /\ d < b) /\ ~(~same /\ d < b + m) => a + m <= d + c
  OBVIOUS

LEMMA LastOne ==
    ASSUME NEW S, NEW s \in Seq(S), s # <<>>
    PROVE  Tail(s) = <<>> <=> Len(s) = 1
<1>1. Len(s) \in Nat /\ Len(s) # 0 /\ Len(Tail(s)) = Len(s) - 1 /\ Tail(s) \in Seq(S)
  OBVIOUS
<1>2. Tail(s) = <<>> <=> Len(Tail(s)) = 0
  BY <1>1, EmptySeq
<1> QED
  BY <1>1, <1>2

(* What a save does to the counts of its account.                          *)
LEMMA SaveTallies ==
    ASSUME AccountsTypeOK, \A v \in Users : TallyInv(v), NEW r \in Requests, NEW u \in Users,
           NEW row \in Row, Sane(row), Sane(account[u]),
           u = req[r].user, req[r].saves # <<>>, row = req[r].saves[1], NEW c, req[r].saves \in Seq(Savable(c)),
           HandlerCounts(req[r]), req[r] \in Request,
           Tally(r, u, row, IF req[r].miss /\ Tail(req[r].saves) = <<>> THEN 1 ELSE 0),
           account'[u] = row, \A v \in Users \ {u} : account'[v] = account[v]
    PROVE  \A v \in Users : TallyInv(v)'
<1> DEFINE q == req[r]
           found == account[u]
           fresh == q.base = LoginCount(found)
           misses == IF q.miss /\ Tail(q.saves) = <<>> THEN 1 ELSE 0
           cleared == fresh /\ Clears(LoginCount(found), row)
           forgot == ~fresh /\ row.otp_attempts < found.otp_attempts + misses
           g == guessed[u]
           n == uncounted[u]
<1>1. /\ found \in Row /\ TallyInv(u) /\ "login" \in Kinds /\ "contact" \in Kinds
      /\ guessed \in [Users -> [Kinds -> Nat]] /\ uncounted \in [Users -> [Kinds -> Nat]]
  BY DEF AccountsTypeOK, Kinds
<1>2. /\ row.otp_attempts \in Nat /\ row.contact_otp_attempts \in Nat
      /\ found.otp_attempts \in Nat /\ found.contact_otp_attempts \in Nat
  BY <1>1 DEF Row
<1>g. /\ g.login \in Nat /\ g.contact \in Nat /\ n.login \in Nat /\ n.contact \in Nat
  BY <1>1
<1>b. q.base[1] \in Nat
  <2>1. q.base \in Nat \X Nat
    BY DEF Request
  <2> QED
    BY <2>1
<1>t. Tail(q.saves) = <<>> <=> Len(q.saves) = 1
  <2> HIDE DEF Savable
  <2> QED
    BY LastOne
<1>x. misses \in {0, 1}
  OBVIOUS
<1>3. /\ row.otp_attempts <= MaxAttempts /\ found.otp_attempts <= MaxAttempts
      /\ found.contact_otp_attempts < MaxAttempts
  BY DEF Sane
<1>4. misses = 1 /\ ~q.lock => row.otp_attempts = q.base[1] + 1
  BY <1>t DEF HandlerCounts, MissInv
<1>5. fresh => q.base[1] = found.otp_attempts
  BY DEF LoginCount
<1> DEFINE pl == MaxAttempts * n.login
           pc == MaxAttempts * n.contact
<1>6. pl \in Nat /\ pc \in Nat /\ MaxAttempts \in Nat \ {0}
  BY <1>g, LimitTimes
<1>p. /\ MaxAttempts * (n.login + 1) = MaxAttempts + pl
      /\ MaxAttempts * (n.contact + 1) = MaxAttempts + pc
      /\ MaxAttempts * (1 + n.contact) = MaxAttempts + pc
      /\ MaxAttempts * (1 + (n.contact + 1)) = MaxAttempts + (MaxAttempts + pc)
      /\ MaxAttempts * 0 = 0
  <2> HIDE DEF Savable
  <2> QED
    BY <1>g, LimitTimes
<1>7. /\ g.login <= found.otp_attempts + pl /\ g.contact <= MaxAttempts + pc
      /\ found.pending # None => g.contact <= found.contact_otp_attempts + pc
  BY <1>1, <1>p DEF TallyInv
<1> HIDE DEF pl, pc
<1>8. CASE q.lock
  <2>1. q.miss => misses = 1
    BY <1>8, <1>t DEF HandlerCounts, LockInv
  <2>2. guessed' = [guessed EXCEPT ![u]["contact"] = g.contact + misses] /\ uncounted' = uncounted
    BY <1>8 DEF Tally
  <2>4. /\ row.otp_attempts = found.otp_attempts /\ found.pending # None
        /\ row.pending # None => q.miss /\ row.contact_otp_attempts = found.contact_otp_attempts + 1
    BY <1>8 DEF HandlerCounts, LockInv
  <2> HIDE DEF misses
  <2>3. /\ guessed'[u].login = g.login /\ guessed'[u].contact = g.contact + misses
        /\ \A v \in Users \ {u} : guessed'[v] = guessed[v]
    BY <1>1, <2>2
  <2> DEFINE gc == g.contact + misses
  <2>5. gc <= MaxAttempts + pc /\ (row.pending # None => gc <= row.contact_otp_attempts + pc)
    <3>1. gc <= MaxAttempts + pc
      BY <1>2, <1>3, <1>g, <1>6, <1>7, <1>x, <2>4, CountSums
    <3>2. row.pending # None => found.contact_otp_attempts + misses <= row.contact_otp_attempts
      BY <1>2, <2>1, <2>4
    <3>3. row.pending # None => gc <= row.contact_otp_attempts + pc
      BY <1>2, <1>g, <1>6, <1>7, <1>x, <2>4, <3>2, CountSums
    <3> QED
      BY <3>1, <3>3
  <2> HIDE DEF gc
  <2>6. /\ guessed'[u].login <= row.otp_attempts + pl /\ guessed'[u].contact <= MaxAttempts + pc
        /\ row.pending # None => guessed'[u].contact <= row.contact_otp_attempts + pc
    BY <1>7, <2>3, <2>4, <2>5 DEF gc
  <2>7. TallyInv(u)'
    BY <1>p, <2>2, <2>6 DEF TallyInv, pl, pc
  <2> HIDE DEF Savable
  <2>8. \A v \in Users \ {u} : TallyInv(v)'
    BY <2>2, <2>3 DEF TallyInv
  <2> QED
    BY <2>7, <2>8
<1>9. CASE ~q.lock
  <2> DEFINE gl == IF cleared THEN 0 ELSE g.login + misses
             nl == IF cleared THEN 0 ELSE IF forgot THEN n.login + 1 ELSE n.login
             nc == IF ContactCount(row) # ContactCount(found) THEN n.contact + 1 ELSE n.contact
  <2>1. /\ guessed' = [guessed EXCEPT ![u]["login"] = gl]
        /\ uncounted' = [uncounted EXCEPT ![u]["login"] = nl, ![u]["contact"] = nc]
    BY <1>9 DEF Tally
  <2> HIDE DEF gl, nl, nc
  <2>2. /\ guessed'[u].login = gl /\ guessed'[u].contact = g.contact
        /\ uncounted'[u].login = nl /\ uncounted'[u].contact = nc
        /\ \A v \in Users \ {u} : guessed'[v] = guessed[v] /\ uncounted'[v] = uncounted[v]
    BY <1>1, <2>1
  <2>3. gl <= row.otp_attempts + MaxAttempts * nl
    <3> DEFINE f == found.otp_attempts
               o == row.otp_attempts
    <3>1. /\ f \in Nat /\ o \in Nat /\ g.login \in Nat /\ f <= MaxAttempts /\ g.login <= f + pl
          /\ fresh \in BOOLEAN /\ (fresh => q.base[1] = f)
          /\ misses \in {0, 1} /\ (misses = 1 => o = q.base[1] + 1)
      BY <1>2, <1>3, <1>4, <1>5, <1>7, <1>9, <1>g, <1>x
    <3>2. cleared <=> fresh /\ o < f
      <4>1. Fair(q.base, row)
        <5> HIDE DEF Savable
        <5> QED
          BY <1>9 DEF HandlerCounts, ClearInv, Steady
      <4>2. LoginCount(found)[1] = f
        BY DEF LoginCount
      <4> HIDE DEF Savable
      <4> QED
        BY <4>1, <4>2 DEF Fair, Clears
    <3>3. forgot <=> ~fresh /\ o < f + misses
      OBVIOUS
    <3>4. /\ forgot => g.login + misses <= o + (MaxAttempts + pl)
          /\ ~cleared /\ ~forgot => g.login + misses <= o + pl
      <4> HIDE DEF misses, fresh, q, g, f, o, cleared, forgot, Savable
      <4> QED
        BY <1>b, <1>6, <3>1, <3>2, <3>3, LoginSums
    <3> HIDE DEF misses, fresh, q, g, f, cleared, forgot, Savable
    <3>5. CASE cleared
      BY <1>2, <1>p, <3>5 DEF gl, nl
    <3>6. CASE ~cleared /\ forgot
      BY <1>p, <3>4, <3>6 DEF gl, nl
    <3>7. CASE ~cleared /\ ~forgot
      BY <3>4, <3>7 DEF gl, nl, pl
    <3> QED
      BY <3>5, <3>6, <3>7
  <2>4. /\ g.contact <= MaxAttempts * (1 + nc)
        /\ row.pending # None => g.contact <= row.contact_otp_attempts + MaxAttempts * nc
    <3>1. CASE ContactCount(row) # ContactCount(found)
      <4>1. nc = n.contact + 1
        BY <3>1 DEF nc
      <4>2. MaxAttempts * nc = MaxAttempts + pc /\ MaxAttempts * (1 + nc) = MaxAttempts + (MaxAttempts + pc)
        BY <1>p, <4>1
      <4>3. g.contact <= MaxAttempts + (MaxAttempts + pc)
            /\ g.contact <= row.contact_otp_attempts + (MaxAttempts + pc)
        BY <1>g, <1>2, <1>6, <1>7, CountSums
      <4> QED
        BY <4>2, <4>3
    <3>2. CASE ContactCount(row) = ContactCount(found)
      <4>1. nc = n.contact
        BY <3>2 DEF nc
      <4>2. row.pending = found.pending /\ row.contact_otp_attempts = found.contact_otp_attempts
        BY <3>2 DEF ContactCount
      <4> QED
        BY <1>p, <1>7, <4>1, <4>2 DEF pc
    <3> QED
      BY <3>1, <3>2
  <2>5. TallyInv(u)'
    BY <2>2, <2>3, <2>4 DEF TallyInv
  <2> HIDE DEF Savable
  <2>6. \A v \in Users \ {u} : TallyInv(v)'
    BY <2>2 DEF TallyInv
  <2> QED
    BY <2>5, <2>6
<1> QED
  BY <1>8, <1>9

(* A save.  Under the lock the count is the stored one; a login handler    *)
(* adds to it, clears it, or writes an older count, which costs no more    *)
(* than one limit.                                                         *)
LEMMA CountsSave ==
    ASSUME AccountsInv, CountsInv, NEW r \in Requests, Save(r)
    PROVE  CountsInv'
<1> DEFINE q == req[r]
           next == [q EXCEPT !.saves = Tail(q.saves), !.base = LoginCount(Head(q.saves))]
<1>1. /\ AccountsTypeOK /\ q.saves # <<>> /\ HandlerCounts(q) /\ q \in Request
      /\ MissInv(q) /\ LockInv(q) /\ ClearInv(q)
  BY DEF AccountsInv, CountsInv, HandlerCounts, Save, AccountsTypeOK
<1>0. now \in Nat /\ now' = now /\ req \in [Requests -> Request]
  BY DEF AccountsInv, AccountsTypeOK, Save
<1>2. PICK c \in Contacts : q.saves \in Seq(Savable(c)) /\ q.user \in Users
  BY <1>1 DEF AccountsInv, SavesInv
<1>u. PICK u \in Users : u = q.user
  BY <1>2
<1>3. PICK row : row = Head(q.saves)
  OBVIOUS
<1>4. row \in Savable(c) /\ row = q.saves[1]
  <2> HIDE DEF Savable
  <2> QED
    BY <1>1, <1>2, <1>3
<1>5. row \in Row /\ Sane(row) /\ Sane(account[u]) /\ account[u] \in Row
  BY <1>1, <1>4 DEF Savable, AccountsInv, AccountsTypeOK
<1>i. Idle.saves = <<>> /\ Idle \in Request
  BY DEF Idle, Request
<1>6. CASE ~Unique(u, row)
  <2>1. req' = [req EXCEPT ![r] = Idle] /\ UNCHANGED <<account, guessVars>>
    BY <1>u, <1>3, <1>6 DEF Save
  <2>2. \A p \in Requests : req'[p] = req[p] \/ req'[p].saves = <<>>
    BY <1>1, <1>i, <2>1 DEF AccountsTypeOK
  <2> QED
    BY <1>0, <2>1, <2>2, CountsQuiet
<1>7. CASE Unique(u, row)
  <2> DEFINE misses == IF q.miss /\ Tail(q.saves) = <<>> THEN 1 ELSE 0
             last == Tail(q.saves) = <<>> /\ ~q.sms
  <2>1. /\ account' = [account EXCEPT ![u] = row] /\ Tally(r, u, row, misses) /\ RowFree(u, r)
        /\ req' = [req EXCEPT ![r] = IF last THEN Idle ELSE next]
    BY <1>u, <1>3, <1>7 DEF Save
  <2>2. /\ account'[u] = row /\ \A v \in Users \ {u} : account'[v] = account[v]
        /\ req'[r] \in {Idle, next} /\ \A p \in Requests \ {r} : req'[p] = req[p]
    <3> HIDE DEF last, next
    <3> QED
      BY <1>1, <2>1 DEF AccountsTypeOK
  <2>3. HandlerCounts(req[r])'
    <3>1. /\ next.saves = Tail(q.saves) /\ next.miss = q.miss /\ next.lock = q.lock
          /\ next.base = LoginCount(row) /\ next.base[1] = row.otp_attempts
      BY <1>1, <1>3 DEF Request, LoginCount
    <3>2. MissInv(next)
      <4> SUFFICES ASSUME q.miss, ~q.lock, Tail(q.saves) # <<>> PROVE MissInv(next)
        BY <3>1 DEF MissInv
      <4> HIDE DEF next, Savable
      <4>1. Len(q.saves) = 2 /\ q.saves[2].otp_attempts = row.otp_attempts + 1
        BY <1>1, <1>2, <1>4 DEF MissInv
      <4>2. Len(Tail(q.saves)) = 1 /\ Tail(q.saves)[1] = q.saves[2]
        BY <1>2, <4>1
      <4> QED
        BY <3>1, <4>1, <4>2 DEF MissInv
    <3>3. q.lock => Tail(q.saves) = <<>>
      <4>1. Tail(q.saves) = <<>> <=> Len(q.saves) = 1
        <5> HIDE DEF Savable
        <5> QED
          BY <1>1, <1>2, LastOne
      <4> QED
        BY <1>1, <4>1 DEF LockInv
    <3>t. ClearInv(next)
      <4> SUFFICES ASSUME ~q.lock, Tail(q.saves) # <<>> PROVE Steady(LoginCount(row), Tail(q.saves))
        BY <3>1 DEF ClearInv
      <4> HIDE DEF next, Savable
      <4>1. Steady(q.base, q.saves)
        BY <1>1 DEF ClearInv
      <4>2. /\ Len(Tail(q.saves)) = Len(q.saves) - 1 /\ Len(q.saves) \in Nat
            /\ Len(Tail(q.saves)) \in Nat \ {0}
            /\ \A i \in 1..Len(Tail(q.saves)) : Tail(q.saves)[i] = q.saves[i + 1]
        <5>1. /\ Tail(q.saves) \in Seq(Savable(c)) /\ Len(Tail(q.saves)) = Len(q.saves) - 1
              /\ \A i \in 1..Len(Tail(q.saves)) : Tail(q.saves)[i] = q.saves[i + 1]
          BY <1>1, <1>2, HeadTailProperties
        <5>2. Len(Tail(q.saves)) \in Nat \ {0}
          BY <5>1, EmptySeq
        <5>3. Len(q.saves) \in Nat
          BY <1>2
        <5> QED
          BY <5>1, <5>2, <5>3
      <4>3. Fair(LoginCount(row), Tail(q.saves)[1])
        BY <1>4, <4>1, <4>2 DEF Steady
      <4>4. ASSUME NEW i \in 1..(Len(Tail(q.saves)) - 1)
            PROVE  Fair(LoginCount(Tail(q.saves)[i]), Tail(q.saves)[i + 1])
        <5>1. /\ i + 1 \in 1..(Len(q.saves) - 1) /\ i \in 1..Len(Tail(q.saves))
              /\ i + 1 \in 1..Len(Tail(q.saves))
          BY <4>2
        <5> QED
          BY <4>1, <4>2, <5>1 DEF Steady
      <4> QED
        BY <4>3, <4>4 DEF Steady
    <3> HIDE DEF next
    <3>4. CASE req'[r] = Idle
      BY <1>i, <3>4 DEF HandlerCounts, MissInv, LockInv, ClearInv
    <3>5. CASE req'[r] = next
      <4>1. MissInv(req[r])' /\ LockInv(req[r])'
        BY <3>1, <3>2, <3>3, <3>5 DEF MissInv, LockInv
      <4>2. ClearInv(req[r])'
        BY <1>0, <3>t, <3>5 DEF ClearInv, Steady, Fair, Clears, LoginCount
      <4> QED
        BY <4>1, <4>2 DEF HandlerCounts
    <3> QED
      BY <2>2, <3>4, <3>5
  <2>4. ASSUME NEW p \in Requests \ {r} PROVE HandlerCounts(req[p])'
    <3>1. HandlerCounts(req[p]) /\ req'[p] = req[p]
      BY <2>2 DEF CountsInv
    <3>2. LockInv(req[p])'
      BY <2>1, <2>2, <3>1 DEF HandlerCounts, LockInv, RowFree, Holds
    <3>3. MissInv(req[p])'
      BY <3>1 DEF HandlerCounts, MissInv
    <3>4. ClearInv(req[p])'
      BY <1>0, <3>1 DEF HandlerCounts, ClearInv, Steady, Fair, Clears, LoginCount
    <3> QED
      BY <3>2, <3>3, <3>4 DEF HandlerCounts
  <2>5. \A v \in Users : TallyInv(v)'
    <3> HIDE DEF Savable
    <3>1. \A v \in Users : TallyInv(v)
      BY DEF CountsInv
    <3> QED
      BY <1>1, <1>2, <1>u, <1>4, <1>5, <2>1, <2>2, <3>1, SaveTallies
  <2> QED
    BY <2>3, <2>4, <2>5 DEF CountsInv
<1> QED
  BY <1>6, <1>7

LEMMA CountsStep == AccountsInv /\ CountsInv /\ AccountsNext => CountsInv'
<1> SUFFICES ASSUME AccountsInv, CountsInv, AccountsNext PROVE CountsInv'
  OBVIOUS
<1>1. ASSUME NEW r \in Requests, NEW u \in Users,
             \/ \E c \in Contacts : \/ \E via \in {"phone", "email", "google"} : SignUp(r, u, c, via)
                                    \/ Register(r, u, c)
             \/ RequestPhoneOtp(r, u) \/ RequestEmailOtp(r, u) \/ ForgotPassword(r, u)
             \/ PasswordLogin(r, u) \/ RefreshToken(r, u) \/ \E first \in BOOLEAN : GoogleLogin(r, u, first)
             \/ UpdateProfile(r, u)
      PROVE  CountsInv'
  BY <1>1, CountsSignUp, CountsRequestOtp, CountsLogin DEF Register, RequestPhoneOtp, RequestEmailOtp, ForgotPassword, PasswordLogin,
                            RefreshToken, GoogleLogin
<1>2. ASSUME NEW r \in Requests, NEW u \in Users, NEW code \in Entered,
             VerifyPhoneOtp(r, u, code) \/ VerifyEmailOtp(r, u, code) \/ ResetPassword(r, u, code)
      PROVE  CountsInv'
  BY <1>2, CountsVerify DEF VerifyPhoneOtp, VerifyEmailOtp
<1> QED
  BY <1>1, <1>2, CountsVerifyChange, CountsRequestChange, CountsSave, CountsColumns DEF AccountsNext

-----------------------------------------------------------------------------
(* Arithmetic of the bound.                                                *)
LEMMA UpFacts ==
    ASSUME NEW n \in Nat
    PROVE  /\ Up(n) \in Nat /\ Up(0) = 0
           /\ n > 0 => Up(n - 1) = Up(n) - 2 * n
           /\ \A m \in 0..n : Up(m) <= Up(n)
<1>1. n > 0 => (n - 1) * n = n * (n + 1) - 2 * n
  OBVIOUS
<1>2. Up(n) \in Nat /\ Up(0) = 0
  BY DEF Up
<1>3. ASSUME NEW m \in 0..n PROVE Up(m) <= Up(n)
  <2>1. m * m <= n * n
    OBVIOUS
  <2>2. m * (m + 1) = m * m + m /\ n * (n + 1) = n * n + n
    OBVIOUS
  <2> QED
    BY <2>1, <2>2 DEF Up
<1>4. n > 0 => (n - 1) + 1 = n
  OBVIOUS
<1> QED
  BY <1>1, <1>2, <1>3, <1>4 DEF Up

LEMMA BoundFact == Bound = Up(MaxGuesses) + 2 * MaxGuesses /\ Bound \in Nat /\ MaxGuesses \in Nat \ {0}
<1>1. MaxGuesses \in Nat \ {0}
  BY ServicePinsAssumption
<1>2. MaxGuesses * (MaxGuesses + 3) = MaxGuesses * (MaxGuesses + 1) + 2 * MaxGuesses
  BY <1>1
<1> QED
  BY <1>1, <1>2 DEF Bound, Up

(* A new PIN, a lockout that is over, a wrong guess and a row saved: what  *)
(* they do to the three forms.                                             *)
LEMMA FreshFits ==
    /\ FitNone(0, MaxGuesses)
    /\ \A e \in 0..MaxGuesses - 1 : FitOne(0, MaxGuesses, e) /\ FitTwo(1, MaxGuesses - 1, e)
    /\ \A e, f \in 0..MaxGuesses - 1 : FitTwo(0, e, f)
    /\ FitOne(1, MaxGuesses, MaxGuesses - 1)
<1> DEFINE M == MaxGuesses
<1>1. Bound = Up(M) + 2 * M /\ M \in Nat \ {0}
  BY BoundFact
<1>2. Up(M - 1) = Up(M) - 2 * M /\ Up(M) \in Nat
  BY <1>1, UpFacts
<1>3. M - 1 \in Nat
  BY <1>1
<1>4. \A e \in 0..M - 1 : Up(e) <= Up(M - 1) /\ Up(e) \in Nat /\ e \in Nat /\ e <= M - 1
  BY <1>3, UpFacts
<1> HIDE DEF M
<1>5. FitNone(0, M)
  BY <1>1, <1>2 DEF FitNone
<1>6. \A e \in 0..M - 1 : FitOne(0, M, e)
  BY <1>1, <1>2, <1>4 DEF FitOne
<1>7. \A e \in 0..M - 1 : FitTwo(1, M - 1, e)
  BY <1>1, <1>2, <1>4 DEF FitTwo
<1>8. \A e, f \in 0..M - 1 : FitTwo(0, e, f)
  BY <1>1, <1>2, <1>4 DEF FitTwo
<1>9. FitOne(1, M, M - 1)
  BY <1>1, <1>2 DEF FitOne
<1> QED
  BY <1>5, <1>6, <1>7, <1>8, <1>9 DEF M

LEMMA GuessFits ==
    ASSUME NEW w \in Nat, NEW d \in Nat \ {0}
    PROVE  /\ FitNone(w, d) => FitOne(w + 1, d, d - 1)
           /\ \A e \in Nat : FitOne(w, d, e) => FitTwo(w + 1, d - 1, e)
<1> d \in Nat /\ d > 0
  OBVIOUS
<1>1. Up(d - 1) = Up(d) - 2 * d /\ Up(d) \in Nat /\ Bound \in Nat
  BY UpFacts, BoundFact
<1>2. FitNone(w, d) => FitOne(w + 1, d, d - 1)
  BY <1>1 DEF FitNone, FitOne
<1>3. ASSUME NEW e \in Nat, FitOne(w, d, e) PROVE FitTwo(w + 1, d - 1, e)
  <2>1. Up(e) \in Nat
    BY UpFacts
  <2> QED
    BY <1>1, <1>3, <2>1 DEF FitOne, FitTwo
<1> QED
  BY <1>2, <1>3

LEMMA SaveFits ==
    ASSUME NEW w \in Nat, NEW d \in Nat, NEW e \in Nat, NEW f \in Nat
    PROVE  /\ FitOne(w, d, e) => FitNone(w, e)
           /\ FitTwo(w, e, f) => FitOne(w, e, f) /\ FitOne(w, e, Less(e))
<1>1. /\ Up(e) \in Nat /\ Up(f) \in Nat /\ Up(d) \in Nat /\ Up(0) = 0 /\ Bound \in Nat
      /\ e > 0 => Up(e - 1) = Up(e) - 2 * e
  BY UpFacts, BoundFact
<1>2. FitOne(w, d, e) => FitNone(w, e)
  BY <1>1 DEF FitOne, FitNone
<1>3. FitTwo(w, e, f) => FitOne(w, e, f)
  BY <1>1 DEF FitOne, FitTwo
<1>4. FitTwo(w, e, f) => FitOne(w, e, Less(e))
  BY <1>1 DEF FitOne, FitTwo, Less
<1> QED
  BY <1>2, <1>3, <1>4

LEMMA LeftFacts ==
    ASSUME NEW row \in PinRow
    PROVE  /\ Left(row) \in 0..MaxGuesses /\ Left(row) \in Nat
           /\ Left(row) = 0 <=> Spent(row)
           /\ row.attempts = 0 => Left(row) = MaxGuesses
  BY ServicePinsAssumption DEF PinRow, Left, Spent

LEMMA WorthFacts ==
    ASSUME PinsTypeOK, HandsInv, NEW g \in Guessers, InHand(g)
    PROVE  Worth(g) \in 0..MaxGuesses - 1 /\ Worth(g) \in Nat
<1>1. MaxGuesses \in Nat \ {0}
  BY ServicePinsAssumption
<1>2. CASE guess[g].step = "count"
  <2>1. guess[g].row \in PinRow
    BY <1>2 DEF PinsTypeOK, Guess, NoGuess
  <2>2. Left(guess[g].row) \in 0..MaxGuesses /\ Left(guess[g].row) < MaxGuesses
    BY <1>2, <2>1, LeftFacts DEF HandsInv
  <2> QED
    BY <1>1, <1>2, <2>2 DEF Worth
<1>3. CASE guess[g].step # "count"
  <2>1. Left(pinRow) \in 0..MaxGuesses
    BY LeftFacts DEF PinsTypeOK
  <2> QED
    BY <1>1, <1>3, <2>1 DEF Worth, Less
<1> QED
  BY <1>2, <1>3

WorthBounded == PinsTypeOK /\ HandsInv =>
    \A g \in Guessers : InHand(g) => Worth(g) \in 0..MaxGuesses - 1

LEMMA WorthBoundedTrue == WorthBounded
  BY WorthFacts DEF WorthBounded

LEMMA AtMostTwo ==
    ASSUME Cardinality(Guessers) <= 2, NEW g \in Guessers, NEW h \in Guessers, g # h
    PROVE  \A k \in Guessers : k \in {g, h}
<1> SUFFICES ASSUME NEW k \in Guessers, k \notin {g, h} PROVE FALSE
  OBVIOUS
<1>1. IsFiniteSet({g}) /\ Cardinality({g}) = 1
  BY FS_Singleton
<1>2. {g} \cup {h} = {g, h} /\ {g, h} \cup {k} = {g, h, k}
  OBVIOUS
<1>3. IsFiniteSet({g, h}) /\ Cardinality({g, h}) = 2
  <2>1. h \notin {g} /\ Cardinality({g} \cup {h}) = Cardinality({g}) + 1 /\ IsFiniteSet({g} \cup {h})
    BY <1>1, FS_AddElement
  <2> QED
    BY <1>1, <1>2, <2>1
<1>4. IsFiniteSet({g, h, k}) /\ Cardinality({g, h, k}) = 3
  BY <1>2, <1>3, FS_AddElement
<1>5. IsFiniteSet(Guessers) /\ {g, h, k} \subseteq Guessers
  BY ServicePinsAssumption
<1>6. Cardinality({g, h, k}) <= Cardinality(Guessers)
  BY <1>5, FS_Subset
<1>7. Cardinality(Guessers) \in Nat
  BY <1>5, FS_CardinalityType
<1> QED
  BY <1>4, <1>6, <1>7

(* The three forms as one guesser g sees them: alone, or with another, h.  *)
Alone(g) == \A h \in Guessers \ {g} : ~InHand(h)
ViewAlone == \A g \in Guessers : Alone(g) =>
    (Fits <=> IF InHand(g) THEN FitOne(wrong, Left(pinRow), Worth(g)) ELSE FitNone(wrong, Left(pinRow)))
ViewPair == \A g, h \in Guessers : g # h /\ InHand(h) =>
    (Fits <=> IF InHand(g) THEN FitTwo(wrong, Worth(g), Worth(h))
                           ELSE FitOne(wrong, Left(pinRow), Worth(h)))
FitsView == PinsTypeOK /\ HandsInv /\ Cardinality(Guessers) <= 2 => ViewAlone /\ ViewPair

LEMMA FitsViewTrue == FitsView
<1> SUFFICES ASSUME PinsTypeOK, HandsInv, Cardinality(Guessers) <= 2
             PROVE  ViewAlone /\ ViewPair
  BY DEF FitsView
<1>1. ViewAlone
  <2> SUFFICES ASSUME NEW g \in Guessers, Alone(g)
               PROVE  Fits <=> IF InHand(g) THEN FitOne(wrong, Left(pinRow), Worth(g))
                                            ELSE FitNone(wrong, Left(pinRow))
    BY DEF ViewAlone
  <2> QED
    BY DEF Alone, Fits, NoneHeld, OneHeld, TwoHeld
<1>2. ViewPair
  <2> SUFFICES ASSUME NEW g \in Guessers, NEW h \in Guessers, g # h, InHand(h)
               PROVE  Fits <=> IF InHand(g) THEN FitTwo(wrong, Worth(g), Worth(h))
                                            ELSE FitOne(wrong, Left(pinRow), Worth(h))
    BY DEF ViewPair
  <2>1. \A k \in Guessers : k \in {g, h}
    BY AtMostTwo
  <2>2. CASE InHand(g)
    <3>1. Worth(g) \in Nat /\ Worth(h) \in Nat /\ wrong \in Nat
      BY <2>2, WorthFacts DEF PinsTypeOK
    <3>2. FitTwo(wrong, Worth(g), Worth(h)) <=> FitTwo(wrong, Worth(h), Worth(g))
      BY <3>1 DEF FitTwo
    <3> QED
      BY <2>1, <2>2, <3>2 DEF Fits, NoneHeld, OneHeld, TwoHeld
  <2>3. CASE ~InHand(g)
    BY <2>1, <2>3 DEF Fits, NoneHeld, OneHeld, TwoHeld
  <2> QED
    BY <2>2, <2>3
<1> QED
  BY <1>1, <1>2

LEMMA CountedFacts ==
    ASSUME NEW row \in PinRow, minute \in 0..LastMinute, RowLocked(row)
    PROVE  /\ Counted(row) \in PinRow /\ RowLocked(Counted(row))
           /\ Left(Counted(row)) = Less(Left(row)) /\ Left(Counted(row)) < MaxGuesses
<1> DEFINE n == row.attempts + 1
           until == IF n >= MaxGuesses THEN minute + LockMinutes ELSE row.locked_until
           mid == [row EXCEPT !.attempts = n]
           new == Counted(row)
<1>1. /\ MaxGuesses \in Nat \ {0} /\ LockMinutes \in Nat \ {0} /\ PinMinutes \in Nat \ {0}
      /\ LastMinute \in Nat /\ row.attempts \in Nat
  BY ServicePinsAssumption DEF PinRow
<1>2. minute + LockMinutes \in Moments /\ Never \notin Moments
  BY <1>1 DEF Moments, Never
<1>3. until \in {Never} \cup Moments /\ n \in Nat
  BY <1>1, <1>2 DEF PinRow
<1>4. new = [mid EXCEPT !.locked_until = until]
  BY DEF Counted
<1> HIDE DEF until, n
<1>5. mid \in PinRow /\ mid.attempts = n
  BY <1>3 DEF PinRow
<1> HIDE DEF mid, new
<1>6. new \in PinRow /\ new.attempts = n /\ new.locked_until = until
  BY <1>3, <1>4, <1>5 DEF PinRow
<1>7. RowLocked(new)
  <2>1. CASE n >= MaxGuesses
    BY <1>2, <1>6, <2>1 DEF RowLocked, Spent, until
  <2>2. CASE ~(n >= MaxGuesses)
    <3>1. row.locked_until = Never
      BY <1>1, <2>2 DEF RowLocked, Spent, n
    <3> QED
      BY <1>6, <2>2, <3>1 DEF RowLocked, Spent, until
  <2> QED
    BY <2>1, <2>2
<1>8. Left(new) = Less(Left(row)) /\ Left(new) < MaxGuesses
  BY <1>1, <1>6 DEF Left, Spent, Less, n
<1> QED
  BY <1>6, <1>7, <1>8 DEF new

(* Lifting a lock that is over, or minting a PIN: a row with all guesses.  *)
LEMMA ClearedFacts ==
    ASSUME NEW row \in PinRow, row.attempts = 0, row.locked_until = Never
    PROVE  RowLocked(row) /\ Left(row) = MaxGuesses
  BY ServicePinsAssumption, LeftFacts DEF RowLocked, Spent

PinsShape == PinsTypeOK /\ RowLocked(pinRow) /\ HandsInv

(* One guesser moves: the others keep what they have in hand.              *)
LEMMA GuesserMoves ==
    ASSUME PinsTypeOK, HandsInv, NEW g \in Guessers, NEW next \in Guess, Step(g, next),
           next.step = "count" => RowLocked(next.row) /\ Left(next.row) < MaxGuesses,
           next.step = "unlock" => next.row.attempts = 0 /\ next.row.locked_until = Never
    PROVE  /\ guess' \in [Guessers -> Guess] /\ guess'[g] = next /\ HandsInv'
           /\ \A h \in Guessers \ {g} :
                 /\ guess'[h] = guess[h] /\ (InHand(h)' <=> InHand(h))
                 /\ Worth(h)' = IF guess[h].step = "count" THEN Worth(h) ELSE Less(Left(pinRow'))
           /\ Alone(g)' <=> Alone(g)
<1>1. guess' \in [Guessers -> Guess] /\ guess'[g] = next
  BY DEF PinsTypeOK, Step
<1>2. \A h \in Guessers \ {g} : guess'[h] = guess[h]
  BY DEF PinsTypeOK, Step
<1>3. HandsInv'
  BY <1>1, <1>2 DEF HandsInv, RowLocked, Spent, Left
<1>4. ASSUME NEW h \in Guessers \ {g}
      PROVE  /\ InHand(h)' <=> InHand(h)
             /\ Worth(h)' = IF guess[h].step = "count" THEN Worth(h) ELSE Less(Left(pinRow'))
  <2>1. guess'[h] = guess[h]
    BY <1>2
  <2> QED
    BY <2>1 DEF InHand, Worth, Left, Spent
<1>5. Alone(g)' <=> Alone(g)
  BY <1>4 DEF Alone
<1> QED
  BY <1>1, <1>2, <1>3, <1>4, <1>5

LEMMA GuessTypes ==
    /\ NoGuess \in Guess /\ [step |-> "missed"] \in Guess
    /\ \A row \in PinRow : \A s \in {"unlock", "count"} : [step |-> s, row |-> row] \in Guess
  BY DEF Guess

LEMMA RequestPinKeeps ==
    ASSUME PinsInv, RequestPin
    PROVE  PinsInv'
<1>1. PinsTypeOK /\ HandsInv /\ RowLocked(pinRow)
  BY DEF PinsInv
<1>2. /\ pinRow' = Minted /\ sentAt' = minute /\ wrong' = (IF Valid THEN wrong ELSE 0)
      /\ Minted.pin <= LastPin /\ UNCHANGED <<guess, minute>>
  BY DEF RequestPin
<1>3. HandsInv'
  BY <1>1, <1>2 DEF HandsInv, RowLocked, Spent, Left
<1>4. CASE Valid
  <2>1. pinRow' = pinRow /\ wrong' = wrong
    BY <1>2, <1>4 DEF Minted
  <2>2. PinsTypeOK'
    BY <1>1, <1>2, <2>1 DEF PinsTypeOK
  <2>3. Fits => Fits'
    BY <1>2, <2>1 DEF Fits, NoneHeld, OneHeld, TwoHeld, InHand, Worth, Left, Spent
  <2> QED
    BY <1>1, <1>3, <2>1, <2>2, <2>3 DEF PinsInv, RowLocked, Spent
<1>5. CASE ~Valid
  <2> DEFINE new == [pin |-> pinRow.pin + 1, expiry |-> minute + PinMinutes, attempts |-> 0,
                     locked_until |-> Never]
  <2>1. pinRow' = new /\ wrong' = 0 /\ new.pin <= LastPin
    BY <1>2, <1>5 DEF Minted
  <2>2. new \in PinRow /\ new.attempts = 0 /\ new.locked_until = Never
    <3>1. new.pin \in 0..LastPin
      BY <1>1, <2>1, ServicePinsAssumption DEF PinsTypeOK, PinRow
    <3>2. minute + PinMinutes \in Moments
      BY <1>1, ServicePinsAssumption DEF PinsTypeOK, Moments
    <3> QED
      BY <3>1, <3>2 DEF PinRow
  <2> HIDE DEF new
  <2>3. RowLocked(new) /\ Left(new) = MaxGuesses
    BY <2>2, ClearedFacts
  <2>4. PinsTypeOK'
    BY <1>1, <1>2, <2>1, <2>2 DEF PinsTypeOK
  <2>5. RowLocked(pinRow)' /\ Left(pinRow)' = MaxGuesses
    BY <2>1, <2>3 DEF RowLocked, Spent, Left
  <2>6. Fits'
    <3>1. ASSUME NEW g \in Guessers, InHand(g)' PROVE Worth(g)' \in 0..MaxGuesses - 1
      <4>1. WorthBounded'
        BY WorthBoundedTrue, PTL
      <4> QED
        BY <1>3, <2>4, <3>1, <4>1 DEF WorthBounded
    <3> QED
      BY <2>1, <2>5, <3>1, FreshFits DEF Fits, NoneHeld, OneHeld, TwoHeld
  <2> QED
    BY <1>3, <2>4, <2>5, <2>6 DEF PinsInv
<1> QED
  BY <1>4, <1>5

(* What holds after a step of g, once the shape of the state does.         *)
LEMMA FitsAfter ==
    ASSUME PinsShape', Cardinality(Guessers) <= 2, NEW g \in Guessers,
           Alone(g)' => IF InHand(g)' THEN FitOne(wrong', Left(pinRow)', Worth(g)')
                                      ELSE FitNone(wrong', Left(pinRow)'),
           \A h \in Guessers \ {g} : InHand(h)' =>
               IF InHand(g)' THEN FitTwo(wrong', Worth(g)', Worth(h)')
                             ELSE FitOne(wrong', Left(pinRow)', Worth(h)')
    PROVE  Fits'
<1>1. FitsView'
  BY FitsViewTrue, PTL
<1>2. ViewAlone' /\ ViewPair'
  BY <1>1 DEF FitsView, PinsShape
<1>3. CASE Alone(g)'
  <2>1. Fits' <=> IF InHand(g)' THEN FitOne(wrong', Left(pinRow)', Worth(g)')
                                ELSE FitNone(wrong', Left(pinRow)')
    BY <1>2, <1>3 DEF ViewAlone, FitOne, FitNone
  <2> QED
    BY <1>3, <2>1
<1>4. CASE ~Alone(g)'
  <2>1. PICK h \in Guessers \ {g} : InHand(h)'
    BY <1>4 DEF Alone
  <2>2. Fits' <=> IF InHand(g)' THEN FitTwo(wrong', Worth(g)', Worth(h)')
                                ELSE FitOne(wrong', Left(pinRow)', Worth(h)')
    BY <1>2, <2>1 DEF ViewPair, FitOne, FitTwo
  <2> QED
    BY <2>1, <2>2
<1> QED
  BY <1>3, <1>4

LEMMA FitsBefore ==
    ASSUME PinsShape, Fits, Cardinality(Guessers) <= 2, NEW g \in Guessers
    PROVE  /\ Alone(g) => IF InHand(g) THEN FitOne(wrong, Left(pinRow), Worth(g))
                                       ELSE FitNone(wrong, Left(pinRow))
           /\ \A h \in Guessers \ {g} : InHand(h) =>
               IF InHand(g) THEN FitTwo(wrong, Worth(g), Worth(h))
                            ELSE FitOne(wrong, Left(pinRow), Worth(h))
  BY FitsViewTrue DEF FitsView, ViewAlone, ViewPair, PinsShape

LEMMA CheckLockKeeps ==
    ASSUME PinsInv, NEW g \in Guessers, CheckLock(g)
    PROVE  PinsInv'
<1>1. PinsShape /\ PinsTypeOK /\ HandsInv
  BY DEF PinsInv, PinsShape
<1>2. guess[g] = NoGuess /\ ~Locked /\ UNCHANGED <<pinRow, minute, sentAt>>
  BY DEF CheckLock
<1>3. ~InHand(g)
  BY <1>2 DEF InHand, NoGuess
<1>4. pinRow \in PinRow /\ wrong \in Nat /\ Left(pinRow) \in Nat
  BY <1>1, LeftFacts DEF PinsTypeOK
<1>5. \A h \in Guessers : InHand(h) => Worth(h) \in Nat
  BY <1>1, WorthFacts
<1>6. Left(pinRow)' = Left(pinRow)
  BY <1>2 DEF Left, Spent
<1>7. CASE LockOver
  <2> DEFINE old == [pinRow EXCEPT !.locked_until = Never, !.attempts = 0]
             next == [step |-> "unlock", row |-> old]
  <2>1. Step(g, next) /\ wrong' = wrong
    BY <1>7 DEF CheckLock
  <2>2. old \in PinRow /\ old.attempts = 0 /\ old.locked_until = Never
    BY <1>4 DEF PinRow
  <2> HIDE DEF old
  <2>3. next \in Guess /\ next.step = "unlock" /\ next.row = old
    BY <2>2, GuessTypes
  <2> HIDE DEF next
  <2>4. /\ guess' \in [Guessers -> Guess] /\ guess'[g] = next /\ HandsInv'
        /\ \A h \in Guessers \ {g} : guess'[h] = guess[h]
    BY <1>1, <2>1, <2>2, <2>3, GuesserMoves
  <2>5. \A h \in Guessers : (InHand(h)' <=> InHand(h)) /\ (InHand(h) => Worth(h)' = Worth(h))
    BY <1>2, <1>3, <2>3, <2>4 DEF InHand, Worth, Left, Spent
  <2>6. Fits => Fits'
    BY <1>6, <2>1, <2>5 DEF Fits, NoneHeld, OneHeld, TwoHeld
  <2> QED
    BY <1>1, <1>2, <2>1, <2>4, <2>6 DEF PinsInv, PinsTypeOK, RowLocked, Spent
<1>8. CASE ~LockOver
  <2> DEFINE next == [step |-> "missed"]
             d == Left(pinRow)
  <2>1. Step(g, next) /\ wrong' = wrong + 1 /\ next \in Guess
    BY <1>8, GuessTypes DEF CheckLock
  <2>2. /\ guess' \in [Guessers -> Guess] /\ guess'[g] = next /\ HandsInv'
        /\ \A h \in Guessers \ {g} :
              /\ guess'[h] = guess[h] /\ (InHand(h)' <=> InHand(h))
              /\ Worth(h)' = IF guess[h].step = "count" THEN Worth(h) ELSE Less(Left(pinRow'))
        /\ Alone(g)' <=> Alone(g)
    BY <1>1, <2>1, GuesserMoves
  <2>3. pinRow.locked_until = Never
    <3>1. pinRow.locked_until # Never => pinRow.locked_until \in Int
      BY <1>4, ServicePinsAssumption DEF PinRow, Moments
    <3>2. minute \in Int
      BY <1>1 DEF PinsTypeOK
    <3> QED
      BY <1>2, <1>8, <3>1, <3>2 DEF Locked, LockOver
  <2>4. d \in Nat \ {0}
    BY <1>1, <1>4, <2>3, LeftFacts DEF PinsShape, RowLocked
  <2>5. InHand(g)' /\ Worth(g)' = d - 1
    BY <1>6, <2>2, <2>4 DEF InHand, Worth, Less
  <2>6. \A h \in Guessers \ {g} : InHand(h) => Worth(h)' = Worth(h)
    BY <1>2, <2>2 DEF Worth, InHand
  <2>7. PinsShape'
    BY <1>1, <1>2, <1>4, <2>1, <2>2 DEF PinsShape, PinsTypeOK, RowLocked, Spent
  <2>8. ASSUME Fits, Cardinality(Guessers) <= 2 PROVE Fits'
    <3>1. Alone(g) => FitNone(wrong, d)
      BY <1>1, <1>3, <2>8, FitsBefore
    <3>2. \A h \in Guessers \ {g} : InHand(h) => FitOne(wrong, d, Worth(h))
      BY <1>1, <1>3, <2>8, FitsBefore
    <3> HIDE DEF d
    <3>3. Alone(g) => FitOne(wrong', d, d - 1)
      BY <1>4, <2>1, <2>4, <3>1, GuessFits
    <3>4. \A h \in Guessers \ {g} : InHand(h) => FitTwo(wrong', d - 1, Worth(h))
      BY <1>4, <1>5, <2>1, <2>4, <3>2, GuessFits
    <3> USE DEF d
    <3>5. \A h \in Guessers \ {g} : InHand(h)' => FitTwo(wrong', Worth(g)', Worth(h)')
      BY <2>2, <2>5, <2>6, <3>4
    <3>6. Alone(g)' => FitOne(wrong', Left(pinRow)', Worth(g)')
      BY <1>6, <2>2, <2>5, <3>3
    <3> QED
      BY <2>5, <2>7, <2>8, <3>5, <3>6, FitsAfter
  <2> QED
    BY <2>7, <2>8 DEF PinsInv, PinsShape
<1> QED
  BY <1>7, <1>8

LEMMA UnlockKeeps ==
    ASSUME PinsInv, NEW g \in Guessers, Unlock(g)
    PROVE  PinsInv'
<1> DEFINE next == [step |-> "missed"]
<1>1. PinsShape /\ PinsTypeOK /\ HandsInv
  BY DEF PinsInv, PinsShape
<1>2. /\ guess[g].step = "unlock" /\ pinRow' = guess[g].row /\ wrong' = 1
      /\ Step(g, next) /\ UNCHANGED <<minute, sentAt>> /\ next \in Guess
  BY GuessTypes DEF Unlock
<1>3. pinRow' \in PinRow /\ pinRow'.attempts = 0 /\ pinRow'.locked_until = Never
  BY <1>1, <1>2 DEF PinsTypeOK, HandsInv, Guess, NoGuess
<1>4. RowLocked(pinRow)' /\ Left(pinRow)' = MaxGuesses
  <2>1. RowLocked(pinRow') /\ Left(pinRow') = MaxGuesses
    BY <1>3, ClearedFacts
  <2> QED
    BY <2>1 DEF RowLocked, Left, Spent
<1>5. /\ guess' \in [Guessers -> Guess] /\ guess'[g] = next /\ HandsInv'
      /\ Alone(g)' <=> Alone(g)
  BY <1>1, <1>2, GuesserMoves
<1>6. PinsShape'
  BY <1>1, <1>2, <1>3, <1>4, <1>5 DEF PinsShape, PinsTypeOK
<1>7. InHand(g)' /\ Worth(g)' = MaxGuesses - 1
  BY <1>4, <1>5, ServicePinsAssumption DEF InHand, Worth, Less
<1>8. \A h \in Guessers : InHand(h)' => Worth(h)' \in 0..MaxGuesses - 1
  <2>1. WorthBounded'
    BY WorthBoundedTrue, PTL
  <2> QED
    BY <1>6, <2>1 DEF PinsShape, WorthBounded
<1>9. ASSUME Cardinality(Guessers) <= 2 PROVE Fits'
  <2>1. FitOne(wrong', Left(pinRow)', Worth(g)')
    BY <1>2, <1>4, <1>7, FreshFits
  <2>2. \A h \in Guessers \ {g} : InHand(h)' => FitTwo(wrong', Worth(g)', Worth(h)')
    BY <1>2, <1>7, <1>8, FreshFits
  <2> QED
    BY <1>6, <1>7, <1>9, <2>1, <2>2, FitsAfter
<1> QED
  BY <1>6, <1>9 DEF PinsInv, PinsShape

LEMMA CountMissKeeps ==
    ASSUME PinsInv, NEW g \in Guessers, CountMiss(g)
    PROVE  PinsInv'
<1> DEFINE next == [step |-> "count", row |-> Counted(pinRow)]
<1>1. PinsShape /\ PinsTypeOK /\ HandsInv
  BY DEF PinsInv, PinsShape
<1>2. guess[g].step = "missed" /\ Step(g, next) /\ UNCHANGED <<pinRow, minute, sentAt, wrong>>
  BY DEF CountMiss
<1>3. /\ Counted(pinRow) \in PinRow /\ RowLocked(Counted(pinRow))
      /\ Left(Counted(pinRow)) = Less(Left(pinRow)) /\ Left(Counted(pinRow)) < MaxGuesses
  BY <1>1, CountedFacts DEF PinsShape, PinsTypeOK
<1>4. next \in Guess /\ next.step = "count" /\ next.row = Counted(pinRow)
  BY <1>3, GuessTypes
<1> HIDE DEF next
<1>5. /\ guess' \in [Guessers -> Guess] /\ guess'[g] = next /\ HandsInv'
      /\ \A h \in Guessers \ {g} : guess'[h] = guess[h]
  BY <1>1, <1>2, <1>3, <1>4, GuesserMoves
<1>6. InHand(g) /\ InHand(g)' /\ Worth(g)' = Worth(g)
  <2>1. Worth(g)' = Left(Counted(pinRow))
    BY <1>4, <1>5 DEF Worth, Left, Spent
  <2> QED
    BY <1>2, <1>3, <1>4, <1>5, <2>1 DEF InHand, Worth
<1>7. \A h \in Guessers \ {g} : (InHand(h)' <=> InHand(h)) /\ Worth(h)' = Worth(h)
  BY <1>2, <1>5 DEF InHand, Worth, Left, Spent
<1>8. Fits => Fits'
  <2>1. Left(pinRow)' = Left(pinRow) /\ wrong' = wrong
    BY <1>2 DEF Left, Spent
  <2>2. \A h \in Guessers : (InHand(h)' <=> InHand(h)) /\ Worth(h)' = Worth(h)
    BY <1>6, <1>7
  <2> QED
    BY <2>1, <2>2 DEF Fits, NoneHeld, OneHeld, TwoHeld
<1> QED
  BY <1>1, <1>2, <1>5, <1>8 DEF PinsInv, PinsTypeOK, RowLocked, Spent

LEMMA SaveMissKeeps ==
    ASSUME PinsInv, NEW g \in Guessers, SaveMiss(g)
    PROVE  PinsInv'
<1> DEFINE e == Worth(g)
<1>1. PinsShape /\ PinsTypeOK /\ HandsInv
  BY DEF PinsInv, PinsShape
<1>2. /\ guess[g].step = "count" /\ pinRow' = guess[g].row /\ Step(g, NoGuess)
      /\ UNCHANGED <<minute, sentAt, wrong>> /\ NoGuess \in Guess /\ NoGuess.step = "none"
  BY GuessTypes DEF SaveMiss, NoGuess
<1>3. pinRow' \in PinRow /\ RowLocked(pinRow') /\ Left(pinRow') = e
  BY <1>1, <1>2 DEF PinsTypeOK, HandsInv, Guess, NoGuess, Worth
<1>4. RowLocked(pinRow)' /\ Left(pinRow)' = e
  BY <1>3 DEF RowLocked, Left, Spent
<1>5. /\ guess' \in [Guessers -> Guess] /\ guess'[g] = NoGuess /\ HandsInv'
      /\ \A h \in Guessers \ {g} :
            /\ guess'[h] = guess[h] /\ (InHand(h)' <=> InHand(h))
            /\ Worth(h)' = IF guess[h].step = "count" THEN Worth(h) ELSE Less(Left(pinRow'))
      /\ Alone(g)' <=> Alone(g)
  BY <1>1, <1>2, GuesserMoves
<1>6. PinsShape'
  BY <1>1, <1>2, <1>3, <1>4, <1>5 DEF PinsShape, PinsTypeOK
<1>7. InHand(g) /\ ~InHand(g)'
  BY <1>2, <1>5 DEF InHand
<1>8. /\ wrong \in Nat /\ Left(pinRow) \in Nat /\ e \in Nat
      /\ \A h \in Guessers : InHand(h) => Worth(h) \in Nat
  BY <1>1, <1>7, WorthFacts, LeftFacts DEF PinsTypeOK
<1>9. ASSUME Fits, Cardinality(Guessers) <= 2 PROVE Fits'
  <2>1. Alone(g) => FitOne(wrong, Left(pinRow), e)
    BY <1>1, <1>7, <1>9, FitsBefore
  <2>2. \A h \in Guessers \ {g} : InHand(h) => FitTwo(wrong, e, Worth(h))
    BY <1>1, <1>7, <1>9, FitsBefore
  <2> HIDE DEF e
  <2>3. Alone(g) => FitNone(wrong, e)
    BY <1>8, <2>1, SaveFits
  <2>4. ASSUME NEW h \in Guessers \ {g}, InHand(h)' PROVE FitOne(wrong, e, Worth(h)')
    <3>1. InHand(h) /\ Worth(h) \in Nat /\ FitTwo(wrong, e, Worth(h))
      BY <1>5, <1>8, <2>2, <2>4
    <3>2. FitOne(wrong, e, Worth(h)) /\ FitOne(wrong, e, Less(e))
      BY <1>8, <3>1, SaveFits
    <3> QED
      BY <1>3, <1>5, <3>2
  <2>5. wrong' = wrong
    BY <1>2
  <2> QED
    BY <1>4, <1>5, <1>6, <1>7, <1>9, <2>3, <2>4, <2>5, FitsAfter
<1> QED
  BY <1>6, <1>9 DEF PinsInv, PinsShape

LEMMA PassMinuteKeeps ==
    ASSUME PinsInv, PassMinute
    PROVE  PinsInv'
<1>1. PinsTypeOK'
  BY ServicePinsAssumption DEF PinsInv, PinsTypeOK, PassMinute
<1>2. UNCHANGED <<pinRow, guess, wrong>>
  BY DEF PassMinute
<1>3. HandsInv' /\ RowLocked(pinRow)'
  BY <1>2 DEF PinsInv, HandsInv, RowLocked, Spent, Left
<1>4. Fits => Fits'
  BY <1>2 DEF Fits, NoneHeld, OneHeld, TwoHeld, InHand, Worth, Left, Spent
<1> QED
  BY <1>1, <1>3, <1>4 DEF PinsInv

LEMMA InitPins == PinsInit => PinsInv
<1> SUFFICES ASSUME PinsInit PROVE PinsInv
  OBVIOUS
<1>1. /\ MaxGuesses \in Nat \ {0} /\ LockMinutes \in Nat /\ PinMinutes \in Nat
      /\ LastPin \in Nat /\ LastMinute \in Nat
  BY ServicePinsAssumption
<1>2. /\ pinRow \in PinRow /\ pinRow.attempts = 0 /\ pinRow.locked_until = Never
  BY <1>1 DEF PinsInit, PinRow, Moments
<1>3. RowLocked(pinRow) /\ Left(pinRow) = MaxGuesses
  BY <1>2, ClearedFacts
<1>4. PinsTypeOK
  BY <1>1, <1>2, GuessTypes DEF PinsInit, PinsTypeOK
<1>5. \A g \in Guessers : guess[g].step = "none"
  BY DEF PinsInit, NoGuess
<1>6. Fits
  BY <1>3, <1>5, FreshFits DEF Fits, NoneHeld, OneHeld, TwoHeld, InHand, PinsInit
<1> QED
  BY <1>3, <1>4, <1>5, <1>6 DEF PinsInv, HandsInv

LEMMA PinsInvStep == PinsInv /\ PinsNext => PinsInv'
  BY RequestPinKeeps, PassMinuteKeeps, CheckLockKeeps, UnlockKeeps, CountMissKeeps, SaveMissKeeps
     DEF PinsNext

-----------------------------------------------------------------------------
LEMMA AccountsStutter == AccountsInv /\ UNCHANGED accountVars => AccountsInv'
<1> SUFFICES ASSUME AccountsInv, UNCHANGED accountVars PROVE AccountsInv'
  OBVIOUS
<1>1. /\ account' \in [Users -> Row] /\ req' \in [Requests -> Request] /\ now' \in Nat
  BY DEF AccountsInv, AccountsTypeOK, accountVars
<1> QED
  BY <1>1, ColumnStep DEF accountVars

LEMMA CountsStutter == AccountsInv /\ CountsInv /\ UNCHANGED accountVars => CountsInv'
<1> SUFFICES ASSUME AccountsInv, CountsInv, UNCHANGED accountVars PROVE CountsInv'
  OBVIOUS
<1>1. now \in Nat /\ req \in [Requests -> Request]
  BY DEF AccountsInv, AccountsTypeOK
<1> QED
  BY <1>1, CountsQuiet DEF accountVars

LEMMA PinsStutter == PinsInv /\ UNCHANGED pinVars => PinsInv'
<1> SUFFICES ASSUME PinsInv, UNCHANGED pinVars PROVE PinsInv'
  OBVIOUS
<1>1. PinsTypeOK' /\ HandsInv' /\ RowLocked(pinRow)'
  BY DEF PinsInv, PinsTypeOK, HandsInv, RowLocked, Spent, Left, pinVars
<1>2. Fits => Fits'
  BY DEF Fits, NoneHeld, OneHeld, TwoHeld, InHand, Worth, Left, Spent, pinVars
<1> QED
  BY <1>1, <1>2 DEF PinsInv

(* CredentialsInv, the rows in flight included, is an inductive invariant  *)
(* for any accounts, contacts, handlers and limits.                        *)
THEOREM CredentialsInvariance == CredentialsSpec => []CredentialsInv
<1>1. CredentialsInit => CredentialsInv
  BY InitAccounts, InitCounts, InitPins DEF CredentialsInit, CredentialsInv
<1>2. CredentialsInv /\ [CredentialsNext]_credentialVars => CredentialsInv'
  BY AccountsInvStep, CountsStep, PinsInvStep, AccountsStutter, CountsStutter, PinsStutter
     DEF CredentialsNext, credentialVars, CredentialsInv
<1> QED
  BY <1>1, <1>2, PTL DEF CredentialsSpec

(* Accounts, codes and PINs keep their types, and no two accounts share a  *)
(* contact, whichever sign-ups, contact changes and whole-row saves cross: *)
(* a save repeats the contact its row was loaded with, which the unique    *)
(* column still protects when the account has got another in the meantime. *)
THEOREM CredentialsAreSound == CredentialsSpec => []CredentialsSound
<1>1. CredentialsInv => CredentialsSound
  BY DEF CredentialsInv, AccountsInv, PinsInv, CredentialsSound
<1> QED
  BY <1>1, CredentialsInvariance, PTL

(* ContactChangeView: an account has a contact it signed up with or whose  *)
(* own code it entered.  A stale save can bring an old contact back, but   *)
(* only one that was proven.                                               *)
THEOREM ContactsAreProven == CredentialsSpec => []ContactProven
<1>1. CredentialsInv => ContactProven
  BY DEF CredentialsInv, AccountsInv
<1> QED
  BY <1>1, CredentialsInvariance, PTL

LEMMA PinsAreBounded == PinsInv => PinGuessesBounded
<1> SUFFICES ASSUME PinsInv, Cardinality(Guessers) <= 2
             PROVE  2 * wrong <= MaxGuesses * (MaxGuesses + 3)
  BY DEF PinGuessesBounded
<1>1. PinsTypeOK /\ HandsInv /\ Fits
  BY DEF PinsInv
<1>2. wrong \in Nat /\ Left(pinRow) \in Nat /\ Bound \in Nat
  BY <1>1, LeftFacts, BoundFact DEF PinsTypeOK
<1>3. Up(Left(pinRow)) \in Nat
  BY <1>2, UpFacts
<1>4. CASE \A g \in Guessers : ~InHand(g)
  <2>1. FitNone(wrong, Left(pinRow))
    BY <1>1, <1>4 DEF Fits, NoneHeld
  <2> QED
    BY <1>2, <1>3, <2>1 DEF FitNone, Bound
<1>5. CASE \E g \in Guessers : InHand(g)
  <2>1. PICK g \in Guessers : InHand(g)
    BY <1>5
  <2>2. Worth(g) \in Nat
    BY <1>1, <2>1, WorthFacts
  <2>3. CASE Alone(g)
    <3>1. FitOne(wrong, Left(pinRow), Worth(g))
      BY <1>1, <2>1, <2>3 DEF Fits, OneHeld, Alone
    <3> QED
      BY <1>2, <1>3, <2>2, <3>1 DEF FitOne, Bound
  <2>4. CASE ~Alone(g)
    <3>1. PICK h \in Guessers \ {g} : InHand(h)
      BY <2>4 DEF Alone
    <3>2. FitTwo(wrong, Worth(g), Worth(h)) /\ Worth(h) \in Nat
      BY <1>1, <2>1, <3>1, WorthFacts DEF Fits, TwoHeld
    <3>3. Up(Worth(g)) \in Nat
      BY <2>2, UpFacts
    <3> QED
      BY <1>2, <2>2, <3>2, <3>3 DEF FitTwo, Bound
  <2> QED
    BY <2>3, <2>4
<1> QED
  BY <1>4, <1>5

(* increment_otp_attempts, verify_extract and                              *)
(* record_completion_pin_failure.  The wrong login and contact codes since *)
(* a count was last cleared pass the limit only by saves that put an older *)
(* count back over a newer one, and each of those is worth one more limit. *)
(* Two requests that guess a PIN at once get at most M(M+3)/2 wrong ones,  *)
(* M being its limit, until a lockout has run out.                         *)
THEOREM GuessingIsBounded == CredentialsSpec => []AttemptsBounded
<1>1. AccountsInv /\ CountsInv => GuessesBounded
  <2> SUFFICES ASSUME AccountsInv, CountsInv, NEW u \in Users
               PROVE  /\ account[u].otp_attempts >= MaxAttempts => account[u].lockout_until > 0
                      /\ account[u].contact_otp_attempts < MaxAttempts
                      /\ \A kind \in Kinds : guessed[u][kind] <= MaxAttempts * (1 + uncounted[u][kind])
    BY DEF GuessesBounded
  <2>1. /\ account[u] \in Row /\ Sane(account[u]) /\ TallyInv(u)
        /\ guessed[u] \in [Kinds -> Nat] /\ uncounted[u] \in [Kinds -> Nat]
    BY DEF AccountsInv, AccountsTypeOK, CountsInv
  <2>2. /\ account[u].otp_attempts \in Nat /\ account[u].otp_attempts <= MaxAttempts
        /\ MaxAttempts \in Nat /\ guessed[u].login \in Nat /\ uncounted[u].login \in Nat
    BY <2>1, AccountsAssumption DEF Row, Sane, Kinds
  <2> DEFINE pl == MaxAttempts * uncounted[u].login
  <2>3. pl \in Nat /\ MaxAttempts * (1 + uncounted[u].login) = MaxAttempts + pl
    BY <2>2, LimitTimes
  <2>4. guessed[u].login <= account[u].otp_attempts + pl
    BY <2>1 DEF TallyInv
  <2> HIDE DEF pl
  <2>5. guessed[u].login <= MaxAttempts + pl
    BY <2>2, <2>3, <2>4
  <2>6. guessed[u].login <= MaxAttempts * (1 + uncounted[u].login)
    BY <2>3, <2>5
  <2> QED
    BY <2>1, <2>2, <2>6 DEF Sane, TallyInv, Kinds
<1>2. CredentialsInv => AttemptsBounded
  BY <1>1, PinsAreBounded DEF CredentialsInv, AttemptsBounded
<1> QED
  BY <1>2, CredentialsInvariance, PTL

-----------------------------------------------------------------------------
(* Chat.  What is on its way to a client is stored, and once the signal    *)
(* that closes a conversation exists the booking is over, or a save has    *)
(* put it back.                                                            *)
Signalled == told # {} \/ closing \/ \E s \in Sessions : Closed \in channel[s]

ChatInv ==
    /\ ChatTypeOK
    /\ \A s \in Sessions : shown[s] \subseteq stored
    /\ \A s \in Sessions : channel[s] \ {Closed} \subseteq stored
    /\ \A s \in Sessions : sending[s].step = "stored" => sending[s].message \in stored
    /\ stored # {} => conversation
    /\ Signalled => phase = "over" \/ reopened
    /\ phase = "before" => inHand = {}

LEMMA ChatInitial == ASSUME ChatInit PROVE ChatInv
BY DEF ChatInit, ChatInv, ChatTypeOK, Signalled, Send, NoSend

LEMMA ChatInvMeans == ASSUME ChatInv PROVE LiveIsTrue
BY DEF ChatInv, LiveIsTrue, Signalled, is_open

(* The row of a session that sends something is one of the two kinds.      *)
LEMMA SendingOf ==
    ASSUME ChatTypeOK, NEW s \in Sessions, sending[s].step \in {"checked", "stored"}
    PROVE  sending[s].message \in Messages
BY DEF ChatTypeOK, Send, NoSend

LEMMA SendingKept ==
    ASSUME ChatTypeOK, NEW s \in Sessions, NEW x \in Send, sending' = [sending EXCEPT ![s] = x]
    PROVE  /\ sending' \in [Sessions -> Send]
           /\ \A t \in Sessions : sending'[t] = IF t = s THEN x ELSE sending[t]
BY DEF ChatTypeOK

LEMMA ChatStep == ASSUME ChatInv, ChatNext PROVE ChatInv'
<1> USE ChatAssumption DEF ChatInv, is_open, bookingVars, messageVars
<1>1. ASSUME NEW s \in Sessions, Connect(s) PROVE ChatInv'
  BY <1>1 DEF Connect, ChatTypeOK, Signalled
<1>2. ASSUME NEW s \in Sessions, Disconnect(s) PROVE ChatInv'
  BY <1>2 DEF Disconnect, ChatTypeOK, Signalled
<1>3. ASSUME NEW s \in Sessions, Fetch(s) PROVE ChatInv'
  BY <1>3 DEF Fetch, ChatTypeOK, Signalled
<1>4. ASSUME NEW s \in Sessions, Store(s) PROVE ChatInv'
  <2>1. sending[s].message \in Messages
    BY <1>4, SendingOf DEF Store
  <2>2. /\ [sending[s] EXCEPT !.step = "stored"] \in Send
        /\ [sending[s] EXCEPT !.step = "stored"].message = sending[s].message
        /\ NoSend \in Send /\ NoSend.step = "none"
    BY <1>4 DEF Store, ChatTypeOK, Send, NoSend
  <2>3. CASE stored' = stored \cup {sending[s].message} /\ conversation' = TRUE
    <3>1. \/ sending' = [sending EXCEPT ![s] = [sending[s] EXCEPT !.step = "stored"]]
          \/ sending' = [sending EXCEPT ![s] = NoSend]
      BY <1>4, <2>3, <2>1 DEF Store, ChatTypeOK
    <3>2. ChatTypeOK'
      BY <1>4, <2>1, <2>2, <2>3, <3>1, SendingKept DEF Store, ChatTypeOK
    <3>3. (\A t \in Sessions : sending[t].step = "stored" => sending[t].message \in stored)'
      BY <2>1, <2>2, <2>3, <3>1, SendingKept
    <3> QED
      BY <1>4, <2>3, <3>2, <3>3 DEF Store, Signalled
  <2>4. CASE sending' = [sending EXCEPT ![s] = NoSend] /\ UNCHANGED <<conversation, stored>>
    BY <1>4, <2>2, <2>4, SendingKept DEF Store, ChatTypeOK, Signalled
  <2> QED
    BY <1>4, <2>3, <2>4 DEF Store, get_or_create_for_booking
<1>5. ASSUME NEW s \in Sessions, Broadcast(s) PROVE ChatInv'
  <2> DEFINE m == sending[s].message
  <2>1. m \in Messages /\ m \in stored
    BY <1>5, SendingOf DEF Broadcast, Committed
  <2>2. NoSend \in Send /\ NoSend.step = "none"
    BY DEF Send, NoSend
  <2>3. (\A t \in Sessions : sending[t].step = "stored" => sending[t].message \in stored)'
        /\ sending' \in [Sessions -> Send]
    BY <1>5, <2>2, SendingKept DEF Broadcast
  <2>4. CASE Announce(m) /\ UNCHANGED shown
    BY <1>5, <2>1, <2>3, <2>4 DEF Broadcast, Announce, ChatTypeOK, Signalled
  <2>5. CASE shown' = [shown EXCEPT ![s] = @ \cup {m}] /\ UNCHANGED channel
    BY <1>5, <2>1, <2>3, <2>5 DEF Broadcast, ChatTypeOK, Signalled
  <2> QED
    BY <1>5, <2>4, <2>5 DEF Broadcast
<1>6. ASSUME NEW s \in Sessions, NEW m \in Messages, NEW live \in BOOLEAN, SendBegin(s, m, live) PROVE ChatInv'
  <2> DEFINE x == [step |-> "checked", message |-> m, live |-> live]
  <2>1. x \in Send /\ x.step = "checked"
    BY DEF Send
  <2> HIDE DEF x
  <2>2. sending' = [sending EXCEPT ![s] = x]
    BY <1>6 DEF SendBegin, x
  <2> QED
    BY <1>6, <2>1, <2>2, SendingKept DEF SendBegin, ChatTypeOK, Signalled
<1>7. ASSUME NEW s \in Sessions, NEW event \in Messages \cup {Closed}, Deliver(s, event) PROVE ChatInv'
  <2>1. /\ channel' \in [Sessions -> SUBSET (Messages \cup {Closed})]
        /\ \A t \in Sessions : channel'[t] \subseteq channel[t]
    BY <1>7 DEF Deliver, ChatTypeOK
  <2>2. CASE event = Closed /\ told' = told \cup {s} /\ UNCHANGED shown
    BY <1>7, <2>1, <2>2 DEF Deliver, ChatTypeOK, Signalled
  <2>3. CASE event # Closed /\ shown' = [shown EXCEPT ![s] = @ \cup {event}] /\ UNCHANGED told
    BY <1>7, <2>1, <2>3 DEF Deliver, ChatTypeOK, Signalled
  <2>4. CASE UNCHANGED <<shown, told>>
    BY <1>7, <2>1, <2>4 DEF Deliver, ChatTypeOK, Signalled
  <2> QED
    BY <1>7, <2>2, <2>3, <2>4 DEF Deliver
<1>8. ASSUME get_or_create_conversation PROVE ChatInv'
  BY <1>8 DEF get_or_create_conversation, get_or_create_for_booking, ChatTypeOK, Signalled
<1>9. ASSUME Confirm PROVE ChatInv'
  BY <1>9 DEF Confirm, ChatTypeOK, Signalled
<1>10. ASSUME CompleteBooking PROVE ChatInv'
  BY <1>10 DEF CompleteBooking, ChatTypeOK, Signalled
<1>11. ASSUME EndBooking PROVE ChatInv'
  BY <1>11 DEF EndBooking, ChatTypeOK, Signalled
<1>12. ASSUME close_conversation PROVE ChatInv'
  <2>1. CASE UNCHANGED channel
    BY <1>12, <2>1 DEF close_conversation, ChatTypeOK, Signalled
  <2>2. CASE Announce(Closed)
    <3>1. /\ channel' \in [Sessions -> SUBSET (Messages \cup {Closed})]
          /\ \A t \in Sessions : channel'[t] \ {Closed} = channel[t] \ {Closed}
      BY <2>2 DEF Announce, ChatTypeOK
    <3> QED
      BY <1>12, <3>1 DEF close_conversation, ChatTypeOK, Signalled
  <2> QED
    BY <1>12, <2>1, <2>2 DEF close_conversation
<1>13. ASSUME LoadRow PROVE ChatInv'
  BY <1>13 DEF LoadRow, ChatTypeOK, Signalled
<1>14. ASSUME NEW p \in {"open", "over"}, SaveRow(p) PROVE ChatInv'
  BY <1>14 DEF SaveRow, ChatTypeOK, Signalled
<1> QED
  BY <1>1, <1>2, <1>3, <1>4, <1>5, <1>6, <1>7, <1>8, <1>9, <1>10, <1>11, <1>12, <1>13, <1>14 DEF ChatNext

LEMMA ChatRests == ASSUME ChatInv, UNCHANGED chatVars PROVE ChatInv'
BY DEF ChatInv, ChatTypeOK, Signalled, chatVars, bookingVars, messageVars

-----------------------------------------------------------------------------
(* A set of numbers up to n has a greatest one.                            *)
LEMMA Greatest ==
    ASSUME NEW n \in Nat, NEW S \in SUBSET (1..n), S # {}
    PROVE  \E c \in S : \A d \in S : d <= c
<1> DEFINE T == {n - c : c \in S}
<1>1. PICK c \in S : TRUE
  OBVIOUS
<1>a. \A d \in S : d \in Int /\ d <= n
  OBVIOUS
<1>b. T \subseteq Nat /\ n - c \in T
  BY <1>a
<1>2. PICK x \in T : \A y \in T : ~(<<y, x>> \in OpToRel(<, Nat))
  BY <1>b, NatLessThanWellFounded, WFMin
<1>3. \A y \in T : ~(y < x)
  BY <1>b, <1>2 DEF OpToRel
<1>4. PICK e \in S : x = n - e
  OBVIOUS
<1>5. \A d \in S : ~(n - d < n - e)
  BY <1>3, <1>4
<1> QED
  BY <1>5, <1>a

(* SupportDesk.  Two changes of one ticket are never in flight together,   *)
(* and a ticket being changed is not closed.                               *)
Updating(h) == task[h].op = "update"

SupportInv ==
    /\ SupportTypeOK
    /\ \A h \in Handlers : Updating(h) => ticket[task[h].ticket] \notin {"none", "closed"}
    /\ \A g, h \in Handlers : Updating(g) /\ Updating(h) /\ task[g].ticket = task[h].ticket => g = h

LEMMA TaskOf ==
    ASSUME SupportTypeOK, NEW h \in Handlers
    PROVE  /\ task[h].op = "customer" => task[h].conversation \in Conversations \cup {NoConversation}
           /\ task[h].op = "admin" => task[h].conversation \in Conversations
           /\ Updating(h) => task[h].ticket \in Tickets /\ task[h].status \in TicketStatuses
BY DEF SupportTypeOK, Task, NoTask, Updating

LEMMA TasksAfter ==
    ASSUME SupportTypeOK, NEW h \in Handlers, NEW x \in Task, task' = [task EXCEPT ![h] = x]
    PROVE  /\ task' \in [Handlers -> Task]
           /\ \A g \in Handlers : task'[g] = IF g = h THEN x ELSE task[g]
BY DEF SupportTypeOK

LEMMA SupportInitial == ASSUME SupportInit PROVE SupportInv
BY DEF SupportInit, SupportInv, SupportTypeOK, Task, NoTask, Updating, ConversationStatuses, TicketStatuses

(* A handler that ends, or that begins anything but the change of a        *)
(* ticket, leaves the changes in flight alone.                             *)
LEMMA OthersUpdate ==
    ASSUME SupportInv, NEW h \in Handlers, NEW x \in Task, x.op # "update",
           task' = [task EXCEPT ![h] = x],
           \A t \in Tickets : ticket[t] \notin {"none", "closed"} => ticket'[t] \notin {"none", "closed"}
    PROVE  /\ task' \in [Handlers -> Task]
           /\ (\A g \in Handlers : Updating(g) => ticket[task[g].ticket] \notin {"none", "closed"})'
           /\ (\A f, g \in Handlers : Updating(f) /\ Updating(g) /\ task[f].ticket = task[g].ticket => f = g)'
BY TasksAfter, TaskOf DEF SupportInv, Updating

TicketsStayClosed == \A t \in Tickets : ticket[t] = "closed" => ticket'[t] = "closed"
ConversationsStayClosed == \A c \in Conversations : support[c] = "closed" => support'[c] = "closed"

LEMMA SupportStep == ASSUME SupportInv, SupportNext PROVE SupportInv' /\ ConversationsStayClosed /\ TicketsStayClosed
<1> USE DEF TicketsStayClosed, ConversationsStayClosed
<1> DEFINE Goal == SupportInv' /\ ConversationsStayClosed /\ TicketsStayClosed
<1>a. NoTask \in Task /\ NoTask.op # "update" /\ SupportTypeOK
  BY DEF NoTask, Task, SupportInv
<1>1. ASSUME NEW h \in Handlers, CustomerBegin(h) PROVE Goal
  <2>1. PICK n \in Conversations \cup {NoConversation} :
             task' = [task EXCEPT ![h] = [op |-> "customer", conversation |-> n]]
    <3>1. OpenOnes # {} => \E c \in OpenOnes : \A d \in OpenOnes : d <= c
      <4>1. MaxConversations \in Nat /\ OpenOnes \subseteq 1..MaxConversations
        BY SupportAssumption DEF OpenOnes, Conversations
      <4> QED
        BY <4>1, Greatest
    <3> QED
      BY <1>1, <3>1 DEF CustomerBegin, TakeUp, OpenOnes
  <2> DEFINE x == [op |-> "customer", conversation |-> n]
  <2>2. x \in Task /\ x.op # "update"
    BY DEF Task
  <2> HIDE DEF x
  <2>3. task' = [task EXCEPT ![h] = x]
    BY <2>1 DEF x
  <2> QED
    BY <1>1, <1>a, <2>2, <2>3, OthersUpdate DEF CustomerBegin, SupportInv, SupportTypeOK
<1>2. ASSUME NEW h \in Handlers, SendCustomerMessage(h) PROVE Goal
  <2>1. task' = [task EXCEPT ![h] = NoTask] /\ UNCHANGED ticket
    BY <1>2 DEF SendCustomerMessage, Finish
  <2>2. /\ support' \in [Conversations -> ConversationStatuses \cup {"none"}]
        /\ messages' \in [Conversations -> SUBSET {"customer", "admin"}]
        /\ ConversationsStayClosed
    BY <1>2, <1>a, TaskOf DEF SendCustomerMessage, SupportTypeOK, ConversationStatuses, FirstFree, InTable
  <2> QED
    BY <1>a, <2>1, <2>2, OthersUpdate DEF SupportInv, SupportTypeOK
<1>3. ASSUME NEW h \in Handlers, SendAdminMessage(h) PROVE Goal
  <2>1. task' = [task EXCEPT ![h] = NoTask] /\ UNCHANGED ticket
    BY <1>3 DEF SendAdminMessage, Finish
  <2>2. /\ support' \in [Conversations -> ConversationStatuses \cup {"none"}]
        /\ messages' \in [Conversations -> SUBSET {"customer", "admin"}]
        /\ ConversationsStayClosed
    BY <1>3, <1>a, TaskOf DEF SendAdminMessage, SupportTypeOK, ConversationStatuses, mark_running
  <2> QED
    BY <1>a, <2>1, <2>2, OthersUpdate DEF SupportInv, SupportTypeOK
<1>4. ASSUME NEW h \in Handlers, NEW c \in Conversations, AdminBegin(h, c) PROVE Goal
  <2> DEFINE x == [op |-> "admin", conversation |-> c, status |-> support[c]]
  <2>2. x \in Task /\ x.op # "update"
    BY <1>4 DEF Task, AdminBegin, ConversationStatuses
  <2> HIDE DEF x
  <2>3. task' = [task EXCEPT ![h] = x]
    BY <1>4 DEF x, AdminBegin, TakeUp
  <2> QED
    BY <1>4, <1>a, <2>2, <2>3, OthersUpdate DEF AdminBegin, SupportInv, SupportTypeOK
<1>5. ASSUME NEW h \in Handlers, CreateTicketBegin(h) PROVE Goal
  <2> DEFINE x == [op |-> "create"]
  <2>2. x \in Task /\ x.op # "update"
    BY DEF Task
  <2> HIDE DEF x
  <2>3. task' = [task EXCEPT ![h] = x]
    BY <1>5 DEF x, CreateTicketBegin, TakeUp
  <2> QED
    BY <1>5, <1>a, <2>2, <2>3, OthersUpdate DEF CreateTicketBegin, SupportInv, SupportTypeOK
<1>6. ASSUME NEW h \in Handlers, CreateTicket(h) PROVE Goal
  <2>1. PICK t \in Tickets : ticket[t] = "none" /\ ticket' = [ticket EXCEPT ![t] = "open"]
    BY <1>6 DEF CreateTicket, FirstFree, InTable
  <2>2. /\ task' = [task EXCEPT ![h] = NoTask] /\ UNCHANGED <<support, messages>>
        /\ ticket' \in [Tickets -> TicketStatuses \cup {"none"}]
        /\ \A u \in Tickets : ticket[u] \notin {"none", "closed"} => ticket'[u] \notin {"none", "closed"}
        /\ TicketsStayClosed
    BY <1>6, <2>1, <1>a DEF CreateTicket, Finish, SupportTypeOK, TicketStatuses
  <2> QED
    BY <1>a, <2>2, OthersUpdate DEF SupportInv, SupportTypeOK
<1>7. ASSUME NEW h \in Handlers, UpdateTicket(h) PROVE Goal
  <2> DEFINE t == task[h].ticket
  <2>1. t \in Tickets /\ task[h].status \in TicketStatuses /\ Updating(h)
    BY <1>7, <1>a, TaskOf DEF UpdateTicket, Updating
  <2>2. /\ task' = [task EXCEPT ![h] = NoTask] /\ UNCHANGED <<support, messages>>
        /\ ticket' = [ticket EXCEPT ![t] = task[h].status]
    BY <1>7 DEF UpdateTicket, Finish
  <2>3. ticket' \in [Tickets -> TicketStatuses \cup {"none"}] /\ \A u \in Tickets : u # t => ticket'[u] = ticket[u]
    BY <2>1, <2>2, <1>a DEF SupportTypeOK
  <2>4. \A g \in Handlers : task'[g] = IF g = h THEN NoTask ELSE task[g]
    BY <1>a, <2>2, TasksAfter
  <2>5. (\A g \in Handlers : Updating(g) => ticket[task[g].ticket] \notin {"none", "closed"})'
    BY <1>a, <2>1, <2>3, <2>4, TaskOf DEF SupportInv, Updating
  <2>6. (\A f, g \in Handlers : Updating(f) /\ Updating(g) /\ task[f].ticket = task[g].ticket => f = g)'
    BY <1>a, <2>4 DEF SupportInv, Updating
  <2>7. TicketsStayClosed
    BY <2>1, <2>3 DEF SupportInv
  <2> QED
    BY <1>a, <2>2, <2>3, <2>5, <2>6, <2>7, TasksAfter DEF SupportInv, SupportTypeOK
<1>8. ASSUME NEW h \in Handlers, NEW t \in Tickets, NEW next \in TicketStatuses,
             UpdateTicketBegin(h, t, next)
      PROVE Goal
  <2> DEFINE x == [op |-> "update", ticket |-> t, status |-> next]
  <2>2. x \in Task /\ x.ticket = t
    BY DEF Task
  <2> HIDE DEF x
  <2>3. task' = [task EXCEPT ![h] = x] /\ UNCHANGED <<support, messages, ticket>>
    BY <1>8 DEF x, UpdateTicketBegin, TakeUp
  <2>4. task' \in [Handlers -> Task] /\ \A g \in Handlers : task'[g] = IF g = h THEN x ELSE task[g]
    BY <1>a, <2>2, <2>3, TasksAfter
  <2>5. (\A g \in Handlers : Updating(g) => ticket[task[g].ticket] \notin {"none", "closed"})'
    BY <1>8, <2>2, <2>3, <2>4 DEF SupportInv, Updating, UpdateTicketBegin, InTable
  <2>6. (\A f, g \in Handlers : Updating(f) /\ Updating(g) /\ task[f].ticket = task[g].ticket => f = g)'
    BY <1>8, <2>2, <2>4 DEF SupportInv, Updating, UpdateTicketBegin, TicketFree
  <2> QED
    BY <2>3, <2>4, <2>5, <2>6, <1>a DEF SupportInv, SupportTypeOK
<1>9. ASSUME NEW c \in Conversations, CloseConversation(c) PROVE Goal
  BY <1>9 DEF CloseConversation, SupportInv, SupportTypeOK, ConversationStatuses, Updating
<1> QED
  BY <1>1, <1>2, <1>3, <1>4, <1>5, <1>6, <1>7, <1>8, <1>9 DEF SupportNext

LEMMA SupportRests == ASSUME SupportInv, UNCHANGED supportVars PROVE SupportInv'
BY DEF SupportInv, SupportTypeOK, Updating, supportVars

-----------------------------------------------------------------------------
(* Reminders.  The rows stored and the runs that are about to store one,   *)
(* having found none, are together no more than the runs: a run tests once *)
(* and inserts once, and none finds a reminder absent once a row is there. *)
(* While a booking that was agreed on in time has no reminder, the runs    *)
(* that failed it or owe it one are counted: those before this beat, if    *)
(* the window was open at the last one, and those begun in this beat.      *)
Finders(type) == {w \in Runs : type \in absent[w]}
Owing(type) == {w \in Runs : type \in run[w] \cup absent[w]}

OpenBefore(type) == 100 * (away + Period) <= High(type)
One(condition) == IF condition THEN 1 ELSE 0

RunsCounted(type) ==
    /\ InWindow(type) => lost[type] + Cardinality(Owing(type)) >= One(OpenBefore(type)) + One(begun)
    /\ After(type) => lost[type] + Cardinality(Owing(type)) >= 2

RemindersInv ==
    /\ RemindersTypeOK
    /\ \A type \in Types : reminders[type] + Cardinality(Finders(type)) <= Cardinality(Runs)
    /\ \A type \in Types : status = "confirmed" /\ type \in early /\ reminders[type] = 0 => RunsCounted(type)

LEMMA RunCount ==
    ASSUME NEW W \in SUBSET Runs
    PROVE  /\ Cardinality(W) \in Nat /\ Cardinality(Runs) \in Nat
           /\ Cardinality(W) <= Cardinality(Runs)
           /\ \A w \in W : Cardinality(W \ {w}) = Cardinality(W) - 1
           /\ \A w \in Runs \ W :
                  Cardinality(W \cup {w}) = Cardinality(W) + 1 /\ Cardinality(W) + 1 <= Cardinality(Runs)
           /\ W = {} => Cardinality(W) = 0
           /\ \A V \in SUBSET W : Cardinality(V) <= Cardinality(W)
<1>1. IsFiniteSet(Runs)
  BY RemindersAssumption DEF RemindersAssumption
<1>2. /\ IsFiniteSet(W) /\ Cardinality(W) \in Nat /\ Cardinality(Runs) \in Nat
      /\ Cardinality(W) <= Cardinality(Runs)
  BY <1>1, FS_Subset, FS_CardinalityType
<1>3. \A w \in W : Cardinality(W \ {w}) = Cardinality(W) - 1
  BY <1>2, FS_RemoveElement
<1>4. ASSUME NEW w \in Runs \ W
      PROVE  Cardinality(W \cup {w}) = Cardinality(W) + 1 /\ Cardinality(W) + 1 <= Cardinality(Runs)
  <2>1. Cardinality(W \cup {w}) = Cardinality(W) + 1
    BY <1>2, FS_AddElement
  <2>2. Cardinality(W \cup {w}) <= Cardinality(Runs)
    BY <1>1, FS_Subset
  <2> QED
    BY <2>1, <2>2
<1>5. W = {} => Cardinality(W) = 0
  BY FS_EmptySet
<1>6. \A V \in SUBSET W : Cardinality(V) <= Cardinality(W)
  BY <1>2, FS_Subset
<1> QED
  BY <1>2, <1>3, <1>4, <1>5, <1>6

(* The two sets are sets of runs, before a step and after it.              *)
LEMMA RunSets ==
    ASSUME NEW type \in Types
    PROVE  /\ Finders(type) \in SUBSET Runs /\ Finders(type)' \in SUBSET Runs
           /\ Owing(type) \in SUBSET Runs /\ Owing(type)' \in SUBSET Runs
           /\ Cardinality(Finders(type)) \in Nat /\ Cardinality(Finders(type)') \in Nat
           /\ Cardinality(Owing(type)) \in Nat /\ Cardinality(Owing(type)') \in Nat
           /\ Cardinality(Runs) \in Nat
<1>1. /\ Finders(type) \in SUBSET Runs /\ Finders(type)' \in SUBSET Runs
      /\ Owing(type) \in SUBSET Runs /\ Owing(type)' \in SUBSET Runs
  BY DEF Finders, Owing
<1> QED
  BY <1>1, RunCount

(* A window is 34 hundredths of an hour long, and two beats fit into it.   *)
LEMMA Windows ==
    /\ \A type \in Types : Low(type) \in Nat /\ High(type) = Low(type) + 2040
    /\ Period \in Nat /\ Skip \in Nat /\ Period > 0 /\ 200 * Period <= 2040
    /\ First \subseteq Nat
<1>1. \A type \in Types : REMINDER_WINDOWS[type] =
        IF type = "booking_reminder_24h" THEN <<2383, 2417>> ELSE <<183, 217>>
  BY DEF REMINDER_WINDOWS
<1> QED
  BY <1>1, RemindersAssumption DEF Low, High, RemindersAssumption

LEMMA RemindersInitial == ASSUME RemindersInit PROVE RemindersInv
<1>1. RemindersTypeOK
  <2>1. away \in Nat
    BY Windows DEF RemindersInit
  <2>2. run \in [Runs -> SUBSET Types] /\ absent \in [Runs -> SUBSET Types]
    BY DEF RemindersInit
  <2>3. reminders \in [Types -> Nat] /\ lost \in [Types -> 0..2]
    BY DEF RemindersInit
  <2> QED
    BY <2>1, <2>2, <2>3 DEF RemindersInit, RemindersTypeOK
<1>2. ASSUME NEW type \in Types PROVE reminders[type] + Cardinality(Finders(type)) <= Cardinality(Runs)
  <2>1. Finders(type) = {} /\ reminders[type] = 0
    BY DEF RemindersInit, Finders
  <2> QED
    BY <2>1, RunCount, RunSets
<1> QED
  BY <1>1, <1>2 DEF RemindersInit, RemindersInv

LEMMA RemindersInvMeans == ASSUME RemindersInv PROVE RemindedInTime
<1>1. ReminderOnce
  BY RunSets DEF RemindersInv, RemindersTypeOK, ReminderOnce
<1>2. ASSUME NEW type \in Types, status = "confirmed", type \in early, After(type), lost[type] <= 1,
             \A w \in Runs : type \notin run[w] \cup absent[w]
      PROVE  reminders[type] > 0
  <2>1. Owing(type) = {}
    BY <1>2 DEF Owing
  <2>2. Cardinality(Owing(type)) = 0
    BY <2>1, RunCount
  <2> QED
    BY <1>2, <2>2 DEF RemindersInv, RemindersTypeOK, RunsCounted
<1> QED
  BY <1>1, <1>2 DEF RemindedInTime, ReminderNotMissed

LEMMA Misses ==
    ASSUME RemindersTypeOK, NEW types \in SUBSET Types
    PROVE  /\ Missed(types) \in [Types -> 0..2]
           /\ \A type \in Types :
                  /\ Missed(types)[type] >= lost[type]
                  /\ type \in types /\ reminders[type] = 0 => Missed(types)[type] = 2 \/ Missed(types)[type] > lost[type]
BY DEF Missed, RemindersTypeOK

(* A step that leaves the booking, the time and the beat alone keeps the   *)
(* count if every run that no longer owes a reminder is counted as lost.   *)
LEMMA StillCounted ==
    ASSUME RemindersInv, UNCHANGED <<status, away, early>>, lost' \in [Types -> 0..2],
           NEW type \in Types, status' = "confirmed", type \in early', reminders[type] = 0,
           lost'[type] >= lost[type], begun' => (begun \/ ~InWindow(type)),
           \/ Owing(type) \subseteq Owing(type)'
           \/ (lost'[type] = 2 \/ lost'[type] > lost[type]) /\ \E w \in Runs : Owing(type) \ {w} \subseteq Owing(type)'
    PROVE  RunsCounted(type)'
<1>1. RunsCounted(type) /\ lost[type] \in Nat /\ lost'[type] \in 0..2
  BY DEF RemindersInv, RemindersTypeOK
<1>2. lost'[type] = 2 \/ lost'[type] + Cardinality(Owing(type)') >= lost[type] + Cardinality(Owing(type))
  <2>1. CASE Owing(type) \subseteq Owing(type)'
    BY <1>1, <2>1, RunCount, RunSets
  <2>2. CASE lost'[type] > lost[type] /\ \E w \in Runs : Owing(type) \ {w} \subseteq Owing(type)'
    <3>1. PICK w \in Runs : Owing(type) \ {w} \subseteq Owing(type)'
      BY <2>2
    <3>2. Cardinality(Owing(type) \ {w}) >= Cardinality(Owing(type)) - 1
      <4>1. w \notin Owing(type) => Owing(type) \ {w} = Owing(type)
        OBVIOUS
      <4> QED
        BY <4>1, RunCount, RunSets
    <3>3. Cardinality(Owing(type)') >= Cardinality(Owing(type) \ {w}) /\ Cardinality(Owing(type) \ {w}) \in Nat
      BY <3>1, RunCount, RunSets
    <3> QED
      BY <1>1, <2>2, <3>2, <3>3, RunSets
  <2> QED
    BY <2>1, <2>2
<1>3. OpenBefore(type)' = OpenBefore(type) /\ InWindow(type)' = InWindow(type) /\ After(type)' = After(type)
  BY DEF OpenBefore, InWindow, After, High, Low
<1>4. InWindow(type) => One(begun)' <= One(begun)
  BY DEF One
<1>5. One(OpenBefore(type))' = One(OpenBefore(type)) /\ One(OpenBefore(type)) \in 0..1 /\ One(begun) \in 0..1
      /\ One(begun)' \in 0..1
  BY <1>3 DEF One
<1> QED
  BY <1>1, <1>2, <1>3, <1>4, <1>5, RunSets DEF RunsCounted

LEMMA RemindersStep == ASSUME RemindersInv, RemindersNext PROVE RemindersInv'
<1>t. RemindersTypeOK
  BY DEF RemindersInv
<1>1. ASSUME NEW w \in Runs, StartRun(w) PROVE RemindersInv'
  <2>1. run' \in [Runs -> SUBSET Types] /\ absent' = absent /\ \A v \in Runs :
            run'[v] = IF v = w THEN Due ELSE run[v]
    BY <1>1, <1>t DEF StartRun, Due, RemindersTypeOK
  <2>2. RemindersTypeOK'
    BY <1>1, <1>t, <2>1 DEF StartRun, RemindersTypeOK
  <2>3. \A type \in Types : Finders(type)' = Finders(type)
    BY <2>1 DEF Finders
  <2>4. ASSUME NEW type \in Types, status = "confirmed", type \in early, reminders[type] = 0
        PROVE  RunsCounted(type)'
    <3>1. CASE InWindow(type)
      <4>1. type \in Due /\ w \notin Owing(type)
        BY <1>1, <2>4, <3>1 DEF StartRun, Due, Owing
      <4>2. Owing(type)' = Owing(type) \cup {w}
        BY <1>1, <2>1, <4>1 DEF StartRun, Owing
      <4>3. Cardinality(Owing(type)') = Cardinality(Owing(type)) + 1
        BY <4>1, <4>2, RunCount, RunSets
      <4>4. RunsCounted(type) /\ lost[type] \in Nat /\ ~After(type)
        BY <2>4, <3>1, <1>t, Windows DEF RemindersInv, RemindersTypeOK, InWindow, After, Low
      <4>5. One(begun)' <= One(begun) + 1 /\ One(begun)' \in Nat /\ One(begun) \in Nat
        BY DEF One
      <4>6. One(OpenBefore(type)) \in Nat /\ One(OpenBefore(type))' = One(OpenBefore(type))
        BY <1>1 DEF One, OpenBefore, StartRun, High
      <4>7. lost' = lost /\ InWindow(type)' = InWindow(type) /\ After(type)' = After(type)
        BY <1>1 DEF StartRun, InWindow, After, Low, High
      <4> QED
        BY <3>1, <4>3, <4>4, <4>5, <4>6, <4>7, RunSets DEF RunsCounted
    <3>2. CASE ~InWindow(type)
      <4>1. Owing(type) \subseteq Owing(type)'
        BY <1>1, <2>1 DEF StartRun, Owing
      <4>2. lost' = lost /\ lost'[type] >= lost[type] /\ lost' \in [Types -> 0..2]
        BY <1>1, <1>t DEF StartRun, RemindersTypeOK
      <4> QED
        BY <1>1, <2>4, <3>2, <4>1, <4>2, StillCounted DEF StartRun
    <3> QED
      BY <3>1, <3>2
  <2> QED
    BY <1>1, <2>2, <2>3, <2>4 DEF StartRun, RemindersInv
<1>2. ASSUME Beat PROVE RemindersInv'
  <2> DEFINE types == IF begun THEN {} ELSE Due
  <2>1. types \in SUBSET Types /\ lost' = Missed(types)
    BY <1>2 DEF Beat, Due
  <2>a. \A type \in Types : InWindow(type) /\ status = "confirmed" /\ ~begun => type \in types
    BY DEF Due
  <2> HIDE DEF types
  <2>2. lost' \in [Types -> 0..2] /\ \A type \in Types :
            /\ lost'[type] >= lost[type]
            /\ type \in types /\ reminders[type] = 0 => lost'[type] = 2 \/ lost'[type] > lost[type]
    BY <2>1, <1>t, Misses
  <2>3. away' \in Nat /\ away \in Nat
    <3>1. High("booking_reminder_2h") \in Nat /\ Skip \in Nat /\ Period \in Nat /\ away \in Nat
      BY <1>t, Windows DEF Types, RemindersTypeOK
    <3>2. Before("booking_reminder_2h", away - Skip) => away - Skip >= 0
      BY <3>1 DEF Before
    <3> QED
      BY <1>2, <3>1, <3>2 DEF Beat
  <2>4. RemindersTypeOK' /\ \A type \in Types : Finders(type)' = Finders(type) /\ Owing(type)' = Owing(type)
    BY <1>2, <1>t, <2>2, <2>3 DEF Beat, RemindersTypeOK, Finders, Owing
  <2>5. ASSUME NEW type \in Types, status = "confirmed", type \in early, reminders[type] = 0
        PROVE  RunsCounted(type)'
    <3> DEFINE owing == Cardinality(Owing(type))
    <3>o. owing \in Nat /\ Cardinality(Owing(type)') = owing
      BY <2>4, RunSets
    <3> HIDE DEF owing
    <3>1. /\ InWindow(type) => lost[type] + owing >= One(OpenBefore(type)) + One(begun)
          /\ After(type) => lost[type] + owing >= 2
          /\ lost[type] \in 0..2 /\ lost'[type] \in 0..2 /\ lost'[type] >= lost[type]
      BY <2>2, <2>5, <1>t DEF RemindersInv, RunsCounted, RemindersTypeOK, owing
    <3>s. ASSUME InWindow(type)' => lost'[type] + owing >= One(OpenBefore(type))',
                 After(type)' => lost'[type] + owing >= 2
          PROVE  RunsCounted(type)'
      <4>1. One(begun)' = 0 /\ One(OpenBefore(type))' \in 0..1
        BY <1>2 DEF Beat, One
      <4> QED
        BY <3>s, <3>o, <4>1 DEF RunsCounted
    <3>2. CASE away' = away - Skip /\ After("booking_reminder_24h") /\ Before("booking_reminder_2h", away - Skip)
      <4>1. CASE type = "booking_reminder_24h"
        <5>1. After(type) /\ ~InWindow(type)' /\ lost'[type] + owing >= 2
          BY <3>1, <3>2, <4>1, <3>o, <2>3, Windows DEF After, InWindow, Low
        <5> QED
          BY <5>1, <3>s
      <4>2. CASE type = "booking_reminder_2h"
        <5>1. ~InWindow(type)' /\ ~After(type)'
          BY <3>2, <4>2, <2>3, Windows DEF After, InWindow, Before, Low, High
        <5> QED
          BY <5>1, <3>s
      <4> QED
        BY <4>1, <4>2 DEF Types
    <3>3. CASE away' = away - Period
      <4>1. InWindow(type) => lost'[type] + owing >= 1 + One(OpenBefore(type))
        <5> DEFINE before == One(OpenBefore(type))
        <5>1. before \in 0..1 /\ begun \in BOOLEAN
          BY <1>t DEF One, RemindersTypeOK
        <5>2. InWindow(type) => lost[type] + owing >= before + (IF begun THEN 1 ELSE 0)
          BY <3>1 DEF One
        <5> HIDE DEF before
        <5>3. ASSUME begun = TRUE, InWindow(type) PROVE lost'[type] + owing >= 1 + before
          <6>1. lost[type] + owing >= before + 1
            BY <5>2, <5>3
          <6> QED
            BY <3>1, <3>o, <5>1, <6>1
        <5>4. ASSUME begun = FALSE, InWindow(type) PROVE lost'[type] + owing >= 1 + before
          <6>1. lost[type] + owing >= before
            BY <5>1, <5>2, <5>4
          <6>2. lost'[type] = 2 \/ lost'[type] > lost[type]
            BY <2>a, <2>2, <2>5, <5>4
          <6> QED
            BY <3>1, <3>o, <5>1, <6>1, <6>2
        <5>5. InWindow(type) => lost'[type] + owing >= 1 + before
          BY <5>1, <5>3, <5>4
        <5> QED
          BY <5>5 DEF before
      <4>2. Low(type)' = Low(type) /\ High(type)' = High(type) /\ Low(type) \in Nat /\ High(type) = Low(type) + 2040
        BY Windows DEF Low, High
      <4>4. InWindow(type)' => lost'[type] + owing >= One(OpenBefore(type))'
        BY <3>3, <4>1, <4>2, <2>3, <3>1, <3>o, Windows DEF InWindow, OpenBefore, One
      <4>5. After(type)' => lost'[type] + owing >= 2
        BY <3>1, <3>o, <3>3, <4>1, <4>2, <2>3, Windows DEF InWindow, After, OpenBefore, One
      <4> QED
        BY <3>s, <4>4, <4>5
    <3> QED
      BY <1>2, <3>2, <3>3 DEF Beat
  <2> QED
    BY <1>2, <2>4, <2>5 DEF RemindersInv, Beat
<1>3. ASSUME NEW minutes \in Nat, Agree(minutes), status' = "confirmed", UNCHANGED <<runVars, reminders, read>>
      PROVE  RemindersInv'
  <2>1. RemindersTypeOK' /\ \A type \in Types : Finders(type)' = Finders(type)
    BY <1>3, <1>t DEF Agree, RemindersTypeOK, runVars, Finders
  <2>2. \A type \in Types : type \in early' => ~InWindow(type)' /\ ~After(type)'
    BY <1>3, Windows DEF Agree, Before, InWindow, After, Low, High
  <2> QED
    BY <1>3, <2>1, <2>2 DEF RemindersInv, RunsCounted
<1>4. ASSUME ConfirmBooking PROVE RemindersInv'
  BY <1>3, <1>4, <1>t DEF ConfirmBooking, RemindersTypeOK
<1>13. ASSUME PutBack PROVE RemindersInv'
  BY <1>3, <1>13, <1>t DEF PutBack, RemindersTypeOK
<1>5. ASSUME EndService PROVE RemindersInv'
  <2>1. RemindersTypeOK' /\ \A type \in Types : Finders(type)' = Finders(type)
    BY <1>5, <1>t DEF EndService, RemindersTypeOK, runVars, Finders
  <2> QED
    BY <1>5, <2>1 DEF EndService, RemindersInv
<1>6. ASSUME NEW w \in Runs, NEW type \in Types, Test(w, type) PROVE RemindersInv'
  <2>1. RemindersTypeOK'
    BY <1>6, <1>t DEF Test, RemindersTypeOK
  <2>2. \A other \in Types :
            /\ other # type => Finders(other)' = Finders(other) /\ Owing(other)' = Owing(other)
            /\ exists_for_booking(type) => Finders(other)' = Finders(other)
            /\ ~exists_for_booking(type) => Owing(other)' = Owing(other)
    BY <1>6, <1>t DEF Test, Finders, Owing, RemindersTypeOK
  <2>3. ~exists_for_booking(type) => Finders(type)' = Finders(type) \cup {w} /\ reminders[type] = 0
    BY <1>6, <1>t DEF Test, Finders, RemindersTypeOK, exists_for_booking
  <2>4. ASSUME NEW other \in Types PROVE reminders'[other] + Cardinality(Finders(other)') <= Cardinality(Runs)
    <3>1. reminders' = reminders /\ reminders[other] + Cardinality(Finders(other)) <= Cardinality(Runs)
      BY <1>6 DEF Test, RemindersInv
    <3>2. CASE other = type /\ ~exists_for_booking(type)
      BY <2>3, <3>1, <3>2, RunCount, RunSets
    <3>3. CASE other # type \/ exists_for_booking(type)
      <4>1. Finders(other)' = Finders(other)
        BY <2>2, <3>3
      <4> QED
        BY <3>1, <4>1
    <3> QED
      BY <3>2, <3>3
  <2>5. ASSUME NEW other \in Types, status = "confirmed", other \in early, reminders[other] = 0
        PROVE  RunsCounted(other)'
    <3>1. Owing(other)' = Owing(other)
      <4>1. other = type => ~exists_for_booking(type)
        BY <2>5 DEF exists_for_booking
      <4> QED
        BY <2>2, <4>1
    <3>2. lost' = lost /\ lost'[other] >= lost[other] /\ lost' \in [Types -> 0..2]
      BY <1>6, <1>t DEF Test, RemindersTypeOK
    <3> QED
      BY <1>6, <2>5, <3>1, <3>2, StillCounted DEF Test
  <2> QED
    BY <1>6, <2>1, <2>4, <2>5 DEF Test, RemindersInv
<1>7. ASSUME NEW w \in Runs, NEW type \in Types, Remind(w, type) PROVE RemindersInv'
  <2>1. absent' \in [Runs -> SUBSET Types] /\ run' = run /\ type \in absent[w] /\ \A v \in Runs :
            absent'[v] = IF v = w THEN absent[w] \ {type} ELSE absent[v]
    BY <1>7, <1>t DEF Remind, RemindersTypeOK
  <2>2. /\ Finders(type)' = Finders(type) \ {w} /\ w \in Finders(type)
        /\ Owing(type) \ {w} \subseteq Owing(type)'
        /\ \A other \in Types \ {type} : Finders(other)' = Finders(other) /\ Owing(other)' = Owing(other)
    BY <2>1 DEF Finders, Owing
  <2>3. \A other \in Types : reminders[other] + Cardinality(Finders(other)) <= Cardinality(Runs)
    BY DEF RemindersInv
  <2>4. Cardinality(Finders(type)') = Cardinality(Finders(type)) - 1
    BY <2>2, RunCount, RunSets
  <2>5. CASE reminders' = [reminders EXCEPT ![type] = @ + 1] /\ read' = read \ {type} /\ UNCHANGED lost
    <3>1. RemindersTypeOK'
      BY <1>7, <1>t, <2>1, <2>5 DEF Remind, RemindersTypeOK
    <3>2. \A other \in Types : reminders'[other] = IF other = type THEN reminders[type] + 1 ELSE reminders[other]
      BY <1>t, <2>5 DEF RemindersTypeOK
    <3>3. ASSUME NEW other \in Types
          PROVE  reminders'[other] + Cardinality(Finders(other)') <= Cardinality(Runs)
      <4>1. CASE other = type
        BY <1>t, <2>3, <2>4, <3>2, <4>1, RunSets DEF RemindersTypeOK
      <4>2. CASE other # type
        <5>1. Finders(other)' = Finders(other) /\ reminders'[other] = reminders[other]
          BY <2>2, <3>2, <4>2
        <5> QED
          BY <2>3, <5>1
      <4> QED
        BY <4>1, <4>2
    <3>4. ASSUME NEW other \in Types, status = "confirmed", other \in early, reminders'[other] = 0
          PROVE  RunsCounted(other)'
      <4>1. other # type /\ reminders[other] = 0
        BY <1>t, <3>2, <3>4 DEF RemindersTypeOK
      <4>2. lost'[other] >= lost[other] /\ lost' \in [Types -> 0..2]
        BY <1>t, <2>5 DEF RemindersTypeOK
      <4> QED
        BY <1>7, <2>2, <3>4, <4>1, <4>2, StillCounted DEF Remind
    <3> QED
      BY <1>7, <3>1, <3>3, <3>4 DEF Remind, RemindersInv
  <2>6. CASE lost' = Missed({type}) /\ UNCHANGED <<reminders, read>>
    <3>1. /\ lost' \in [Types -> 0..2] /\ \A other \in Types : lost'[other] >= lost[other]
          /\ reminders[type] = 0 => lost'[type] = 2 \/ lost'[type] > lost[type]
      BY <2>6, <1>t, Misses
    <3>2. RemindersTypeOK'
      BY <1>7, <1>t, <2>1, <2>6, <3>1 DEF Remind, RemindersTypeOK
    <3>3. \A other \in Types : reminders'[other] + Cardinality(Finders(other)') <= Cardinality(Runs)
      BY <1>t, <2>2, <2>3, <2>4, <2>6, RunSets DEF RemindersTypeOK
    <3>4. ASSUME NEW other \in Types, status = "confirmed", other \in early, reminders[other] = 0
          PROVE  RunsCounted(other)'
      BY <1>7, <2>2, <3>1, <3>4, StillCounted DEF Remind
    <3> QED
      BY <1>7, <2>6, <3>2, <3>3, <3>4 DEF Remind, RemindersInv
  <2> QED
    BY <1>7, <2>5, <2>6 DEF Remind
<1>8. ASSUME NEW w \in Runs, StopRun(w) PROVE RemindersInv'
  <2> DEFINE types == run[w] \cup absent[w]
  <2>0. UNCHANGED <<status, away, begun, reminders, read, early>>
    BY <1>8 DEF StopRun
  <2>1. /\ run' \in [Runs -> SUBSET Types] /\ absent' \in [Runs -> SUBSET Types] /\ types \in SUBSET Types
        /\ \A v \in Runs :
              /\ run'[v] = IF v = w THEN {} ELSE run[v]
              /\ absent'[v] = IF v = w THEN {} ELSE absent[v]
    BY <1>8, <1>t DEF StopRun, RemindersTypeOK
  <2>2. lost' = Missed(types)
    BY <1>8 DEF StopRun
  <2>3. \A type \in Types :
            /\ Finders(type)' \subseteq Finders(type)
            /\ Owing(type) \ {w} \subseteq Owing(type)'
            /\ type \notin types => Owing(type) \subseteq Owing(type)'
    BY <2>1 DEF Finders, Owing
  <2> HIDE DEF types
  <2>4. lost' \in [Types -> 0..2] /\ \A type \in Types :
            /\ lost'[type] >= lost[type]
            /\ type \in types /\ reminders[type] = 0 => lost'[type] = 2 \/ lost'[type] > lost[type]
    BY <2>1, <2>2, <1>t, Misses
  <2>5. RemindersTypeOK'
    BY <1>8, <1>t, <2>1, <2>4 DEF StopRun, RemindersTypeOK
  <2>6. ASSUME NEW type \in Types PROVE reminders[type] + Cardinality(Finders(type)') <= Cardinality(Runs)
    <3>1. Finders(type) \in SUBSET Runs /\ Finders(type)' \in SUBSET Finders(type)
      BY <2>3, RunSets
    <3>2. Cardinality(Finders(type)') <= Cardinality(Finders(type))
      BY <3>1, RunCount
    <3> QED
      BY <3>2, <1>t, RunSets DEF RemindersInv, RemindersTypeOK
  <2>7. ASSUME NEW type \in Types, status = "confirmed", type \in early, reminders[type] = 0
        PROVE  RunsCounted(type)'
    <3>1. CASE type \in types
      BY <2>0, <2>3, <2>4, <2>7, <3>1, StillCounted
    <3>2. CASE type \notin types
      BY <2>0, <2>3, <2>4, <2>7, <3>2, StillCounted
    <3> QED
      BY <3>1, <3>2
  <2> QED
    BY <1>8, <2>5, <2>6, <2>7 DEF StopRun, RemindersInv
<1>9. ASSUME NEW types \in SUBSET Types, read' = types, UNCHANGED <<status, away, runVars, reminders, lost, early>>
      PROVE  RemindersInv'
  <2>1. RemindersTypeOK'
    BY <1>9, <1>t DEF RemindersTypeOK, runVars
  <2>2. \A type \in Types : Finders(type)' = Finders(type) /\ (RunsCounted(type) => RunsCounted(type)')
    BY <1>9 DEF runVars, Finders, Owing, RunsCounted, InWindow, After, OpenBefore, High, Low
  <2> QED
    BY <1>9, <2>1, <2>2 DEF RemindersInv
<1>10. ASSUME NEW type \in Types, mark_read(type) PROVE RemindersInv'
  BY <1>9, <1>10, <1>t DEF mark_read, RemindersTypeOK
<1>11. ASSUME mark_all_read PROVE RemindersInv'
  BY <1>9, <1>11 DEF mark_all_read
<1>12. ASSUME NEW minutes \in First, Reschedule(minutes) PROVE RemindersInv'
  BY <1>3, <1>12, <1>t, Windows DEF Reschedule, RemindersTypeOK
<1> QED
  BY <1>1, <1>2, <1>4, <1>5, <1>6, <1>7, <1>8, <1>10, <1>11, <1>12, <1>13 DEF RemindersNext

LEMMA RemindersRest == ASSUME RemindersInv, UNCHANGED reminderVars PROVE RemindersInv'
<1>1. RemindersTypeOK'
  BY DEF RemindersInv, RemindersTypeOK, reminderVars, runVars
<1>2. \A type \in Types : Finders(type)' = Finders(type) /\ (RunsCounted(type) => RunsCounted(type)')
  BY DEF reminderVars, runVars, Finders, Owing, RunsCounted, InWindow, After, OpenBefore, High, Low
<1> QED
  BY <1>1, <1>2 DEF RemindersInv, reminderVars

-----------------------------------------------------------------------------
(* AddressBook.  The addresses kept, or written by a handler in flight:    *)
(* only the beginning of a creation adds one to them.                      *)
Writing(e) == editing[e].op \in {"create", "update"}
Written == {editing[e].id : e \in {f \in Editors : Writing(f)}}
Prospective == Kept \cup Written

AddressInv ==
    /\ AddressTypeOK
    /\ \A e \in Editors : editing[e].op = "update" => editing[e].row.state = "live"
    /\ Cardinality(Prospective) <= MaxAddresses + Cardinality(Editors) - 1

LEMMA AddressFinite ==
    /\ MaxAddresses \in Nat \ {0} /\ IsFiniteSet(Addresses)
    /\ IsFiniteSet(Editors) /\ Cardinality(Editors) \in Nat \ {0}
BY AddressAssumption, FS_CardinalityType, FS_EmptySet DEF AddressAssumption

LEMMA EditOf ==
    ASSUME AddressTypeOK, NEW e \in Editors, editing[e].op \in {"create", "update", "delete"}
    PROVE  editing[e].id \in Addresses
BY DEF AddressTypeOK, Edit, NoEdit

LEMMA AddressesFinite ==
    ASSUME NEW S \in SUBSET Addresses
    PROVE  IsFiniteSet(S) /\ Cardinality(S) \in Nat
BY AddressFinite, FS_Subset, FS_CardinalityType

(* There are no more addresses being written than handlers.                *)
WrittenBy(edits) == {edits[e].id : e \in {f \in Editors : edits[f].op \in {"create", "update"}}}

LEMMA WrittenFew ==
    ASSUME NEW edits \in [Editors -> Edit]
    PROVE  WrittenBy(edits) \subseteq Addresses /\ Cardinality(WrittenBy(edits)) <= Cardinality(Editors)
<1> DEFINE Writers == {e \in Editors : edits[e].op \in {"create", "update"}}
           f == [e \in Writers |-> edits[e].id]
<1>1. IsFiniteSet(Writers) /\ Cardinality(Writers) <= Cardinality(Editors)
  BY AddressFinite, FS_Subset
<1>2. f \in Surjection(Writers, WrittenBy(edits))
  BY DEF Surjection, WrittenBy
<1>3. Cardinality(WrittenBy(edits)) <= Cardinality(Writers)
  BY <1>1, <1>2, FS_Surjection
<1>4. WrittenBy(edits) \subseteq Addresses
  BY DEF WrittenBy, Edit, NoEdit
<1> QED
  BY <1>1, <1>3, <1>4, FS_CardinalityType, AddressFinite, AddressesFinite

LEMMA WrittenIs == Written = WrittenBy(editing) /\ Written' = WrittenBy(editing')
BY DEF Written, Writing, WrittenBy

LEMMA ProspectiveIn ==
    /\ AddressTypeOK => Kept \subseteq Addresses /\ Prospective \subseteq Addresses
    /\ AddressTypeOK' => Kept' \subseteq Addresses /\ Prospective' \subseteq Addresses
<1>1. Kept \subseteq Addresses /\ Kept' \subseteq Addresses
  BY DEF Kept
<1>2. /\ AddressTypeOK => WrittenBy(editing) \subseteq Addresses
      /\ AddressTypeOK' => WrittenBy(editing') \subseteq Addresses
  BY WrittenFew DEF AddressTypeOK
<1> QED
  BY <1>1, <1>2, WrittenIs DEF Prospective

LEMMA AddressInitial == ASSUME AddressInit PROVE AddressInv
<1>1. AddressTypeOK
  BY DEF AddressInit, AddressTypeOK, Address, Edit
<1>2. Kept = {} /\ Written = {}
  BY DEF AddressInit, Kept, Written, Writing, NoEdit
<1>3. Cardinality(Prospective) = 0
  BY <1>2, FS_EmptySet DEF Prospective
<1> QED
  BY <1>1, <1>3, AddressFinite DEF AddressInit, AddressInv, NoEdit

LEMMA AddressInvMeans == ASSUME AddressInv PROVE AddressLimit
<1>1. AddressTypeOK
  BY DEF AddressInv
<1>2. Cardinality(Kept) <= Cardinality(Prospective)
  BY <1>1, ProspectiveIn, AddressesFinite, FS_Subset DEF Prospective
<1> QED
  BY <1>1, <1>2, AddressFinite, ProspectiveIn, AddressesFinite DEF AddressInv, AddressLimit

(* A step that adds nothing to what is kept or written keeps the bound.    *)
LEMMA Shrinks ==
    ASSUME AddressInv, AddressTypeOK', Prospective' \subseteq Prospective
    PROVE  Cardinality(Prospective)' <= MaxAddresses + Cardinality(Editors) - 1
<1>1. Cardinality(Prospective') <= Cardinality(Prospective) /\ IsFiniteSet(Prospective')
  BY ProspectiveIn, AddressesFinite, FS_Subset DEF AddressInv
<1> QED
  BY <1>1, AddressFinite, ProspectiveIn, AddressesFinite DEF AddressInv

LEMMA AddressStep == ASSUME AddressInv, AddressNext PROVE AddressInv'
<1>t. AddressTypeOK /\ NoEdit \in Edit
  BY DEF AddressInv, Edit
<1>0. ASSUME NEW e \in Editors, NEW x \in Edit, editing' = [editing EXCEPT ![e] = x]
      PROVE  editing' \in [Editors -> Edit] /\ \A f \in Editors : editing'[f] = IF f = e THEN x ELSE editing[f]
  BY <1>t, <1>0 DEF AddressTypeOK
<1>u. \A is_default \in BOOLEAN : Undefaulted(is_default) \in [Addresses -> Address]
      /\ \A a \in Addresses : Undefaulted(is_default)[a].state = address[a].state
  BY <1>t DEF Undefaulted, AddressTypeOK, Address
(* A handler that ends has written its address, or deleted it.             *)
<1>1. ASSUME NEW e \in Editors, Closes(e), address' \in [Addresses -> Address],
             \A a \in Addresses : address'[a].state = "live" => a \in Kept \/ (Writing(e) /\ a = editing[e].id)
      PROVE  AddressInv'
  <2>1. AddressTypeOK' /\ \A f \in Editors : editing'[f] = IF f = e THEN NoEdit ELSE editing[f]
    BY <1>t, <1>0, <1>1 DEF Closes, AddressTypeOK
  <2>2. Kept' \subseteq Prospective /\ Written' \subseteq Written
    BY <1>1, <2>1 DEF Kept, Prospective, Written, Writing, NoEdit
  <2>3. Prospective' \subseteq Prospective
    BY <2>2 DEF Prospective
  <2> QED
    BY <2>1, <2>3, Shrinks DEF AddressInv, NoEdit
<1>2. ASSUME NEW e \in Editors, CreateAddress(e) PROVE AddressInv'
  <2>1. editing[e].id \in Addresses /\ editing[e].is_default \in BOOLEAN /\ Writing(e)
    BY <1>t, <1>2 DEF CreateAddress, Writing, AddressTypeOK, Edit, NoEdit
  <2>2. address' \in [Addresses -> Address]
    BY <1>2, <1>u, <2>1 DEF CreateAddress, Address
  <2>3. \A a \in Addresses : a # editing[e].id => address'[a].state = address[a].state
    BY <1>2, <1>u, <2>1 DEF CreateAddress
  <2>4. \A a \in Addresses : address'[a].state = "live" => a \in Kept \/ (Writing(e) /\ a = editing[e].id)
    BY <2>1, <2>3 DEF Kept
  <2> QED
    BY <1>1, <1>2, <2>1, <2>2, <2>4 DEF CreateAddress
<1>3. ASSUME NEW e \in Editors, UpdateAddress(e) PROVE AddressInv'
  <2>1. editing[e].id \in Addresses /\ editing[e].is_default \in BOOLEAN /\ editing[e].row \in Address /\ Writing(e)
    BY <1>t, <1>3 DEF UpdateAddress, Writing, AddressTypeOK, Edit, NoEdit
  <2>2. address' \in [Addresses -> Address]
    BY <1>3, <1>u, <2>1 DEF UpdateAddress
  <2>3. \A a \in Addresses : a # editing[e].id => address'[a].state = address[a].state
    BY <1>3, <1>u, <2>1 DEF UpdateAddress
  <2>4. \A a \in Addresses : address'[a].state = "live" => a \in Kept \/ (Writing(e) /\ a = editing[e].id)
    BY <2>1, <2>3 DEF Kept
  <2> QED
    BY <1>1, <1>3, <2>1, <2>2, <2>4 DEF UpdateAddress
<1>4. ASSUME NEW e \in Editors, DeleteAddress(e) PROVE AddressInv'
  <2>1. editing[e].id \in Addresses
    BY <1>t, <1>4, EditOf DEF DeleteAddress
  <2>2. address' \in [Addresses -> Address]
        /\ \A a \in Addresses : address'[a].state = "live" => address[a].state = "live"
    BY <1>t, <1>4, <2>1 DEF DeleteAddress, AddressTypeOK, Address
  <2>3. \A a \in Addresses : address'[a].state = "live" => a \in Kept \/ (Writing(e) /\ a = editing[e].id)
    BY <2>2 DEF Kept
  <2> QED
    BY <1>1, <1>4, <2>2, <2>3 DEF DeleteAddress
(* A handler begins.                                                       *)
<1>5. ASSUME NEW e \in Editors, NEW a \in Addresses, DeleteAddressBegin(e, a) PROVE AddressInv'
  <2> DEFINE x == [op |-> "delete", id |-> a]
  <2>1. x \in Edit /\ x.op = "delete"
    BY DEF Edit
  <2> HIDE DEF x
  <2>2. editing' = [editing EXCEPT ![e] = x] /\ UNCHANGED address
    BY <1>5 DEF DeleteAddressBegin, Opens, x
  <2>3. AddressTypeOK' /\ \A f \in Editors : editing'[f] = IF f = e THEN x ELSE editing[f]
    BY <1>t, <1>0, <2>1, <2>2 DEF AddressTypeOK
  <2>4. Kept' = Kept /\ Written' \subseteq Written
    BY <2>1, <2>2, <2>3 DEF Kept, Written, Writing
  <2>5. Prospective' \subseteq Prospective
    BY <2>4 DEF Prospective
  <2> QED
    BY <2>1, <2>3, <2>5, Shrinks DEF AddressInv
<1>6. ASSUME NEW e \in Editors, NEW a \in Addresses, NEW sent \in BOOLEAN, NEW b \in BOOLEAN,
             UpdateAddressBegin(e, a, sent, b) PROVE AddressInv'
  <2> DEFINE row == IF sent THEN [address[a] EXCEPT !.is_default = b] ELSE address[a]
             x == [op |-> "update", id |-> a, is_default |-> sent /\ b, row |-> row]
  <2>1. row \in Address /\ row.state = "live"
    BY <1>t, <1>6 DEF UpdateAddressBegin, AddressTypeOK, Address
  <2>2. editing' = [editing EXCEPT ![e] = x] /\ UNCHANGED address /\ a \in Kept
    BY <1>6 DEF UpdateAddressBegin, Opens, Kept
  <2> HIDE DEF row
  <2>3. x \in Edit /\ x.op = "update" /\ x.id = a /\ x.row.state = "live"
    BY <2>1 DEF Edit
  <2> HIDE DEF x
  <2>4. AddressTypeOK' /\ \A f \in Editors : editing'[f] = IF f = e THEN x ELSE editing[f]
    BY <1>t, <1>0, <2>2, <2>3 DEF AddressTypeOK
  <2>5. Kept' = Kept /\ Written' \subseteq Written \cup {a}
    BY <2>2, <2>3, <2>4 DEF Kept, Written, Writing
  <2>6. Prospective' \subseteq Prospective
    BY <2>2, <2>5 DEF Prospective
  <2> QED
    BY <2>3, <2>4, <2>6, Shrinks DEF AddressInv
<1>7. ASSUME NEW e \in Editors, NEW a \in Addresses, NEW b \in BOOLEAN, CreateAddressBegin(e, a, b) PROVE AddressInv'
  <2> DEFINE x == [op |-> "create", id |-> a, is_default |-> b]
  <2>1. x \in Edit /\ x.op = "create"
    BY DEF Edit
  <2> HIDE DEF x
  <2>2. editing' = [editing EXCEPT ![e] = x] /\ UNCHANGED address /\ Room
    BY <1>7 DEF CreateAddressBegin, Opens, x
  <2>3. AddressTypeOK' /\ \A f \in Editors : editing'[f] = IF f = e THEN x ELSE editing[f]
    BY <1>t, <1>0, <2>1, <2>2 DEF AddressTypeOK
  <2>a. Written' \subseteq Addresses /\ Prospective' \subseteq Addresses
        /\ Cardinality(Written') <= Cardinality(Editors)
    BY <2>3, WrittenFew, WrittenIs, ProspectiveIn DEF AddressTypeOK
  <2>4. Kept' = Kept /\ IsFiniteSet(Kept) /\ IsFiniteSet(Written') /\ Cardinality(Kept) \in Nat
        /\ Cardinality(Written') \in Nat
    BY <1>t, <2>2, <2>3, <2>a, AddressesFinite DEF Kept
  <2>5. Cardinality(Kept) <= MaxAddresses - 1
    BY <2>2, <2>4, AddressFinite DEF Room
  <2>6. Cardinality(Written') <= Cardinality(Editors)
    BY <2>a
  <2>7. Cardinality(Prospective') <= Cardinality(Kept) + Cardinality(Written')
    <3>1. Cardinality(Kept \cup Written') = Cardinality(Kept) + Cardinality(Written') - Cardinality(Kept \cap Written')
      BY <2>4, FS_Union
    <3>2. Cardinality(Kept \cap Written') \in Nat /\ Prospective' = Kept \cup Written'
      BY <2>4, FS_Intersection, FS_CardinalityType DEF Prospective
    <3> QED
      BY <3>1, <3>2, <2>4
  <2>8. Cardinality(Prospective') \in Nat
    BY <2>a, AddressesFinite
  <2>9. Cardinality(Prospective)' <= MaxAddresses + Cardinality(Editors) - 1
    BY <2>4, <2>5, <2>6, <2>7, <2>8, AddressFinite
  <2> QED
    BY <2>1, <2>3, <2>9 DEF AddressInv
<1> QED
  BY <1>2, <1>3, <1>4, <1>5, <1>6, <1>7 DEF AddressNext

LEMMA AddressRests == ASSUME AddressInv, UNCHANGED addressVars PROVE AddressInv'
BY DEF AddressInv, AddressTypeOK, Prospective, Kept, Written, Writing, addressVars

-----------------------------------------------------------------------------
(* StoredFiles.  Rows that are stored, or that a transaction has read,     *)
(* share no file; what an open transaction has written is named by none of *)
(* them; and a file that is missing is in the hands of one that is open,   *)
(* or was taken by one that was rolled back.                               *)
Transaction == [task : Tasks, new : SUBSET Files, todo : SUBSET FileRow, held : SUBSET FileRow, cut : SUBSET Files]

InPlay(r) == r \in rows \/ \E w \in Uploaders : r \in tx[w].todo \/ r \in tx[w].held

RowsApart ==
  \A r, s \in FileRow : InPlay(r) /\ InPlay(s) /\ r # s =>
    \A f \in Files : ~(f \in r.files /\ f \in s.files)
RowsIssued == \A r \in FileRow : InPlay(r) => \A f \in r.files : place[f] # "unused"
NewFresh == \A w \in Uploaders : \A f \in tx[w].new :
    /\ place[f] = "stored"
    /\ \A r \in FileRow : InPlay(r) => f \notin r.files
    /\ \A v \in Uploaders : f \in tx[v].new => v = w

InOrder(t) ==
    /\ t.task = "proof" => t.todo = {} /\ t.held = {}
    /\ t.task = "set" /\ t.todo # {} => t.held = {}
    /\ t.task = "save" => t.held = {}
    /\ t.task \in {"save", "set"} => shelf # "documents"
    /\ shelf = "documents" /\ t.task \notin {"proof", "replacing", "other"} => t.new = {}
    /\ \A f \in t.cut : \E r \in t.todo \cup t.held : f \in r.files /\ (r \in t.held \/ shelf = "documents")

LegacyKnown ==
    /\ \A f \in Files : place[f] = "public" => f \in legacy
    /\ \A w \in Uploaders : \A f \in tx[w].cut : place[f] = "stored" => f \in legacy

KeptForReason == shelf = "documents" =>
    \A f \in Files : place[f] \in {"stored", "public"} =>
        f \in left \/ (\E r \in rows : f \in r.files) \/ (\E w \in Uploaders : f \in tx[w].new)

MissingForReason == \A r \in rows : \A f \in r.files :
    \/ place[f] \in {"stored", "public"} \/ f \in undone \/ f \in restored
    \/ \E w \in Uploaders : f \in tx[w].cut

FilesInv ==
    /\ FilesTypeOK /\ upload \in Accepted
    /\ RowsApart /\ RowsIssued /\ NewFresh
    /\ \A w \in Uploaders : InOrder(tx[w])
    /\ LegacyKnown /\ KeptForReason /\ MissingForReason

LEMMA TxTyped ==
    /\ FilesTypeOK <=> /\ rows \subseteq FileRow /\ moving \subseteq FileRow
                       /\ place \in [Files -> {"unused", "stored", "public", "gone"}]
                       /\ upload \in Uploads /\ tx \in [Uploaders -> Transaction]
                       /\ undone \subseteq Files /\ restored \subseteq Files /\ left \subseteq Files
                       /\ legacy \subseteq Files
    /\ NoTx \in Transaction
BY DEF FilesTypeOK, Transaction, NoTx, Tasks

LEMMA TxAfter ==
    ASSUME FilesTypeOK, NEW w \in Uploaders, NEW t \in Transaction, tx' = [tx EXCEPT ![w] = t]
    PROVE  /\ tx' \in [Uploaders -> Transaction]
           /\ \A v \in Uploaders : tx'[v] = IF v = w THEN t ELSE tx[v]
BY TxTyped

LEMMA FilesInitial == ASSUME FilesInit PROVE FilesInv
<1>1. PICK first \in {{}, {1}}, old \in BOOLEAN, proof \in BOOLEAN :
          /\ upload \in Accepted
          /\ legacy = IF old THEN first ELSE {}
          /\ rows = IF first = {} /\ shelf # "photo" THEN {} ELSE {[files |-> first, proof |-> proof]}
          /\ place = [f \in Files |-> IF f \in legacy THEN "public" ELSE IF f \in first THEN "stored" ELSE "unused"]
  BY DEF FilesInit
<1>2. first \in SUBSET Files /\ legacy \subseteq first
  BY <1>1, StoredFilesAssumption DEF StoredFilesAssumption, Files
<1>3. \A w \in Uploaders : tx[w] = NoTx
  BY DEF FilesInit
<1>4. FilesTypeOK
  BY <1>1, <1>2, TxTyped DEF FilesInit, FileRow
<1>5. \A r \in FileRow : InPlay(r) => r \in rows /\ r.files = first
  BY <1>1, <1>3 DEF InPlay, NoTx
<1>6. RowsApart /\ RowsIssued
  BY <1>1, <1>2, <1>5 DEF RowsApart, RowsIssued
<1>7. NewFresh /\ \A w \in Uploaders : InOrder(tx[w])
  BY <1>3 DEF NewFresh, InOrder, NoTx
<1>8. LegacyKnown /\ KeptForReason /\ MissingForReason
  <2>1. \A r \in rows : r.files = first
    BY <1>1
  <2>2. shelf = "documents" /\ first # {} => \E r \in rows : r.files = first
    BY <1>1
  <2>3. \A f \in Files : place[f] = IF f \in legacy THEN "public" ELSE IF f \in first THEN "stored" ELSE "unused"
    BY <1>1
  <2>4. LegacyKnown
    BY <1>3, <2>3 DEF LegacyKnown, NoTx
  <2>5. KeptForReason
    BY <1>2, <2>2, <2>3 DEF KeptForReason
  <2>6. MissingForReason
    BY <1>2, <2>1, <2>3 DEF MissingForReason
  <2> QED
    BY <2>4, <2>5, <2>6
<1> QED
  BY <1>1, <1>4, <1>6, <1>7, <1>8 DEF FilesInv

(* What a download is labelled as is what the bytes are.                   *)
LEMMA LabelsTrue ==
    ASSUME upload \in Accepted, NEW f
    PROVE  document_download(f) \cup attachment_download(f) \subseteq {upload.format, "octet-stream"}
<1> SUFFICES ASSUME shelf \in {"documents", "tickets"} PROVE Served(f) \subseteq {upload.format, "octet-stream"}
  BY DEF document_download, attachment_download
<1>1. upload \in Uploads /\ validate_image_or_pdf(upload)
  BY DEF Accepted
<1>2. upload.extension \in Extensions
  BY <1>1 DEF Uploads
<1>3. \/ upload.extension = ".pdf" /\ upload.format = "PDF"
      \/ upload.extension = ".jpg" /\ upload.format = "JPEG"
      \/ upload.extension = ".png" /\ upload.format = "PNG"
  BY <1>1, <1>2 DEF validate_image_or_pdf, validate_image, IMAGE_FORMATS, Extensions
<1>4. SAFE_CONTENT_TYPES[upload.extension] = upload.format
  BY <1>3 DEF SAFE_CONTENT_TYPES, Extensions
<1> QED
  BY <1>4 DEF Served

LEMMA FilesInvMeans == ASSUME FilesInv PROVE FilesAccounted
<1> SUFFICES ASSUME \A w \in Uploaders : tx[w] = NoTx
             PROVE  /\ shelf = "documents" => Present \subseteq Named \cup left
                    /\ Named \subseteq Present \cup undone \cup restored
                    /\ \A f \in Named : document_download(f) \cup attachment_download(f) \subseteq
                                             {upload.format, "octet-stream"}
  BY DEF FilesAccounted
<1>1. \A w \in Uploaders : tx[w].new = {} /\ tx[w].cut = {}
  BY DEF NoTx
<1>2. shelf = "documents" => Present \subseteq Named \cup left
  BY <1>1 DEF FilesInv, KeptForReason, Present, Named
<1>3. Named \subseteq Present \cup undone \cup restored
  <2>1. Named \subseteq Files
    BY DEF FilesInv, FilesTypeOK, Named, FileRow
  <2> QED
    BY <1>1, <2>1 DEF FilesInv, MissingForReason, Present, Named
<1> QED
  BY <1>2, <1>3, LabelsTrue DEF FilesInv

(* A transaction reads rows, or moves on with those it has.                *)
LEMMA HandsChange ==
    ASSUME FilesInv, NEW w \in Uploaders, NEW t \in Transaction, tx' = [tx EXCEPT ![w] = t],
           UNCHANGED <<shelf, rows, place, upload, legacy, moving, undone, restored, left>>,
           \A r \in t.todo \cup t.held : r \in rows \/ r \in tx[w].todo \/ r \in tx[w].held,
           t.new \subseteq tx[w].new, shelf = "documents" => t.new = tx[w].new,
           t.cut = tx[w].cut, InOrder(t)
    PROVE  FilesInv'
<1>1. tx' \in [Uploaders -> Transaction] /\ \A v \in Uploaders : tx'[v] = IF v = w THEN t ELSE tx[v]
  BY TxAfter DEF FilesInv
<1>2. FilesTypeOK' /\ (upload \in Accepted)'
  BY <1>1, TxTyped DEF FilesInv, FilesTypeOK, Transaction, Accepted
<1>3. \A r \in FileRow : InPlay(r)' => InPlay(r)
  BY <1>1 DEF InPlay
<1>4. RowsApart' /\ RowsIssued'
  BY <1>3 DEF FilesInv, RowsApart, RowsIssued
<1>5. NewFresh'
  BY <1>1, <1>3 DEF FilesInv, NewFresh
<1>6. (\A v \in Uploaders : InOrder(tx[v]))'
  BY <1>1 DEF FilesInv, InOrder
<1>7. LegacyKnown'
  BY <1>1 DEF FilesInv, LegacyKnown
<1>8. KeptForReason'
  BY <1>1 DEF FilesInv, KeptForReason
<1>9. MissingForReason'
  BY <1>1 DEF FilesInv, MissingForReason
<1> QED
  BY <1>2, <1>4, <1>5, <1>6, <1>7, <1>8, <1>9 DEF FilesInv

(* A file in a transaction's hands, or one it deleted, has been written.   *)
LEMMA CutIssued ==
    ASSUME FilesInv, NEW w \in Uploaders, NEW f \in tx[w].cut
    PROVE  place[f] # "unused" /\ f \in Files
<1>1. tx[w] \in Transaction
  BY TxTyped DEF FilesInv
<1>2. PICK r \in tx[w].todo \cup tx[w].held : f \in r.files
  BY DEF FilesInv, InOrder
<1>3. r \in FileRow /\ InPlay(r) /\ f \in Files
  BY <1>1, <1>2 DEF InPlay, Transaction
<1> QED
  BY <1>2, <1>3 DEF FilesInv, RowsIssued

(* A transaction writes files of its own.                                  *)
LEMMA FilesWritten ==
    ASSUME FilesInv, NEW w \in Uploaders, NEW t \in Transaction, tx' = [tx EXCEPT ![w] = t],
           NEW names, WriteFiles(names),
           UNCHANGED <<shelf, rows, upload, legacy, moving, undone, restored, left>>,
           \A r \in t.todo \cup t.held : r \in rows \/ r \in tx[w].todo \/ r \in tx[w].held,
           t.new = names, shelf = "documents" => tx[w].new = {},
           t.cut = tx[w].cut, InOrder(t)
    PROVE  FilesInv'
<1>1. tx' \in [Uploaders -> Transaction] /\ \A v \in Uploaders : tx'[v] = IF v = w THEN t ELSE tx[v]
  BY TxAfter DEF FilesInv
<1>2. /\ \A f \in Files : place'[f] = IF f \in names THEN "stored" ELSE place[f]
      /\ \A f \in names : place[f] = "unused" /\ f \in Files
      /\ place' \in [Files -> {"unused", "stored", "public", "gone"}]
  BY DEF WriteFiles, Issued, FilesInv, FilesTypeOK
<1>3. FilesTypeOK' /\ (upload \in Accepted)'
  BY <1>1, <1>2, TxTyped DEF FilesInv, FilesTypeOK, Transaction, Accepted
<1>4. \A r \in FileRow : InPlay(r)' => InPlay(r)
  BY <1>1 DEF InPlay
<1>5. RowsApart' /\ RowsIssued'
  BY <1>2, <1>4 DEF FilesInv, RowsApart, RowsIssued, FileRow
<1>6. NewFresh'
  <2>1. \A v \in Uploaders : \A f \in tx[v].new : place[f] = "stored" /\ f \in Files /\ f \notin names
    BY <1>2, TxTyped DEF FilesInv, NewFresh, Transaction
  <2>2. \A f \in names : place'[f] = "stored" /\ \A r \in FileRow : InPlay(r) => f \notin r.files
    BY <1>2 DEF FilesInv, RowsIssued
  <2> QED
    BY <1>1, <1>2, <1>4, <2>1, <2>2 DEF FilesInv, NewFresh
<1>7. (\A v \in Uploaders : InOrder(tx[v]))'
  BY <1>1 DEF FilesInv, InOrder
<1>8. LegacyKnown'
  BY <1>1, <1>2, CutIssued DEF FilesInv, LegacyKnown
<1>9. KeptForReason'
  BY <1>1, <1>2 DEF FilesInv, KeptForReason
<1>10. MissingForReason'
  <2>1. \A r \in rows : r \in FileRow /\ \A f \in r.files : f \in Files
    BY DEF FilesInv, FilesTypeOK, FileRow
  <2> QED
    BY <1>1, <1>2, <2>1 DEF FilesInv, MissingForReason
<1> QED
  BY <1>3, <1>5, <1>6, <1>7, <1>8, <1>9, <1>10 DEF FilesInv

(* A transaction deletes the files of a row in its hands.                  *)
LEMMA FilesCut ==
    ASSUME FilesInv, NEW w \in Uploaders, NEW r \in tx[w].todo \cup tx[w].held, Cut(w, r),
           r \in tx[w].held \/ shelf = "documents"
    PROVE  FilesInv'
<1> DEFINE t == [tx[w] EXCEPT !.cut = @ \cup r.files]
<1>0. tx[w] \in Transaction /\ r \in FileRow /\ r.files \subseteq Files /\ InPlay(r)
  BY TxTyped DEF FilesInv, Transaction, InPlay, FileRow
<1>1. /\ t \in Transaction /\ t.cut = tx[w].cut \cup r.files
      /\ t.task = tx[w].task /\ t.new = tx[w].new /\ t.todo = tx[w].todo /\ t.held = tx[w].held
  BY <1>0 DEF Transaction
<1>2. tx' = [tx EXCEPT ![w] = t] /\ UNCHANGED <<shelf, rows, upload, legacy, moving, undone, restored, left>>
  BY DEF Cut
<1> HIDE DEF t
<1>3. tx' \in [Uploaders -> Transaction] /\ \A v \in Uploaders : tx'[v] = IF v = w THEN t ELSE tx[v]
  BY <1>1, <1>2, TxAfter DEF FilesInv
<1>4. /\ \A f \in Files : place'[f] = IF f \in r.files /\ place[f] = "stored" THEN "gone" ELSE place[f]
      /\ place' \in [Files -> {"unused", "stored", "public", "gone"}]
  BY DEF Cut, Erased, FilesInv, FilesTypeOK
<1>5. FilesTypeOK' /\ (upload \in Accepted)'
  BY <1>2, <1>3, <1>4, TxTyped DEF FilesInv, FilesTypeOK, Transaction, Accepted
<1>6. \A q \in FileRow : InPlay(q)' => InPlay(q)
  BY <1>1, <1>2, <1>3 DEF InPlay
<1>7. RowsApart' /\ RowsIssued'
  BY <1>4, <1>6 DEF FilesInv, RowsApart, RowsIssued, FileRow
<1>8. NewFresh'
  <2>1. \A v \in Uploaders : \A f \in tx[v].new : f \notin r.files /\ f \in Files
    BY <1>0, TxTyped DEF FilesInv, NewFresh, Transaction
  <2> QED
    BY <1>1, <1>3, <1>4, <1>6, <2>1 DEF FilesInv, NewFresh
<1>9. (\A v \in Uploaders : InOrder(tx[v]))'
  BY <1>1, <1>2, <1>3 DEF FilesInv, InOrder
<1>10. LegacyKnown'
  BY <1>0, <1>1, <1>2, <1>3, <1>4, CutIssued DEF FilesInv, LegacyKnown
<1>11. KeptForReason'
  BY <1>1, <1>2, <1>3, <1>4 DEF FilesInv, KeptForReason
<1>12. MissingForReason'
  <2>1. \A q \in rows : q \in FileRow /\ \A f \in q.files : f \in Files
    BY DEF FilesInv, FilesTypeOK, FileRow
  <2> QED
    BY <1>1, <1>2, <1>3, <1>4, <2>1 DEF FilesInv, MissingForReason
<1> QED
  BY <1>5, <1>7, <1>8, <1>9, <1>10, <1>11, <1>12 DEF FilesInv

(* A transaction is rolled back; C is what its handler cleans up.          *)
LEMMA RolledBack ==
    ASSUME FilesInv, NEW w \in Uploaders, tx' = [tx EXCEPT ![w] = NoTx],
           NEW C \in SUBSET tx[w].new, place' = Erased(C),
           left \subseteq left', left' \subseteq Files,
           shelf = "documents" => tx[w].new \ C \subseteq left',
           undone' = (undone \cup tx[w].cut) \cap Named,
           UNCHANGED <<shelf, rows, upload, legacy, moving, restored>>
    PROVE  FilesInv'
<1>0. tx[w] \in Transaction /\ C \subseteq Files
  BY TxTyped DEF FilesInv, Transaction
<1>1. tx' \in [Uploaders -> Transaction] /\ \A v \in Uploaders : tx'[v] = IF v = w THEN NoTx ELSE tx[v]
  BY TxTyped, TxAfter DEF FilesInv
<1>2. /\ \A f \in Files : place'[f] = IF f \in C /\ place[f] = "stored" THEN "gone" ELSE place[f]
      /\ place' \in [Files -> {"unused", "stored", "public", "gone"}]
  BY DEF Erased, FilesInv, FilesTypeOK
<1>3. NoTx.new = {} /\ NoTx.todo = {} /\ NoTx.held = {} /\ NoTx.cut = {} /\ NoTx.task = "none"
  BY DEF NoTx
<1>4. FilesTypeOK' /\ (upload \in Accepted)'
  <2>1. undone' \subseteq Files
    BY <1>0 DEF FilesInv, FilesTypeOK, Transaction
  <2> QED
    BY <1>1, <1>2, <2>1, TxTyped DEF FilesInv, FilesTypeOK, Transaction, Accepted
<1>5. \A q \in FileRow : InPlay(q)' => InPlay(q)
  BY <1>1, <1>3 DEF InPlay
<1>6. RowsApart' /\ RowsIssued'
  BY <1>2, <1>5 DEF FilesInv, RowsApart, RowsIssued, FileRow
<1>7. \A q \in rows : q \in FileRow /\ \A f \in q.files : f \in Files /\ f \notin C
  BY DEF FilesInv, FilesTypeOK, FileRow, NewFresh, InPlay
<1>8. NewFresh'
  <2>1. \A v \in Uploaders : \A f \in tx[v].new : f \in Files /\ (v # w => f \notin C)
    BY TxTyped DEF FilesInv, NewFresh, Transaction
  <2> QED
    BY <1>1, <1>2, <1>3, <1>5, <2>1 DEF FilesInv, NewFresh
<1>9. (\A v \in Uploaders : InOrder(tx[v]))'
  BY <1>1, <1>3 DEF FilesInv, InOrder
<1>10. LegacyKnown'
  BY <1>1, <1>2, <1>3, CutIssued DEF FilesInv, LegacyKnown
<1>11. KeptForReason'
  BY <1>0, <1>1, <1>2, <1>3 DEF FilesInv, KeptForReason, NewFresh
<1>12. MissingForReason'
  <2>1. \A q \in rows : \A f \in q.files : f \in undone \/ f \in tx[w].cut => f \in undone'
    BY DEF Named
  <2> QED
    BY <1>1, <1>2, <1>7, <2>1 DEF FilesInv, MissingForReason
<1> QED
  BY <1>4, <1>6, <1>8, <1>9, <1>10, <1>11, <1>12 DEF FilesInv

(* A transaction commits: the rows it dropped go, the row it wrote comes.  *)
LEMMA Committing ==
    ASSUME FilesInv, NEW w \in Uploaders, Commit(w)
    PROVE  FilesInv'
<1> DEFINE t == tx[w]
           written == [files |-> t.new, proof |-> t.task = "replacing"]
<1>0. t \in Transaction /\ written \in FileRow /\ PhotoRow(t.new) \in FileRow /\ PhotoRow(t.new).files = t.new
  BY TxTyped DEF FilesInv, Transaction, FileRow, PhotoRow
<1>1. tx' \in [Uploaders -> Transaction] /\ \A v \in Uploaders : tx'[v] = IF v = w THEN NoTx ELSE tx[v]
  BY TxTyped, TxAfter DEF FilesInv, Commit
<1>2. NoTx.new = {} /\ NoTx.todo = {} /\ NoTx.held = {} /\ NoTx.cut = {} /\ NoTx.task = "none"
  BY DEF NoTx
<1>3. t.todo = {} /\ \A r \in t.held : r.files \subseteq t.cut
  BY DEF Commit, Finished
<1>4. \/ shelf = "photo" /\ rows' = {PhotoRow(t.new)}
      \/ shelf # "photo" /\ t.new # {} /\ rows' = (rows \ t.held) \cup {written}
      \/ shelf # "photo" /\ t.new = {} /\ rows' = rows \ t.held
  BY DEF Commit
<1>5. UNCHANGED <<shelf, place, upload, legacy, moving>>
  BY DEF Commit
<1>6. \A q \in rows' : q \in FileRow /\ (q \in rows \ t.held \/ q.files = t.new)
  BY <1>0, <1>4 DEF FilesInv, FilesTypeOK
<1> HIDE DEF written
<1>7. FilesTypeOK' /\ (upload \in Accepted)'
  <2>1. rows' \subseteq FileRow
    BY <1>6
  <2>2. undone' \subseteq Files /\ restored' \subseteq Files /\ left' \subseteq Files
    BY DEF Commit, FilesInv, FilesTypeOK
  <2> QED
    BY <1>1, <1>5, <2>1, <2>2, TxTyped DEF FilesInv, FilesTypeOK, Transaction, Accepted
<1>8. \A q \in FileRow : InPlay(q)' => InPlay(q) \/ q.files = t.new
  BY <1>1, <1>2, <1>6 DEF InPlay
<1>9. \A f \in t.new : /\ place[f] = "stored" /\ f \in Files
                       /\ \A r \in FileRow : InPlay(r) => f \notin r.files
                       /\ \A v \in Uploaders : f \in tx[v].new => v = w
  BY <1>0 DEF FilesInv, NewFresh, Transaction
<1>10. \A q, r \in FileRow : q.files = t.new /\ r.files = t.new /\ InPlay(q)' /\ InPlay(r)' /\ t.new # {} => q = r
  <2>1. \A q \in FileRow : q.files = t.new /\ t.new # {} => ~InPlay(q)
    BY <1>9
  <2>2. \A q \in FileRow : q.files = t.new /\ t.new # {} /\ InPlay(q)' => q \in rows' /\ q \notin rows
    BY <1>1, <1>2, <2>1 DEF InPlay
  <2> QED
    BY <1>4, <2>2
<1>11. RowsApart'
  <2> SUFFICES ASSUME NEW q \in FileRow, NEW r \in FileRow, InPlay(q)', InPlay(r)', q # r,
                      NEW f \in Files, f \in q.files, f \in r.files
               PROVE  FALSE
    BY DEF RowsApart
  <2>1. CASE InPlay(q) /\ InPlay(r)
    BY <2>1 DEF FilesInv, RowsApart
  <2>2. CASE q.files = t.new /\ r.files = t.new
    BY <1>10, <2>2
  <2>3. CASE InPlay(q) /\ r.files = t.new
    BY <1>9, <2>3
  <2>4. CASE InPlay(r) /\ q.files = t.new
    BY <1>9, <2>4
  <2> QED
    BY <1>8, <2>1, <2>2, <2>3, <2>4
<1>12. RowsIssued'
  BY <1>5, <1>8, <1>9 DEF FilesInv, RowsIssued
<1>13. NewFresh'
  BY <1>1, <1>2, <1>5, <1>8, <1>9 DEF FilesInv, NewFresh
<1>14. (\A v \in Uploaders : InOrder(tx[v]))'
  BY <1>1, <1>2, <1>5 DEF FilesInv, InOrder
<1>15. LegacyKnown'
  BY <1>1, <1>2, <1>5 DEF FilesInv, LegacyKnown
<1>16. KeptForReason'
  <2> SUFFICES ASSUME shelf = "documents", NEW f \in Files, place[f] \in {"stored", "public"}
               PROVE  f \in left' \/ (\E r \in rows' : f \in r.files) \/ (\E v \in Uploaders : f \in tx'[v].new)
    BY <1>5 DEF KeptForReason
  <2>1. left \subseteq left'
    BY DEF Commit
  <2>2. CASE f \in t.new
    BY <1>0, <1>4, <2>2 DEF written
  <2>3. ASSUME NEW r \in rows, f \in r.files, r \in t.held PROVE f \in left'
    <3>1. f \in t.cut
      BY <1>3, <2>3
    <3>2. f \in legacy
      BY <3>1 DEF FilesInv, LegacyKnown
    <3> QED
      BY <2>3, <3>2 DEF Commit, Present
  <2>4. ASSUME NEW r \in rows, f \in r.files, r \notin t.held PROVE \E q \in rows' : f \in q.files
    BY <1>4, <2>4
  <2>5. ASSUME NEW v \in Uploaders, f \in tx[v].new, v # w PROVE \E u \in Uploaders : f \in tx'[u].new
    BY <1>1, <2>5
  <2> QED
    BY <2>1, <2>2, <2>3, <2>4, <2>5 DEF FilesInv, KeptForReason
<1>17. MissingForReason'
  <2> SUFFICES ASSUME NEW q \in rows', NEW f \in q.files
               PROVE  \/ place[f] \in {"stored", "public"} \/ f \in undone' \/ f \in restored'
                      \/ \E v \in Uploaders : f \in tx'[v].cut
    BY <1>5 DEF MissingForReason
  <2>1. CASE q.files = t.new
    BY <1>9, <2>1
  <2>2. CASE q \in rows /\ q \notin t.held
    <3>1. f \in undone \/ f \in restored => f \in undone' \/ f \in restored'
      BY DEF Commit
    <3>2. f \notin t.cut
      <4> SUFFICES ASSUME f \in t.cut PROVE FALSE
        OBVIOUS
      <4>1. PICK r \in t.held : f \in r.files
        BY <1>3 DEF FilesInv, InOrder
      <4>2. r \in FileRow /\ q \in FileRow /\ f \in Files /\ InPlay(r) /\ InPlay(q) /\ r # q
        BY <1>0, <1>6, <2>2, <4>1 DEF InPlay, Transaction, FileRow
      <4> QED
        BY <4>1, <4>2 DEF FilesInv, RowsApart
    <3> QED
      BY <1>1, <2>2, <3>1, <3>2 DEF FilesInv, MissingForReason
  <2> QED
    BY <1>6, <2>1, <2>2
<1> QED
  BY <1>7, <1>11, <1>12, <1>13, <1>14, <1>15, <1>16, <1>17 DEF FilesInv

(* A form saves the copy of the row it read.                               *)
LEMMA FormSaved ==
    ASSUME FilesInv, NEW w \in Uploaders, SaveForm(w)
    PROVE  FilesInv'
<1>0. tx[w] \in Transaction /\ tx[w].held = {} /\ shelf # "documents"
  BY TxTyped DEF FilesInv, InOrder, SaveForm
<1>1. tx' \in [Uploaders -> Transaction] /\ \A v \in Uploaders : tx'[v] = IF v = w THEN NoTx ELSE tx[v]
  BY TxTyped, TxAfter DEF FilesInv, SaveForm
<1>2. NoTx.new = {} /\ NoTx.todo = {} /\ NoTx.held = {} /\ NoTx.cut = {} /\ NoTx.task = "none"
  BY DEF NoTx
<1>3. tx[w].cut = {}
  BY <1>0 DEF FilesInv, InOrder
<1>4. PICK r \in tx[w].todo : (rows' = {r} \/ rows' = rows \cup {r}) /\ restored' = restored \cup (r.files \ Named)
  BY DEF SaveForm
<1>5. UNCHANGED <<shelf, place, upload, legacy, moving, undone, left>>
  BY DEF SaveForm
<1>6. r \in FileRow /\ r.files \subseteq Files /\ InPlay(r)
  BY <1>0 DEF Transaction, FileRow, InPlay
<1>7. FilesTypeOK' /\ (upload \in Accepted)'
  <2>1. rows' \subseteq FileRow /\ restored' \subseteq Files
    BY <1>4, <1>6 DEF FilesInv, FilesTypeOK
  <2> QED
    BY <1>1, <1>5, <2>1, TxTyped DEF FilesInv, FilesTypeOK, Transaction, Accepted
<1>8. \A q \in FileRow : InPlay(q)' => InPlay(q)
  BY <1>1, <1>2, <1>4, <1>6 DEF InPlay
<1>9. RowsApart' /\ RowsIssued' /\ NewFresh'
  BY <1>1, <1>2, <1>5, <1>8 DEF FilesInv, RowsApart, RowsIssued, NewFresh
<1>10. (\A v \in Uploaders : InOrder(tx[v]))' /\ LegacyKnown' /\ KeptForReason'
  BY <1>0, <1>1, <1>2, <1>5 DEF FilesInv, InOrder, LegacyKnown, KeptForReason
<1>11. MissingForReason'
  <2> SUFFICES ASSUME NEW q \in rows', NEW f \in q.files
               PROVE  \/ place[f] \in {"stored", "public"} \/ f \in undone \/ f \in restored'
                      \/ \E v \in Uploaders : f \in tx'[v].cut
    BY <1>5 DEF MissingForReason
  <2>1. CASE f \in Named
    <3>1. PICK s \in rows : f \in s.files
      BY <2>1 DEF Named
    <3> QED
      BY <1>1, <1>3, <1>4, <3>1 DEF FilesInv, MissingForReason
  <2>2. CASE f \notin Named
    BY <1>4, <2>2 DEF Named
  <2> QED
    BY <2>1, <2>2
<1> QED
  BY <1>7, <1>9, <1>10, <1>11 DEF FilesInv

LEMMA FileMoved ==
    ASSUME FilesInv, MoveFile
    PROVE  FilesInv'
<1>1. UNCHANGED <<shelf, rows, upload, legacy, tx, undone, restored>> /\ moving' = {}
  BY DEF MoveFile
<1>2. PICK r \in moving : LET public == {f \in r.files : place[f] = "public"} IN
          /\ place' = [f \in Files |-> IF f \in public THEN "stored" ELSE place[f]]
          /\ left' = IF r \in rows THEN left ELSE left \cup public
  BY DEF MoveFile
<1>3. /\ \A f \in Files : \/ place'[f] = place[f]
                          \/ place[f] = "public" /\ place'[f] = "stored"
      /\ place' \in [Files -> {"unused", "stored", "public", "gone"}]
      /\ left \subseteq left' /\ left' \subseteq Files
  BY <1>2 DEF FilesInv, FilesTypeOK, FileRow
<1>4. FilesTypeOK' /\ (upload \in Accepted)'
  BY <1>1, <1>3, TxTyped DEF FilesInv, FilesTypeOK, Accepted
<1>5. RowsApart' /\ (\A v \in Uploaders : InOrder(tx[v]))'
  BY <1>1 DEF FilesInv, RowsApart, InPlay, InOrder
<1>6. RowsIssued'
  BY <1>1, <1>3 DEF FilesInv, RowsIssued, InPlay, FileRow
<1>7. NewFresh'
  <2>1. \A v \in Uploaders : \A f \in tx[v].new : f \in Files
    BY TxTyped DEF FilesInv, Transaction
  <2> QED
    BY <1>1, <1>3, <2>1 DEF FilesInv, NewFresh, InPlay
<1>8. LegacyKnown'
  BY <1>1, <1>3, CutIssued DEF FilesInv, LegacyKnown
<1>9. KeptForReason'
  BY <1>1, <1>3 DEF FilesInv, KeptForReason
<1>10. MissingForReason'
  <2>1. \A q \in rows : \A f \in q.files : f \in Files
    BY DEF FilesInv, FilesTypeOK, FileRow
  <2> QED
    BY <1>1, <1>3, <2>1 DEF FilesInv, MissingForReason
<1> QED
  BY <1>4, <1>5, <1>6, <1>7, <1>8, <1>9, <1>10 DEF FilesInv

LEMMA FilesStep == ASSUME FilesInv, FilesNext PROVE FilesInv'
<1>t. \A w \in Uploaders : tx[w] \in Transaction /\ InOrder(tx[w])
  BY TxTyped DEF FilesInv
<1>n. /\ NoTx \in Transaction /\ NoTx.new = {} /\ NoTx.todo = {} /\ NoTx.held = {} /\ NoTx.cut = {}
      /\ rows \subseteq FileRow
  BY TxTyped DEF NoTx, FilesInv
(* A handler begins to work on rows it has read.                           *)
<1>1. ASSUME NEW w \in Uploaders, NEW begins, NEW todo \in SUBSET rows, Open(w, begins, todo), begins \in Tasks,
             begins \in {"save", "set"} => shelf # "documents", begins # "proof",
             UNCHANGED <<shelf, rows, place, upload, legacy, moving, undone, restored, left>>
      PROVE  FilesInv'
  <2> DEFINE t == [NoTx EXCEPT !.task = begins, !.todo = todo]
  <2>1. /\ t \in Transaction /\ t.task = begins /\ t.todo = todo /\ t.new = {} /\ t.held = {} /\ t.cut = {}
    BY <1>1, <1>n DEF NoTx, Transaction
  <2>2. tx[w] = NoTx /\ tx' = [tx EXCEPT ![w] = t]
    BY <1>1 DEF Open, FilesInv, FilesTypeOK
  <2> HIDE DEF t
  <2>3. InOrder(t)
    BY <1>1, <2>1 DEF InOrder
  <2> QED
    BY <1>1, <1>n, <2>1, <2>2, <2>3, HandsChange
<1>2. ASSUME NEW w \in Uploaders, NEW names, NEW begins \in {"proof", "other", "add"}, tx[w] = NoTx,
             WriteFiles(names),
             tx' = [tx EXCEPT ![w] = [NoTx EXCEPT !.task = begins, !.new = names]],
             begins = "add" => shelf # "documents",
             UNCHANGED <<shelf, rows, upload, legacy, moving, undone, restored, left>>
      PROVE  FilesInv'
  <2> DEFINE t == [NoTx EXCEPT !.task = begins, !.new = names]
  <2>1. t \in Transaction /\ t.task = begins /\ t.new = names /\ t.todo = {} /\ t.held = {} /\ t.cut = {}
    BY <1>2 DEF NoTx, Transaction, Tasks, WriteFiles
  <2>2. tx' = [tx EXCEPT ![w] = t]
    BY <1>2
  <2> HIDE DEF t
  <2>3. InOrder(t)
    BY <1>2, <2>1 DEF InOrder
  <2> QED
    BY <1>2, <1>n, <2>1, <2>2, <2>3, FilesWritten
<1>3. ASSUME NEW w \in Uploaders, NEW names \in Batches, NEW id_type \in ID_TYPES \cup {"none"},
             UploadDocument(w, names, id_type)
      PROVE  FilesInv'
  <2>1. CASE id_type \in ID_TYPES
    BY <1>2, <1>3, <2>1 DEF UploadDocument
  <2>2. CASE id_type \notin ID_TYPES
    BY <1>2, <1>3, <2>2 DEF UploadDocument
  <2> QED
    BY <2>1, <2>2
<1>4. ASSUME NEW w \in Uploaders, NEW f \in Files, AddItem(w, f) PROVE FilesInv'
  BY <1>2, <1>4 DEF AddItem
<1>5. ASSUME NEW w \in Uploaders, NEW names \in Batches, AttachFiles(w, names) PROVE FilesInv'
  BY <1>2, <1>5 DEF AttachFiles
<1>6. ASSUME NEW w \in Uploaders, NEW r \in rows, ReadToDelete(w, r) PROVE FilesInv'
  BY <1>1, <1>6 DEF ReadToDelete, Tasks
<1>7. ASSUME NEW w \in Uploaders, NEW r \in rows, ReadForm(w, r) PROVE FilesInv'
  BY <1>1, <1>7 DEF ReadForm, Tasks
<1>8. ASSUME NEW w \in Uploaders, ReadPhoto(w) PROVE FilesInv'
  BY <1>1, <1>8 DEF ReadPhoto, Tasks
<1>9. ASSUME NEW w \in Uploaders, replace_id_proofs(w) PROVE FilesInv'
  <2> DEFINE old == {r \in rows : r.proof}
             t == [tx[w] EXCEPT !.task = "replacing", !.todo = old]
  <2>1. /\ t \in Transaction /\ t.task = "replacing" /\ t.todo = old /\ t.new = tx[w].new
        /\ t.held = tx[w].held /\ t.cut = tx[w].cut
    BY <1>t, <1>n DEF Transaction, Tasks
  <2>2. tx' = [tx EXCEPT ![w] = t]
    BY <1>9, <1>t DEF replace_id_proofs, FilesInv, FilesTypeOK
  <2>3. tx[w].held = {} /\ tx[w].todo = {} /\ tx[w].cut = {}
    BY <1>9, <1>t DEF replace_id_proofs, InOrder
  <2> HIDE DEF t
  <2>4. InOrder(t)
    BY <2>1, <2>3 DEF InOrder
  <2> QED
    BY <1>9, <2>1, <2>2, <2>3, <2>4, HandsChange DEF replace_id_proofs
<1>10. ASSUME NEW w \in Uploaders, NEW r \in tx[w].todo \cup tx[w].held,
              _delete_with_files(w, r) \/ DeleteReplaced(w, r)
       PROVE  FilesInv'
  BY <1>10, FilesCut DEF _delete_with_files, DeleteReplaced
<1>11. ASSUME NEW w \in Uploaders, NEW r \in tx[w].todo \cup tx[w].held, DropRow(w, r) PROVE FilesInv'
  <2> DEFINE t == [tx[w] EXCEPT !.todo = @ \ {r}, !.held = @ \cup {r}]
  <2>1. /\ t \in Transaction /\ t.task = tx[w].task /\ t.todo = tx[w].todo \ {r} /\ t.new = tx[w].new
        /\ t.held = tx[w].held \cup {r} /\ t.cut = tx[w].cut
    BY <1>t DEF Transaction
  <2>2. tx' = [tx EXCEPT ![w] = t]
    BY <1>11, <1>t DEF DropRow, FilesInv, FilesTypeOK
  <2> HIDE DEF t
  <2>3. InOrder(t)
    BY <1>11, <1>t, <2>1 DEF InOrder, DropRow
  <2> QED
    BY <1>11, <2>1, <2>2, <2>3, HandsChange DEF DropRow
<1>12. ASSUME NEW w \in Uploaders, NEW r \in tx[w].todo \cup tx[w].held, NEW names \in SUBSET Files,
              WritePhoto(w, r, names), (names = {} /\ UNCHANGED place) \/ WriteFiles(names)
       PROVE  FilesInv'
  <2> DEFINE t == [tx[w] EXCEPT !.todo = {}, !.held = {r}, !.new = names]
  <2>1. /\ t \in Transaction /\ t.task = tx[w].task /\ t.todo = {} /\ t.new = names
        /\ t.held = {r} /\ t.cut = tx[w].cut
    BY <1>t DEF Transaction
  <2>2. tx' = [tx EXCEPT ![w] = t]
    BY <1>12, <1>t DEF WritePhoto, FilesInv, FilesTypeOK
  <2>3. tx[w].held = {} /\ shelf # "documents"
    BY <1>12, <1>t DEF WritePhoto, InOrder
  <2> HIDE DEF t
  <2>4. InOrder(t)
    BY <1>12, <1>t, <2>1, <2>3 DEF InOrder, WritePhoto
  <2>5. CASE names = {} /\ UNCHANGED place
    BY <1>12, <2>1, <2>2, <2>3, <2>4, <2>5, HandsChange DEF WritePhoto
  <2>6. CASE WriteFiles(names)
    BY <1>12, <2>1, <2>2, <2>3, <2>4, <2>6, FilesWritten DEF WritePhoto
  <2> QED
    BY <1>12, <2>5, <2>6
<1>13. ASSUME NEW w \in Uploaders, NEW r \in tx[w].todo \cup tx[w].held, remove_photo(w, r) PROVE FilesInv'
  <2>1. {} \in SUBSET Files /\ WritePhoto(w, r, {}) /\ UNCHANGED place
    BY <1>13 DEF remove_photo
  <2> QED
    BY <1>12, <2>1
<1>14. ASSUME NEW w \in Uploaders, NEW r \in tx[w].todo \cup tx[w].held, NEW f \in Files,
              set_photos(w, r, f)
       PROVE  FilesInv'
  <2>1. {f} \in SUBSET Files /\ WritePhoto(w, r, {f}) /\ WriteFiles({f})
    BY <1>14 DEF set_photos
  <2> QED
    BY <1>12, <2>1
<1>15. ASSUME NEW w \in Uploaders, Fail(w) PROVE FilesInv'
  <2>1. CleanedUp(w) \in SUBSET tx[w].new /\ (shelf = "documents" => tx[w].new \ CleanedUp(w) = {})
    BY <1>t DEF CleanedUp, InOrder
  <2>2. left \subseteq left' /\ left' \subseteq Files
    BY <1>15, <1>t DEF Fail, FilesInv, FilesTypeOK, Transaction
  <2> QED
    BY <1>15, <2>1, <2>2, RolledBack DEF Fail
<1>16. ASSUME NEW w \in Uploaders, Die(w) PROVE FilesInv'
  <2>1. place' = Erased({})
    BY <1>16 DEF Die, Erased, FilesInv, FilesTypeOK
  <2>2. left \subseteq left' /\ left' \subseteq Files /\ tx[w].new \subseteq left'
    BY <1>16, <1>t DEF Die, FilesInv, FilesTypeOK, Transaction
  <2> QED
    BY <1>16, <2>1, <2>2, RolledBack DEF Die
<1>17. ASSUME NEW r \in rows, ReadToMove(r) PROVE FilesInv'
  BY <1>17 DEF ReadToMove, FilesInv, FilesTypeOK, Accepted, RowsApart, RowsIssued, NewFresh, InPlay, InOrder,
     LegacyKnown, KeptForReason, MissingForReason
<1> QED
  BY <1>3, <1>4, <1>5, <1>6, <1>7, <1>8, <1>9, <1>10, <1>11, <1>13, <1>14, <1>15, <1>16, <1>17,
     FormSaved, Committing, FileMoved DEF FilesNext

LEMMA FilesRest == ASSUME FilesInv, UNCHANGED fileVars PROVE FilesInv'
BY DEF fileVars, FilesInv, FilesTypeOK, Accepted, RowsApart, RowsIssued, NewFresh, InPlay, InOrder,
   LegacyKnown, KeptForReason, MissingForReason

-----------------------------------------------------------------------------
(* Listing.  The order of a listing compares the keys of two contents one      *)
(* after the other; a falling column is compared by its negation.          *)
Column == [by : {"created", "value", "id"}, falling : BOOLEAN]

Key(contents, order) ==
    [r \in Ids |-> [i \in DOMAIN order |->
        IF order[i].falling THEN -Cell(contents, r, order[i].by) ELSE Cell(contents, r, order[i].by)]]

Lex(n, x, y) == \E i \in 1..n : (\A j \in 1..i - 1 : x[j] = y[j]) /\ x[i] < y[i]

LEMMA LexOrder ==
    ASSUME NEW n \in Nat, NEW x \in [1..n -> Int], NEW y \in [1..n -> Int], NEW z \in [1..n -> Int]
    PROVE  /\ ~Lex(n, x, x)
           /\ Lex(n, x, y) /\ Lex(n, y, z) => Lex(n, x, z)
<1>1. ~Lex(n, x, x)
  BY DEF Lex
<1>2. ASSUME NEW i \in 1..n, \A j \in 1..i - 1 : x[j] = y[j], x[i] < y[i],
             NEW k \in 1..n, \A j \in 1..k - 1 : y[j] = z[j], y[k] < z[k]
      PROVE  Lex(n, x, z)
  <2>1. CASE i <= k
    <3>1. (\A j \in 1..i - 1 : x[j] = z[j]) /\ x[i] < z[i]
      BY <1>2, <2>1
    <3> QED
      BY <3>1 DEF Lex
  <2>2. CASE k < i
    <3>1. (\A j \in 1..k - 1 : x[j] = z[j]) /\ x[k] < z[k]
      BY <1>2, <2>2
    <3> QED
      BY <3>1 DEF Lex
  <2> QED
    BY <2>1, <2>2
<1> QED
  BY <1>1, <1>2 DEF Lex

(* The contents of S before r.                                                 *)
GoingBefore(n, key, S, r) == {s \in S : Lex(n, key[s], key[r])}
Rank(n, key, S, r) == Cardinality(GoingBefore(n, key, S, r))

LEMMA IdsFinite ==
    ASSUME NEW S \in SUBSET Ids
    PROVE  IsFiniteSet(S) /\ Cardinality(S) \in Nat
<1>1. IsFiniteSet(Ids)
  BY ListingAssumption, FS_Interval DEF Ids, ListingAssumption
<1> QED
  BY <1>1, FS_Subset, FS_CardinalityType

LEMMA RankLess ==
    ASSUME NEW n \in Nat, NEW key \in [Ids -> [1..n -> Int]], NEW S \in SUBSET Ids,
           NEW r \in Ids
    PROVE  /\ Rank(n, key, S, r) \in Nat
           /\ r \in S => Rank(n, key, S, r) < Cardinality(S)
           /\ \A s \in S : Lex(n, key[s], key[r]) => Rank(n, key, S, s) < Rank(n, key, S, r)
<1> DEFINE A(s) == GoingBefore(n, key, S, s)
<1>1. ASSUME NEW s \in Ids PROVE IsFiniteSet(A(s)) /\ Cardinality(A(s)) \in Nat /\ A(s) \subseteq S /\ s \notin A(s)
  <2>1. A(s) \subseteq S /\ s \notin A(s)
    <3>1. key[s] \in [1..n -> Int]
      OBVIOUS
    <3>2. ~Lex(n, key[s], key[s])
      BY <3>1, LexOrder
    <3> QED
      BY <3>2 DEF GoingBefore
  <2> QED
    BY <2>1, IdsFinite
<1>2. ASSUME NEW T \in SUBSET Ids, NEW s \in Ids, A(s) \subseteq T, NEW t \in T, t \notin A(s)
      PROVE  Cardinality(A(s)) < Cardinality(T)
  <2>1. IsFiniteSet(T) /\ Cardinality(T) \in Nat /\ Cardinality(A(s)) \in Nat /\ A(s) # T
    BY <1>1, <1>2, IdsFinite
  <2> DEFINE a == A(s)
  <2>2. a \in SUBSET T /\ a # T
    BY <1>2, <2>1
  <2>3. Cardinality(a) \in Nat
    BY <2>1
  <2> HIDE DEF a
  <2>4. Cardinality(a) <= Cardinality(T) /\ (Cardinality(T) = Cardinality(a) => T = a)
    BY <2>1, <2>2, FS_Subset
  <2>5. Cardinality(a) < Cardinality(T)
    BY <2>1, <2>2, <2>3, <2>4
  <2> QED
    BY <2>5 DEF a
<1>3. r \in S => Rank(n, key, S, r) < Cardinality(S)
  BY <1>1, <1>2 DEF Rank
<1>4. ASSUME NEW s \in S, Lex(n, key[s], key[r]) PROVE Cardinality(A(s)) < Cardinality(A(r))
  <2>1. s \in A(r) /\ s \notin A(s) /\ A(r) \in SUBSET Ids
    BY <1>1, <1>4 DEF GoingBefore
  <2>2. A(s) \subseteq A(r)
    BY <1>4, LexOrder DEF GoingBefore
  <2> QED
    BY <1>2, <2>1, <2>2
<1> QED
  BY <1>1, <1>3, <1>4 DEF Rank

Slipping(n, key, after, S, T, M, k) ==
    {r \in M : Rank(n, after, T, r) < k /\ k <= Rank(n, key, S, r)}

(* When the contents of Gone leave S or move in it, and the keys of the others *)
(* stay, no more contents than these slip below a rank.                        *)
LEMMA FewSlip ==
    ASSUME NEW n \in Nat, NEW key \in [Ids -> [1..n -> Int]], NEW after \in [Ids -> [1..n -> Int]],
           NEW S \in SUBSET Ids, NEW T \in SUBSET Ids, NEW Gone \in SUBSET S, S \ Gone \subseteq T,
           \A r \in S \ Gone : after[r] = key[r],
           NEW M \in SUBSET (S \ Gone),
           \A r, s \in M : r # s => Lex(n, key[r], key[s]) \/ Lex(n, key[s], key[r]),
           NEW k \in Nat
    PROVE  Cardinality(Slipping(n, key, after, S, T, M, k)) <= Cardinality(Gone)
<1> DEFINE Slipped == {r \in M : Rank(n, after, T, r) < k /\ k <= Rank(n, key, S, r)}
           g == Cardinality(Gone)
           rank == [r \in Slipped |-> Rank(n, key, S, r)]
<1>g. g \in Nat /\ IsFiniteSet(Gone)
  BY IdsFinite
<1>1. ASSUME NEW r \in M PROVE Rank(n, key, S, r) <= Rank(n, after, T, r) + g
  <2> DEFINE A == GoingBefore(n, key, S, r)
             B == GoingBefore(n, after, T, r)
  <2>1. A \subseteq B \cup Gone
    BY DEF GoingBefore
  <2>2. IsFiniteSet(A) /\ IsFiniteSet(B) /\ Cardinality(A) \in Nat /\ Cardinality(B) \in Nat
        /\ Cardinality(B \cap Gone) \in Nat
    BY IdsFinite DEF GoingBefore
  <2>3. IsFiniteSet(B \cup Gone) /\ Cardinality(B \cup Gone) = Cardinality(B) + g - Cardinality(B \cap Gone)
    BY <1>g, <2>2, FS_Union
  <2>4. Cardinality(A) <= Cardinality(B \cup Gone)
    BY <2>1, <2>2, <2>3, FS_Subset
  <2> HIDE DEF A, B
  <2>5. Cardinality(A) <= Cardinality(B) + g
    BY <1>g, <2>2, <2>3, <2>4
  <2> QED
    BY <2>5 DEF Rank, A, B
<1>2. ASSUME NEW r \in Slipped PROVE Rank(n, key, S, r) \in k..k + g - 1
  <2>1. Rank(n, key, S, r) \in Nat /\ Rank(n, after, T, r) \in Nat /\ r \in M
    BY RankLess
  <2>2. Rank(n, after, T, r) < k /\ k <= Rank(n, key, S, r) /\ Rank(n, key, S, r) <= Rank(n, after, T, r) + g
    BY <1>1, <2>1
  <2> QED
    BY <1>g, <2>1, <2>2
<1>3. rank \in Injection(Slipped, k..k + g - 1)
  <2>1. rank \in [Slipped -> k..k + g - 1]
    BY <1>2
  <2>2. ASSUME NEW r \in Slipped, NEW s \in Slipped, r # s PROVE rank[r] # rank[s]
    <3>1. Rank(n, key, S, r) \in Nat /\ Rank(n, key, S, s) \in Nat /\ r \in S /\ s \in S
      BY RankLess
    <3>2. Rank(n, key, S, r) < Rank(n, key, S, s) \/ Rank(n, key, S, s) < Rank(n, key, S, r)
      BY <2>2, RankLess
    <3> QED
      BY <3>1, <3>2
  <2> HIDE DEF rank, Slipped
  <2> QED
    BY <2>1, <2>2 DEF Injection, IsInjective
<1>4. IsFiniteSet(k..k + g - 1) /\ Cardinality(k..k + g - 1) = g
  <2>1. k \in Int /\ k + g - 1 \in Int
    BY <1>g
  <2>2. IsFiniteSet(k..k + g - 1) /\ Cardinality(k..k + g - 1) = IF k > k + g - 1 THEN 0 ELSE (k + g - 1) - k + 1
    BY <2>1, FS_Interval
  <2> QED
    BY <1>g, <2>2
<1> QED
  BY <1>3, <1>4, FS_Injection DEF Slipping

(* Every order a listing may be asked for is a sequence of columns.        *)
LEMMA OrdersOf ==
    ASSUME NEW listing \in Listings
    PROVE  /\ listing.order \in Seq(Column)
           /\ listing.some \in BOOLEAN /\ listing.paged \in BOOLEAN
<1> DEFINE Orders == Seq(Column)
           Listed == [order : Orders, some : BOOLEAN, paged : BOOLEAN]
<1>1. \A column \in {"created", "value", "id"} : Asc(column) \in Column /\ Desc(column) \in Column
  BY DEF Asc, Desc, Column
<1>2. \A x, y \in Column : <<>> \in Orders /\ <<x>> \in Orders /\ <<x, y>> \in Orders
  OBVIOUS
<1>3. \A column \in {"created", "value", "id"} : Either(column) \subseteq Column
  BY <1>1 DEF Either
<1>4. \A order \in Orders : Sorted(order) \subseteq Orders /\ Always(order) \subseteq Orders
  BY <1>2, <1>3 DEF Sorted, Always
<1> HIDE DEF Orders
<1>5. /\ CustomerAddress_get_all \subseteq Orders /\ ArtistDocument_get_all \subseteq Orders
      /\ PricingPackage_get_all \subseteq Orders /\ ArtistProfile_get_review_queue \subseteq Orders
      /\ ServiceSubCategory_get_all \subseteq Orders /\ ServiceCategory_get_all \subseteq Orders
      /\ LocationType_get_all \subseteq Orders /\ ArtistServiceOffering_get_all \subseteq Orders
      /\ ArtistLocationPreference_get_all \subseteq Orders /\ ArtistAvailabilityBlock_get_all \subseteq Orders
      /\ ArtistAvailabilitySchedule_get_all \subseteq Orders
  BY <1>1, <1>2, <1>4 DEF CustomerAddress_get_all, ArtistDocument_get_all, PricingPackage_get_all,
     ArtistProfile_get_review_queue, ServiceSubCategory_get_all, ServiceCategory_get_all, LocationType_get_all,
     ArtistServiceOffering_get_all, ArtistLocationPreference_get_all, ArtistAvailabilityBlock_get_all,
     ArtistAvailabilitySchedule_get_all
<1>6. /\ Booking_get_all \subseteq Orders /\ Review_get_all \subseteq Orders
      /\ CoinTransaction_get_all \subseteq Orders /\ Notification_get_all \subseteq Orders
      /\ Payment_get_all \subseteq Orders /\ SupportConversation_get_all \subseteq Orders
      /\ BookingReschedule_get_all \subseteq Orders /\ PackageAddOn_get_all \subseteq Orders
      /\ Portfolio_get_all \subseteq Orders /\ ArtistSpeciality_get_all \subseteq Orders
      /\ ArtistServiceArea_get_all \subseteq Orders
  BY <1>1, <1>2, <1>4 DEF Booking_get_all, Review_get_all, CoinTransaction_get_all, Notification_get_all,
     Payment_get_all, SupportConversation_get_all, BookingReschedule_get_all, PackageAddOn_get_all,
     Portfolio_get_all, ArtistSpeciality_get_all, ArtistServiceArea_get_all
<1>7. \A x \in {"created", "value", "id"} : \A o \in Either(x) : o \in Column
  BY <1>3
<1>8. /\ ArtistReviewFeedback_get_all \subseteq Orders /\ Message_get_all \subseteq Orders
      /\ SupportMessage_get_all \subseteq Orders
      /\ {<<o, Asc("id")>> : o \in Either("value")} \subseteq Orders
      /\ {<<o, Desc("id")>> : o \in Either("created")} \subseteq Orders
  <2>1. /\ \A o \in Either("created"), p \in Either("id") : <<o, p>> \in Orders
        /\ \A o \in Either("created") \cup Either("value") :
              <<o, Asc("id")>> \in Orders /\ <<o, Desc("id")>> \in Orders
    BY <1>1, <1>2, <1>7
  <2>2. ArtistReviewFeedback_get_all \subseteq Orders
    BY <2>1 DEF ArtistReviewFeedback_get_all
  <2>3. Message_get_all \subseteq Orders /\ SupportMessage_get_all \subseteq Orders
    BY <2>1 DEF Message_get_all, SupportMessage_get_all
  <2>4. {<<o, Asc("id")>> : o \in Either("value")} \subseteq Orders
    BY <2>1
  <2>5. {<<o, Desc("id")>> : o \in Either("created")} \subseteq Orders
    BY <2>1
  <2> QED
    BY <2>2, <2>3, <2>4, <2>5
<1>9. /\ Always(<<Desc("created"), Desc("id")>>) \subseteq Orders /\ Always(<<Desc("created")>>) \subseteq Orders
      /\ Always(<<Asc("created"), Asc("id")>>) \subseteq Orders
      /\ Always(<<Asc("value"), Asc("id")>>) \subseteq Orders
  BY <1>1, <1>2, <1>4
<1>10. \A orders \in SUBSET Orders : Of(orders) \subseteq Listed /\ Every(orders) \subseteq Listed
       /\ Whole(orders) \subseteq Listed
  BY DEF Of, Every, Whole
<1> HIDE DEF Listed
<1>11. UNION {CustomerAddresses, CustomerBookings, CustomerReviews, CustomerPayments, CustomerCoins,
              Reschedules, Notifications, ChatMessages, ArtistBookings, ArtistReviews, ArtistClients,
              ArtistCustomerReviews} \subseteq Listed
  BY <1>5, <1>6, <1>8, <1>9, <1>10 DEF CustomerAddresses, CustomerBookings, CustomerReviews, CustomerPayments,
     CustomerCoins, Reschedules, Notifications, ChatMessages, ArtistBookings, ArtistReviews, ArtistClients,
     ArtistCustomerReviews
<1>12. UNION {ArtistDocuments, ArtistPackages, ArtistAddOns, ArtistPortfolio, ArtistBrandRequests, ArtistFeedback,
              ArtistServices, ArtistLocations, ArtistSpecialities, ArtistServiceAreas, ArtistSchedules,
              ArtistBlocks} \subseteq Listed
  BY <1>5, <1>6, <1>8, <1>9, <1>10 DEF ArtistDocuments, ArtistPackages, ArtistAddOns, ArtistPortfolio,
     ArtistBrandRequests, ArtistFeedback, ArtistServices, ArtistLocations, ArtistSpecialities, ArtistServiceAreas,
     ArtistSchedules, ArtistBlocks
<1>13. UNION {AdminReviewQueue, AdminDocuments, AdminBrandRequests, AdminConversations, AdminMessages, AdminTickets,
              SupportMessages, OwnTickets, ServiceCategories, ServiceSubCategories, LocationTypes,
              Brands} \subseteq Listed
  BY <1>5, <1>6, <1>8, <1>9, <1>10 DEF AdminReviewQueue, AdminDocuments, AdminBrandRequests, AdminConversations,
     AdminMessages, AdminTickets, SupportMessages, OwnTickets, ServiceCategories, ServiceSubCategories, LocationTypes,
     Brands
<1>14. listing \in Listed
  BY <1>11, <1>12, <1>13 DEF Listings
<1> QED
  BY <1>14 DEF Listed, Orders

LEMMA KeyType ==
    ASSUME NEW contents \in [Ids -> TableRow], NEW order \in Seq(Column)
    PROVE  Key(contents, order) \in [Ids -> [1..Len(order) -> Int]]
<1>1. \A r \in Ids : \A i \in 1..Len(order) : Cell(contents, r, order[i].by) \in Int /\ order[i].falling \in BOOLEAN
  <2>1. \A r \in Ids : \A column \in {"created", "value", "id"} : Cell(contents, r, column) \in Int
    BY ListingAssumption DEF ListingAssumption, Cell, TableRow, Ids
  <2>2. \A i \in 1..Len(order) : order[i] \in Column
    OBVIOUS
  <2> QED
    BY <2>1, <2>2 DEF Column
<1>2. DOMAIN order = 1..Len(order)
  OBVIOUS
<1> QED
  BY <1>1, <1>2 DEF Key

LEMMA AheadIsLex ==
    ASSUME table \in [Ids -> TableRow], NEW order \in Seq(Column), NEW r \in Ids, NEW s \in Ids
    PROVE  Ahead(r, s, order) <=> Lex(Len(order), Key(table, order)[r], Key(table, order)[s])
<1> DEFINE c(x, i) == Cell(table, x, order[i].by)
           x == Key(table, order)[r]
           y == Key(table, order)[s]
<1>1. \A q \in Ids : \A i \in 1..Len(order) : c(q, i) \in Int /\ order[i].falling \in BOOLEAN
  <2>1. \A q \in Ids : \A column \in {"created", "value", "id"} : Cell(table, q, column) \in Int
    BY ListingAssumption DEF ListingAssumption, Cell, TableRow, Ids
  <2>2. \A i \in 1..Len(order) : order[i] \in Column
    OBVIOUS
  <2> QED
    BY <2>1, <2>2 DEF Column
<1>2. DOMAIN order = 1..Len(order) /\ Len(order) \in Nat
  OBVIOUS
<1>3. \A i \in 1..Len(order) : /\ x[i] = (IF order[i].falling THEN -c(r, i) ELSE c(r, i))
                               /\ y[i] = (IF order[i].falling THEN -c(s, i) ELSE c(s, i))
  BY <1>2 DEF Key
<1> HIDE DEF c, x, y
<1>4. \A i \in 1..Len(order) : /\ x[i] = y[i] <=> c(r, i) = c(s, i)
                               /\ x[i] < y[i] <=> (IF order[i].falling THEN c(r, i) > c(s, i) ELSE c(r, i) < c(s, i))
  BY <1>1, <1>3
<1>5. Ahead(r, s, order) <=> \E i \in 1..Len(order) :
          /\ \A j \in 1..i - 1 : c(r, j) = c(s, j)
          /\ IF order[i].falling THEN c(r, i) > c(s, i) ELSE c(r, i) < c(s, i)
  BY <1>2 DEF Ahead, c
<1>6. Lex(Len(order), x, y) <=> \E i \in 1..Len(order) :
          /\ \A j \in 1..i - 1 : c(r, j) = c(s, j)
          /\ IF order[i].falling THEN c(r, i) > c(s, i) ELSE c(r, i) < c(s, i)
  <2>1. \A i \in 1..Len(order) : 1..i - 1 \subseteq 1..Len(order)
    BY <1>2
  <2>2. \A i \in 1..Len(order) : (\A j \in 1..i - 1 : x[j] = y[j]) <=> (\A j \in 1..i - 1 : c(r, j) = c(s, j))
    BY <1>4, <2>1
  <2> QED
    BY <1>4, <2>2 DEF Lex
<1> QED
  BY <1>5, <1>6 DEF x, y

(* The place of a row in a listing: how many selected contents go before it.   *)
Place(contents, listing, r) ==
    Rank(Len(listing.order), Key(contents, listing.order), Selected(contents, listing), r)

ToldApart(contents, listing, M) ==
    \A r, s \in M : r # s =>
        \/ Lex(Len(listing.order), Key(contents, listing.order)[r], Key(contents, listing.order)[s])
        \/ Lex(Len(listing.order), Key(contents, listing.order)[s], Key(contents, listing.order)[r])

(* A client that reads on has missed, of the contents it must see, at most one *)
(* for every row that left or moved: those with a place before its page.   *)
Missing(contents, w) == {r \in w.must \ w.seen : Place(contents, w.listing, r) < RowsOn(w.listing) * (w.page - 1)}

WalkOK(contents, w) ==
    /\ w.page >= 1 /\ w.must \subseteq Selected(contents, w.listing)
    /\ ~w.tied =>
          /\ ToldApart(contents, w.listing, w.must)
          /\ w.step = "open" => Cardinality(Missing(contents, w)) <= w.shifts
          /\ w.step = "ended" => Cardinality(w.must \ w.seen) <= w.shifts

ListingInv == ListingTypeOK /\ (walk # NoWalk => WalkOK(table, walk))

Walked == [step : {"open", "ended"}, listing : Listings, page : Nat, must : SUBSET Ids,
           seen : SUBSET Ids, shifts : Nat, tied : BOOLEAN]

LEMMA RowsOnFact == \A listing \in Listings : RowsOn(listing) \in Nat \ {0}
BY OrdersOf, ListingAssumption DEF RowsOn, ListingAssumption

LEMMA SelectedIn == ASSUME NEW contents, NEW listing PROVE Selected(contents, listing) \subseteq Ids
BY DEF Selected

LEMMA TiedOrTold ==
    ASSUME table \in [Ids -> TableRow], NEW listing \in Listings, ~Tied(listing)
    PROVE  ToldApart(table, listing, Selected(table, listing))
BY OrdersOf, AheadIsLex, SelectedIn DEF Tied, ToldApart

(* What a request answers, if the order tells the contents apart: the row with *)
(* n contents before it is the one after n.                                    *)
LEMMA ResultPlaces ==
    ASSUME table \in [Ids -> TableRow], NEW listing \in Listings, ~Tied(listing),
           NEW result \in Results(listing)
    PROVE  /\ DOMAIN result = 1..Cardinality(Selected(table, listing))
           /\ \A r \in Selected(table, listing) :
                 \E i \in DOMAIN result : result[i] = r /\ Place(table, listing, r) = i - 1
<1> DEFINE S == Selected(table, listing)
           n == Cardinality(S)
           D == 1..n
<1>1. IsFiniteSet(S) /\ n \in Nat
  BY SelectedIn, IdsFinite
<1>2. /\ result \in [D -> S] /\ \A i, j \in D : i # j => result[i] # result[j]
      /\ \A i, j \in D : i < j => ~Ahead(result[j], result[i], listing.order)
  BY DEF Results, SetToSeqs
<1> HIDE DEF S
<1>3. result \in Surjection(D, S)
  <2>1. result \in Injection(D, S)
    BY <1>2 DEF Injection, IsInjective
  <2>2. IsFiniteSet(D) /\ Cardinality(D) = n
    BY <1>1, FS_Interval
  <2> QED
    BY <1>1, <2>1, <2>2, FS_Injection
<1>4. ASSUME NEW r \in S PROVE \E i \in DOMAIN result : result[i] = r /\ Place(table, listing, r) = i - 1
  <2>1. PICK i \in D : result[i] = r
    BY <1>3 DEF Surjection
  <2> DEFINE order == listing.order
             B == {s \in S : Ahead(s, r, order)}
             before == [j \in 1..i - 1 |-> result[j]]
  <2>2. \A j \in D : j < i => Ahead(result[j], r, order)
    <3>1. ASSUME NEW j \in D, j < i PROVE Ahead(result[j], r, order)
      <4>1. result[j] # r /\ result[j] \in S /\ ~Ahead(r, result[j], order)
        BY <1>2, <2>1, <3>1
      <4> QED
        BY <4>1 DEF Tied, S
    <3> QED
      BY <3>1
  <2>3. \A j \in D : j >= i => ~Ahead(result[j], r, order)
    <3>1. ~Ahead(r, r, order)
      <4>1. Key(table, order)[r] \in [1..Len(order) -> Int] /\ Len(order) \in Nat /\ r \in Ids
        BY OrdersOf, KeyType, SelectedIn DEF S
      <4>2. ~Lex(Len(order), Key(table, order)[r], Key(table, order)[r])
        BY <4>1, LexOrder
      <4>3. order \in Seq(Column)
        BY OrdersOf
      <4> HIDE DEF order
      <4> QED
        BY <4>1, <4>2, <4>3, AheadIsLex
    <3> QED
      BY <1>2, <2>1, <3>1
  <2>4. before \in [1..i - 1 -> B]
    BY <1>1, <1>2, <2>2
  <2>5. \A s \in B : \E j \in 1..i - 1 : before[j] = s
    <3>1. ASSUME NEW s \in B PROVE \E j \in 1..i - 1 : before[j] = s
      <4>1. PICK j \in D : result[j] = s
        BY <1>3 DEF Surjection
      <4>2. j < i
        BY <1>1, <2>3, <4>1
      <4> QED
        BY <1>1, <4>1, <4>2
    <3> QED
      BY <3>1
  <2>6. \A j, k \in 1..i - 1 : before[j] = before[k] => j = k
    BY <1>1, <1>2
  <2>7. before \in Bijection(1..i - 1, B)
    BY <2>4, <2>5, <2>6 DEF Bijection, Injection, Surjection, IsInjective
  <2>8. Cardinality(B) = i - 1
    <3>1. IsFiniteSet(1..i - 1) /\ Cardinality(1..i - 1) = i - 1
      <4>1. i - 1 \in Nat
        BY <1>1
      <4>2. IsFiniteSet(1..i - 1) /\ Cardinality(1..i - 1) = IF 1 > i - 1 THEN 0 ELSE (i - 1) - 1 + 1
        BY <4>1, FS_Interval
      <4> QED
        BY <4>1, <4>2
    <3> QED
      BY <2>7, <3>1, FS_Bijection DEF ExistsBijection
  <2>9. Place(table, listing, r) = Cardinality(B)
    BY OrdersOf, AheadIsLex, SelectedIn DEF Place, Rank, GoingBefore, S
  <2> QED
    BY <1>2, <2>1, <2>8, <2>9
<1> QED
  BY <1>2, <1>4 DEF S

(* The last page there is reaches the last row.                            *)
LEMMA LastPage ==
    ASSUME table \in [Ids -> TableRow], NEW listing \in Listings, NEW page \in Nat, page >= 1
    PROVE  /\ num_pages(listing) \in Nat
           /\ page >= num_pages(listing) => Cardinality(Selected(table, listing)) <= RowsOn(listing) * page
<1> DEFINE n == Cardinality(Selected(table, listing))
           R == RowsOn(listing)
           m == n + R - 1
           total == num_pages(listing)
<1>1. n \in Nat /\ R \in Nat \ {0}
  BY SelectedIn, IdsFinite, RowsOnFact
<1>2. total = IF m < R THEN 1 ELSE m \div R
  BY DEF num_pages
<1> HIDE DEF n, R, total
<1>3. m \in Nat /\ m \div R \in Nat /\ R * (m \div R) > m - R /\ R * page \in Nat
  BY <1>1
<1>4. page >= m \div R => R * page >= R * (m \div R)
  BY <1>1, <1>3
<1>5. ASSUME page >= total PROVE n <= R * page
  <2>1. CASE m < R
    BY <2>1, <1>1, <1>3
  <2>2. CASE ~(m < R)
    <3>1. R * page >= R * (m \div R) /\ R * (m \div R) > n - 1 /\ R * (m \div R) \in Int
      BY <2>2, <1>1, <1>2, <1>3, <1>4, <1>5
    <3> QED
      BY <3>1, <1>1, <1>3
  <2> QED
    BY <2>1, <2>2
<1> QED
  BY <1>2, <1>3, <1>5 DEF n, R, total

(* A request, the first or a later one.                                    *)
LEMMA ReadKeeps ==
    ASSUME table \in [Ids -> TableRow], NEW w \in Walked, w.step = "open", ReadPage(w),
           w.page >= 1, w.must \subseteq Selected(table, w.listing),
           ~w.tied /\ ~Tied(w.listing) => ToldApart(table, w.listing, w.must),
           ~w.tied => Cardinality(Missing(table, w)) <= w.shifts
    PROVE  walk' \in Walked /\ WalkOK(table, walk')
<1> DEFINE listing == w.listing
           R == RowsOn(listing)
           S == Selected(table, listing)
           total == num_pages(listing)
           goes_on == w.page <= total /\ HasNext(w.page, total)
<1>0. /\ listing \in Listings /\ w.page \in Nat /\ w.must \subseteq Ids /\ w.seen \subseteq Ids
      /\ w.shifts \in Nat /\ w.tied \in BOOLEAN
  BY DEF Walked
<1>1. R \in Nat \ {0} /\ S \subseteq Ids /\ total \in Nat
  BY <1>0, RowsOnFact, SelectedIn, LastPage
<1>2. PICK result \in Results(listing) :
          walk' = [w EXCEPT !.seen = @ \cup PageOf(result, listing, w.page), !.tied = @ \/ Tied(listing),
                            !.step = IF goes_on THEN "open" ELSE "ended", !.page = IF goes_on THEN @ + 1 ELSE @]
  BY DEF ReadPage
<1> DEFINE page == PageOf(result, listing, w.page)
<1>3. page \subseteq Ids
  BY <1>1 DEF PageOf, Results, SetToSeqs
<1>4. /\ walk'.listing = listing /\ walk'.must = w.must /\ walk'.shifts = w.shifts
      /\ walk'.seen = w.seen \cup page /\ walk'.tied = (w.tied \/ Tied(listing))
      /\ walk'.step = (IF goes_on THEN "open" ELSE "ended")
      /\ walk'.page = (IF goes_on THEN w.page + 1 ELSE w.page)
  BY <1>2 DEF Walked
<1>5. walk' \in Walked
  <2> HIDE DEF page, goes_on
  <2>1. walk' = [step |-> IF goes_on THEN "open" ELSE "ended", listing |-> listing,
                 page |-> IF goes_on THEN w.page + 1 ELSE w.page, must |-> w.must,
                 seen |-> w.seen \cup page, shifts |-> w.shifts, tied |-> w.tied \/ Tied(listing)]
    BY <1>2 DEF Walked, page
  <2>2. Tied(listing) \in BOOLEAN
    BY DEF Tied
  <2> QED
    BY <1>0, <1>3, <2>1, <2>2 DEF Walked
<1>6. ASSUME ~w.tied, ~Tied(listing)
      PROVE  {r \in w.must \ (w.seen \cup page) : Place(table, listing, r) < R * w.page} \subseteq Missing(table, w)
  <2> SUFFICES ASSUME NEW r \in w.must \ (w.seen \cup page), Place(table, listing, r) < R * w.page
               PROVE  Place(table, listing, r) < R * (w.page - 1)
    BY DEF Missing
  <2>1. PICK i \in DOMAIN result : result[i] = r /\ Place(table, listing, r) = i - 1
    BY <1>0, <1>2, <1>6, ResultPlaces
  <2>2. i \in Nat
    <3>1. DOMAIN result = 1..Cardinality(S)
      BY <1>0, <1>2, <1>6, ResultPlaces
    <3> QED
      BY <2>1, <3>1
  <2>3. R * w.page \in Nat /\ R * (w.page - 1) \in Int
    BY <1>0, <1>1
  <2>4. ~(R * (w.page - 1) < i /\ i <= R * w.page)
    BY <2>1 DEF PageOf
  <2> HIDE DEF R
  <2> QED
    BY <2>1, <2>2, <2>3, <2>4
<1>7. ASSUME ~w.tied, ~Tied(listing)
      PROVE  Cardinality({r \in w.must \ (w.seen \cup page) : Place(table, listing, r) < R * w.page}) <= w.shifts
  <2> DEFINE M == Missing(table, w)
             N == {r \in w.must \ (w.seen \cup page) : Place(table, listing, r) < R * w.page}
  <2>1. M \subseteq Ids /\ N \subseteq M /\ Cardinality(M) <= w.shifts
    BY <1>0, <1>6, <1>7 DEF Missing
  <2> HIDE DEF M, N
  <2>2. IsFiniteSet(M) /\ Cardinality(M) \in Nat /\ Cardinality(N) \in Nat
    BY <2>1, IdsFinite
  <2>3. Cardinality(N) <= Cardinality(M)
    BY <2>1, <2>2, FS_Subset
  <2>4. Cardinality(N) <= w.shifts
    BY <1>0, <2>1, <2>2, <2>3
  <2> QED
    BY <2>4 DEF N
<1>8. ASSUME ~walk'.tied, walk'.step = "open" PROVE Cardinality(Missing(table, walk')) <= walk'.shifts
  <2>1. goes_on /\ walk'.page - 1 = w.page
    BY <1>0, <1>4, <1>8
  <2>2. Missing(table, walk') = {r \in w.must \ (w.seen \cup page) : Place(table, listing, r) < R * w.page}
    BY <1>4, <2>1 DEF Missing
  <2> QED
    BY <1>4, <1>7, <1>8, <2>2
<1>9. ASSUME ~walk'.tied, walk'.step = "ended" PROVE Cardinality(walk'.must \ walk'.seen) <= walk'.shifts
  <2>1. w.page >= total
    BY <1>0, <1>1, <1>4, <1>9 DEF HasNext
  <2>2. Cardinality(S) <= R * w.page /\ R * w.page \in Nat /\ Cardinality(S) \in Nat
    BY <1>0, <1>1, <2>1, LastPage, IdsFinite
  <2>3. \A r \in w.must : Place(table, listing, r) < R * w.page
    <3>1. \A r \in S : Place(table, listing, r) \in Nat /\ Place(table, listing, r) < Cardinality(S)
      <4>1. Len(listing.order) \in Nat /\ Key(table, listing.order) \in [Ids -> [1..Len(listing.order) -> Int]]
        BY <1>0, OrdersOf, KeyType
      <4> QED
        BY <1>1, <4>1, RankLess DEF Place
    <3> QED
      BY <2>2, <3>1
  <2>4. walk'.must \ walk'.seen = {r \in w.must \ (w.seen \cup page) : Place(table, listing, r) < R * w.page}
    BY <1>4, <2>3
  <2> QED
    BY <1>4, <1>7, <1>9, <2>4
<1>10. walk'.page >= 1 /\ walk'.must \subseteq Selected(table, walk'.listing)
  BY <1>0, <1>4
<1>11. ~walk'.tied => ToldApart(table, walk'.listing, walk'.must)
  BY <1>4
<1> QED
  BY <1>5, <1>8, <1>9, <1>10, <1>11 DEF WalkOK

(* A change of the table during the walk.                                  *)
LEMMA ShiftedFacts ==
    ASSUME ListingTypeOK, walk.step = "open", walk \in Walked, NEW contents \in [Ids -> TableRow]
    PROVE  LET listing == walk.listing
               S == Selected(table, listing)
           IN /\ Shifted(contents) \subseteq S
              /\ S \ Shifted(contents) \subseteq Selected(contents, listing)
              /\ \A r \in S \ Shifted(contents) : Key(contents, listing.order)[r] = Key(table, listing.order)[r]
<1> DEFINE order == walk.listing.order
           S == Selected(table, walk.listing)
<1>1. Shifted(contents) \subseteq S /\ S \ Shifted(contents) \subseteq Selected(contents, walk.listing)
  BY DEF Shifted
<1>2. ASSUME NEW r \in S \ Shifted(contents) PROVE Key(contents, order)[r] = Key(table, order)[r]
  <2>1. \A i \in DOMAIN order : Cell(contents, r, order[i].by) = Cell(table, r, order[i].by)
    BY DEF Shifted
  <2>2. r \in Ids
    BY DEF Selected
  <2> QED
    BY <2>1, <2>2 DEF Key
<1> QED
  BY <1>1, <1>2

LEMMA WritesKeep ==
    ASSUME ListingInv, NEW contents \in [Ids -> TableRow], Writes(contents)
    PROVE  ListingInv'
<1> DEFINE listing == walk.listing
           n == Len(listing.order)
           S == Selected(table, listing)
           T == Selected(contents, listing)
           Gone == Shifted(contents)
           key == Key(table, listing.order)
           after == Key(contents, listing.order)
           k == RowsOn(listing) * (walk.page - 1)
<1>0. walk.step = "open" /\ table' = contents /\ UNCHANGED tick
      /\ walk' = [walk EXCEPT !.must = @ \ Gone, !.shifts = @ + Cardinality(Gone)]
  BY DEF Writes
<1>1. walk \in Walked /\ table \in [Ids -> TableRow] /\ tick \in 0..LastTick /\ WalkOK(table, walk) /\ ListingTypeOK
  BY <1>0 DEF ListingInv, ListingTypeOK, Walk, NoWalk, Walked
<1>2. /\ listing \in Listings /\ walk.page \in Nat /\ walk.must \subseteq Ids /\ walk.seen \subseteq Ids
      /\ walk.shifts \in Nat /\ walk.tied \in BOOLEAN
  BY <1>1 DEF Walked
<1>3. /\ S \subseteq Ids /\ T \subseteq Ids /\ Gone \subseteq S /\ S \ Gone \subseteq T
      /\ \A r \in S \ Gone : after[r] = key[r]
  BY <1>0, <1>1, ShiftedFacts, SelectedIn
<1>4. n \in Nat /\ key \in [Ids -> [1..n -> Int]] /\ after \in [Ids -> [1..n -> Int]]
  BY <1>1, <1>2, OrdersOf, KeyType
<1>5. k \in Nat /\ Cardinality(Gone) \in Nat /\ IsFiniteSet(Gone)
  <2>1. RowsOn(listing) \in Nat /\ walk.page - 1 \in Nat
    BY <1>1, <1>2, RowsOnFact DEF WalkOK
  <2>2. k \in Nat
    BY <2>1
  <2> QED
    BY <1>3, <2>2, IdsFinite
<1>6. /\ walk'.listing = listing /\ walk'.page = walk.page /\ walk'.must = walk.must \ Gone /\ walk'.seen = walk.seen
      /\ walk'.shifts = walk.shifts + Cardinality(Gone) /\ walk'.tied = walk.tied /\ walk'.step = "open"
  BY <1>0, <1>1 DEF Walked
<1>7. walk' \in Walked
  <2>1. walk' = [step |-> "open", listing |-> listing, page |-> walk.page, must |-> walk.must \ Gone,
                 seen |-> walk.seen, shifts |-> walk.shifts + Cardinality(Gone), tied |-> walk.tied]
    BY <1>0, <1>1 DEF Walked
  <2> HIDE DEF Gone
  <2> QED
    BY <1>2, <1>5, <2>1 DEF Walked
<1> DEFINE M == walk.must \ Gone
<1>8. M \subseteq S \ Gone /\ M \subseteq T
  BY <1>1, <1>3 DEF WalkOK
<1>9. ASSUME ~walk.tied
      PROVE ToldApart(contents, listing, M)
            /\ \A r, s \in M : r # s => Lex(n, key[r], key[s]) \/ Lex(n, key[s], key[r])
  <2>1. \A r, s \in M : r # s => Lex(n, key[r], key[s]) \/ Lex(n, key[s], key[r])
    BY <1>1, <1>9 DEF WalkOK, ToldApart
  <2>2. \A r \in M : after[r] = key[r]
    BY <1>3, <1>8
  <2> QED
    BY <2>1, <2>2 DEF ToldApart
<1>10. ASSUME ~walk.tied PROVE Cardinality(Missing(contents, walk')) <= walk.shifts + Cardinality(Gone)
  <2> DEFINE U == M \ walk.seen
             Slipped == {r \in U : Rank(n, after, T, r) < k /\ k <= Rank(n, key, S, r)}
             Earlier == Missing(table, walk)
             Now == Missing(contents, walk')
  <2>1. U \in SUBSET (S \ Gone) /\ \A r, s \in U : r # s => Lex(n, key[r], key[s]) \/ Lex(n, key[s], key[r])
    BY <1>8, <1>9, <1>10
  <2> HIDE DEF U, key, after, S, T, Gone, n, k
  <2>2. Cardinality(Slipped) <= Cardinality(Gone)
    <3>1. /\ n \in Nat /\ k \in Nat /\ S \in SUBSET Ids /\ T \in SUBSET Ids /\ Gone \in SUBSET S
          /\ U \in SUBSET (S \ Gone) /\ S \ Gone \subseteq T
          /\ key \in [Ids -> [1..n -> Int]] /\ after \in [Ids -> [1..n -> Int]]
      BY <1>3, <1>4, <1>5, <2>1
    <3>2. /\ \A r \in S \ Gone : after[r] = key[r]
          /\ \A r, s \in U : r # s => Lex(n, key[r], key[s]) \/ Lex(n, key[s], key[r])
      BY <1>3, <2>1
    <3>3. Cardinality(Slipping(n, key, after, S, T, U, k)) <= Cardinality(Gone)
      BY ONLY <3>1, <3>2, FewSlip
    <3> QED
      BY <3>3 DEF Slipping
  <2>3. \A r \in S : Rank(n, key, S, r) \in Nat
    BY <1>3, <1>4, RankLess
  <2>4. Earlier = {r \in walk.must \ walk.seen : Rank(n, key, S, r) < k} /\ Now = {r \in U : Rank(n, after, T, r) < k}
    BY <1>6 DEF Missing, Place, U, key, after, S, T, n, k
  <2>5. Now \subseteq Earlier \cup Slipped /\ Earlier \subseteq Ids /\ Slipped \subseteq Ids
    BY <1>2, <1>5, <2>1, <2>3, <2>4, <1>3 DEF U
  <2>6. Cardinality(Earlier) <= walk.shifts
    BY <1>0, <1>1, <1>10 DEF WalkOK
  <2> HIDE DEF Earlier, Slipped, Now
  <2>7. /\ IsFiniteSet(Earlier) /\ IsFiniteSet(Slipped) /\ IsFiniteSet(Earlier \cup Slipped)
        /\ Cardinality(Earlier) \in Nat /\ Cardinality(Slipped) \in Nat /\ Cardinality(Earlier \cap Slipped) \in Nat
        /\ Cardinality(Now) \in Nat /\ Cardinality(Earlier \cup Slipped) \in Nat
    BY <2>5, IdsFinite
  <2>8. Cardinality(Now) <= Cardinality(Earlier \cup Slipped)
    BY <2>5, <2>7, FS_Subset
  <2>9. Cardinality(Earlier \cup Slipped)
          = Cardinality(Earlier) + Cardinality(Slipped) - Cardinality(Earlier \cap Slipped)
    BY <2>7, FS_Union
  <2>10. Cardinality(Now) <= walk.shifts + Cardinality(Gone)
    BY <1>2, <1>5, <2>2, <2>6, <2>7, <2>8, <2>9
  <2> QED
    BY <2>10 DEF Now
<1>11. WalkOK(contents, walk')
  BY <1>1, <1>6, <1>8, <1>9, <1>10 DEF WalkOK
<1> QED
  BY <1>0, <1>1, <1>7, <1>11 DEF ListingInv, ListingTypeOK, Walk, Walked

LEMMA ListingInitial == ASSUME ListingInit PROVE ListingInv
<1>1. (CHOOSE v \in Values : TRUE) \in Values
  BY ListingAssumption DEF ListingAssumption
<1> QED
  BY <1>1, ListingAssumption DEF ListingAssumption, ListingInit, ListingInv, ListingTypeOK, TableRow, Walk

LEMMA ListingInvMeans == ASSUME ListingInv PROVE WalkMissesFew
BY DEF ListingInv, WalkMissesFew, WalkOK, NoWalk

LEMMA ListingStep == ASSUME ListingInv, ListingNext PROVE ListingInv'
<1>1. table \in [Ids -> TableRow] /\ tick \in 0..LastTick /\ LastTick \in Nat /\ walk \in Walk
  BY ListingAssumption DEF ListingAssumption, ListingInv, ListingTypeOK
<1>2. ASSUME Elapse PROVE ListingInv'
  BY <1>1, <1>2 DEF Elapse, ListingInv, ListingTypeOK
<1>3. ASSUME FollowNext PROVE ListingInv'
  <2>1. walk \in Walked /\ WalkOK(table, walk)
    BY <1>1, <1>3 DEF FollowNext, ListingInv, Walk, Walked, NoWalk
  <2>2. walk' \in Walked /\ WalkOK(table, walk')
    BY <1>1, <1>3, <2>1, ReadKeeps DEF FollowNext, WalkOK
  <2> QED
    BY <1>1, <1>3, <2>2 DEF FollowNext, ListingInv, ListingTypeOK, Walk, Walked
<1>4. ASSUME NEW listing \in Listings, OpenList(listing) PROVE ListingInv'
  <2> DEFINE S == Selected(table, listing)
             w == [step |-> "open", listing |-> listing, page |-> 1, must |-> S,
                   seen |-> {}, shifts |-> 0, tied |-> FALSE]
  <2>1. w \in Walked /\ ReadPage(w) /\ UNCHANGED <<table, tick>>
    BY <1>4, SelectedIn DEF OpenList, Walked
  <2>2. ~Tied(listing) => ToldApart(table, listing, S)
    BY <1>1, TiedOrTold
  <2>3. Missing(table, w) = {}
    <3>1. RowsOn(listing) * (1 - 1) = 0
      BY RowsOnFact
    <3>2. \A r \in S : Place(table, listing, r) \in Nat
      <4>1. Len(listing.order) \in Nat /\ Key(table, listing.order) \in [Ids -> [1..Len(listing.order) -> Int]]
        BY <1>1, OrdersOf, KeyType
      <4> QED
        BY <4>1, SelectedIn, RankLess DEF Place
    <3> QED
      BY <3>1, <3>2 DEF Missing
  <2>4. Cardinality(Missing(table, w)) <= w.shifts
    <3>1. Cardinality(Missing(table, w)) = 0 /\ w.shifts = 0
      BY <2>3, FS_EmptySet
    <3> QED
      BY <3>1
  <2>5. /\ w.step = "open" /\ w.page >= 1 /\ w.must \subseteq Selected(table, w.listing)
        /\ ~w.tied /\ ~Tied(w.listing) => ToldApart(table, w.listing, w.must)
    BY <2>2
  <2> HIDE DEF w
  <2>6. walk' \in Walked /\ WalkOK(table, walk')
    BY <1>1, <2>1, <2>4, <2>5, ReadKeeps
  <2> QED
    BY <1>1, <2>1, <2>6 DEF ListingInv, ListingTypeOK, Walk, Walked
<1>5. ASSUME NEW r \in Ids, DeleteRow(r) PROVE ListingInv'
  <2>1. [table EXCEPT ![r].state = "gone"] \in [Ids -> TableRow]
    BY <1>1 DEF TableRow
  <2> QED
    BY <1>5, <2>1, WritesKeep DEF DeleteRow
<1>6. ASSUME NEW r \in Ids, NEW value \in Values, NEW some \in BOOLEAN, EditRow(r, value, some) PROVE ListingInv'
  <2>1. [table EXCEPT ![r].value = value, ![r].some = some] \in [Ids -> TableRow]
    BY <1>1 DEF TableRow
  <2> QED
    BY <1>6, <2>1, WritesKeep DEF EditRow
<1>7. ASSUME NEW r \in Ids, NEW value \in Values, NEW some \in BOOLEAN, InsertRow(r, value, some) PROVE ListingInv'
  <2>1. Inserted(r, value, some) \in [Ids -> TableRow]
    BY <1>1 DEF Inserted, TableRow
  <2>2. CASE Writes(Inserted(r, value, some))
    BY <2>1, <2>2, WritesKeep
  <2>3. CASE walk = NoWalk /\ table' = Inserted(r, value, some) /\ UNCHANGED <<tick, walk>>
    BY <1>1, <2>1, <2>3 DEF ListingInv, ListingTypeOK
  <2> QED
    BY <1>7, <2>2, <2>3 DEF InsertRow
<1> QED
  BY <1>2, <1>3, <1>4, <1>5, <1>6, <1>7 DEF ListingNext

LEMMA ListingRests == ASSUME ListingInv, UNCHANGED listingVars PROVE ListingInv'
BY DEF ListingInv, ListingTypeOK, listingVars

-----------------------------------------------------------------------------
(* The services together.  A step is one of the part the behaviour is      *)
(* about, and the others rest.                                             *)
ServicesInv ==
    /\ ChatInv /\ SupportInv /\ RemindersInv
    /\ AddressInv /\ FilesInv /\ ListingInv

LEMMA PartSteps ==
    ASSUME [ServicesNext]_servicesVars
    PROVE  /\ ChatNext \/ UNCHANGED chatVars
           /\ SupportNext \/ UNCHANGED supportVars
           /\ RemindersNext \/ UNCHANGED reminderVars
           /\ AddressNext \/ UNCHANGED addressVars
           /\ FilesNext \/ UNCHANGED fileVars
           /\ ListingNext \/ UNCHANGED listingVars
BY DEF ServicesNext, servicesVars, Rest

LEMMA ServicesInitial == ServicesInit => ServicesInv
BY ChatInitial, SupportInitial, RemindersInitial, AddressInitial, FilesInitial, ListingInitial
   DEF ServicesInit, ServicesInv

LEMMA ServicesStep == ServicesInv /\ [ServicesNext]_servicesVars => ServicesInv'
<1> SUFFICES ASSUME ServicesInv, [ServicesNext]_servicesVars PROVE ServicesInv'
  OBVIOUS
<1>1. ChatInv' /\ SupportInv' /\ RemindersInv'
  BY PartSteps, ChatStep, ChatRests, SupportStep, SupportRests, RemindersStep, RemindersRest DEF ServicesInv
<1>2. AddressInv' /\ FilesInv' /\ ListingInv'
  BY PartSteps, AddressStep, AddressRests, FilesStep, FilesRest, ListingStep, ListingRests DEF ServicesInv
<1> QED
  BY <1>1, <1>2 DEF ServicesInv

LEMMA ServicesAlways == ServicesSpec => []ServicesInv
BY ServicesInitial, ServicesStep, PTL DEF ServicesSpec

(* Every row, event and handler of the services keeps its type: rows are   *)
(* loaded, held by a handler and saved again without losing their shape.   *)
THEOREM ServicesTyped == ServicesSpec => []ServicesTypeOK
<1>1. ServicesInv => ServicesTypeOK
  BY DEF ServicesInv, ServicesTypeOK, ChatInv, SupportInv, RemindersInv, AddressInv, FilesInv, ListingInv
<1> QED
  BY <1>1, ServicesAlways, PTL

(* ChatConsumer: whatever the channel layer drops and however sends,       *)
(* connections and the end of the booking interleave, what a client is     *)
(* shown is stored, and one that is told of the end is told the truth.     *)
THEOREM ChatTellsTheTruth == ServicesSpec => []LiveIsTrue
<1>1. ServicesInv => LiveIsTrue
  BY ChatInvMeans DEF ServicesInv
<1> QED
  BY <1>1, ServicesAlways, PTL

(* SupportConversation.mark_running, TicketView.close_extract: no answer   *)
(* and no change of status that was begun earlier opens a closed           *)
(* conversation or ticket again.                                           *)
THEOREM ClosedForGood == ServicesSpec => ClosedStaysClosed
<1>1. ServicesInv /\ [ServicesNext]_servicesVars =>
          [/\ \A c \in Conversations : support[c] = "closed" => support'[c] = "closed"
           /\ \A t \in Tickets : ticket[t] = "closed" => ticket'[t] = "closed"]_supportVars
  BY PartSteps, SupportStep DEF ServicesInv, ConversationsStayClosed, TicketsStayClosed
<1> QED
  BY <1>1, ServicesAlways, PTL DEF ServicesSpec, ClosedStaysClosed

(* send_appointment_reminders: one reminder of each kind, and none missed  *)
(* by a booking agreed on in time unless two runs failed it, for every     *)
(* period of which two fit into a window and every time of appointment.    *)
THEOREM RemindersComeInTime == ServicesSpec => []RemindedInTime
<1>1. ServicesInv => RemindedInTime
  BY RemindersInvMeans DEF ServicesInv
<1> QED
  BY <1>1, ServicesAlways, PTL

(* CustomerAddressView.create_extract: the unlocked count passes the limit *)
(* by less than the handlers in flight, for every number of handlers.      *)
THEOREM AddressesStayFew == ServicesSpec => []AddressLimit
<1>1. ServicesInv => AddressLimit
  BY AddressInvMeans DEF ServicesInv
<1> QED
  BY <1>1, ServicesAlways, PTL

(* create_extract, _delete_with_files, set_photos and the forms: files and *)
(* rows account for each other between transactions, for every number of   *)
(* handlers and files, whichever statement fails or worker dies.           *)
THEOREM FilesStayAccounted == ServicesSpec => []FilesAccounted
<1>1. ServicesInv => FilesAccounted
  BY FilesInvMeans DEF ServicesInv
<1> QED
  BY <1>1, ServicesAlways, PTL

(* add_page_parameter: a walk along the links of any listing misses at     *)
(* most one row for each that left or moved, for every size of the table   *)
(* and of a page and every number of changes.                              *)
THEOREM WalksMissFew == ServicesSpec => []WalkMissesFew
<1>1. ServicesInv => WalkMissesFew
  BY ListingInvMeans DEF ServicesInv
<1> QED
  BY <1>1, ServicesAlways, PTL
=============================================================================
