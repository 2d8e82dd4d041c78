---------------------------- MODULE ServicePins -----------------------------
(***************************************************************************)
(* Guessing at the Completion PIN of one running service (the Start PIN is *)
(* counted by the same statements).  A request looks at the lock, compares *)
(* the PIN, and counts a wrong one in a row it loads and saves whole, so   *)
(* an overlapping request can put an old counter, lock or PIN back.  Only  *)
(* the issue of a PIN holds the row lock.  What a PIN opens is the subject *)
(* of BookingLifecycle.                                                    *)
(***************************************************************************)
EXTENDS Integers, FiniteSets

CONSTANTS
    Guessers,       \* requests that can be in flight
    MaxGuesses,     \* max_attempts
    LockMinutes,    \* lockout_minutes
    ResendSeconds,  \* otp_resend_seconds
    PinMinutes,     \* buffer_hours, the least time a PIN stays valid
    LastPin,        \* bound: PINs minted
    LastMinute      \* bound of the clock; all times on one coarse scale

ASSUME ServicePinsAssumption ==
    /\ {MaxGuesses, LockMinutes, PinMinutes, LastPin} \subseteq Nat \ {0}
    /\ {ResendSeconds, LastMinute} \subseteq Nat
    /\ IsFiniteSet(Guessers)

VARIABLES
    pinRow,         \* the columns of the PIN
    guess,          \* the requests in flight
    minute,         \* the clock
    sentAt,         \* when the last completion_pin_ready notification was stored
    wrong           \* history: wrong guesses since the counter was last cleared

pinVars == <<pinRow, guess, minute, sentAt, wrong>>
-----------------------------------------------------------------------------
Never == -1
Moments == 0..LastMinute + LockMinutes + PinMinutes
PinRow == [pin : 0..LastPin, expiry : Moments, attempts : Nat,
           locked_until : {Never} \cup Moments]
NoGuess == [step |-> "none"]
Guess == {NoGuess} \cup [step : {"missed"}] \cup [step : {"unlock", "count"}, row : PinRow]

Valid == pinRow.pin # 0 /\ minute <= pinRow.expiry
Locked == pinRow.locked_until # Never /\ minute < pinRow.locked_until
LockOver == pinRow.locked_until # Never /\ minute >= pinRow.locked_until
Step(g, next) == guess' = [guess EXCEPT ![g] = next]

(* issue_completion_pin: a PIN that is still valid is kept as it is.       *)
Minted == IF Valid THEN pinRow
          ELSE [pin |-> pinRow.pin + 1, expiry |-> minute + PinMinutes, attempts |-> 0, locked_until |-> Never]

RequestPin ==
    /\ sentAt = Never \/ minute > sentAt + ResendSeconds
    /\ Minted.pin <= LastPin
    /\ pinRow' = Minted
    /\ sentAt' = minute
    /\ wrong' = IF Valid THEN wrong ELSE 0
    /\ UNCHANGED <<guess, minute>>

(* is_completion_pin_locked, the comparison, and the failure it leads to.  *)
CheckLock(g) ==
    /\ guess[g] = NoGuess /\ pinRow.pin # 0 /\ ~Locked
    /\ IF LockOver
       THEN /\ Step(g, [step |-> "unlock",
                        row |-> [pinRow EXCEPT !.locked_until = Never, !.attempts = 0]])
            /\ UNCHANGED wrong
       ELSE Step(g, [step |-> "missed"]) /\ wrong' = wrong + 1
    /\ UNCHANGED <<pinRow, minute, sentAt>>

Unlock(g) ==
    /\ guess[g].step = "unlock"
    /\ pinRow' = guess[g].row
    /\ Step(g, [step |-> "missed"])
    /\ wrong' = 1
    /\ UNCHANGED <<minute, sentAt>>

Counted(row) ==
    [row EXCEPT !.attempts = @ + 1,
                !.locked_until = IF row.attempts + 1 >= MaxGuesses THEN minute + LockMinutes ELSE @]

CountMiss(g) ==
    /\ guess[g].step = "missed"
    /\ Step(g, [step |-> "count", row |-> Counted(pinRow)])
    /\ UNCHANGED <<pinRow, minute, sentAt, wrong>>

SaveMiss(g) ==
    /\ guess[g].step = "count"
    /\ pinRow' = guess[g].row
    /\ Step(g, NoGuess)
    /\ UNCHANGED <<minute, sentAt, wrong>>

PassMinute ==
    /\ minute < LastMinute
    /\ minute' = minute + 1
    /\ UNCHANGED <<pinRow, guess, sentAt, wrong>>

PinsInit ==
    /\ pinRow = [pin |-> 0, expiry |-> 0, attempts |-> 0, locked_until |-> Never]
    /\ guess = [g \in Guessers |-> NoGuess]
    /\ minute = 0 /\ sentAt = Never /\ wrong = 0

PinsNext ==
    \/ RequestPin \/ PassMinute
    \/ \E g \in Guessers : CheckLock(g) \/ Unlock(g) \/ CountMiss(g) \/ SaveMiss(g)
-----------------------------------------------------------------------------
PinsTypeOK ==
    /\ pinRow \in PinRow /\ guess \in [Guessers -> Guess]
    /\ minute \in 0..LastMinute /\ sentAt \in {Never} \cup 0..LastMinute /\ wrong \in Nat

(* is_completion_pin_locked and record_completion_pin_failure: two         *)
(* overlapping requests can put an old counter or a lifted lock back, each *)
(* only once, so the wrong guesses at one PIN before a lockout runs out    *)
(* grow with the square of the limit and not without end.                  *)
PinGuessesBounded ==
    Cardinality(Guessers) <= 2 => 2 * wrong <= MaxGuesses * (MaxGuesses + 3)
=============================================================================
