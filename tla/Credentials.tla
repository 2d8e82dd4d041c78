---------------------------- MODULE Credentials -----------------------------
(***************************************************************************)
(* The secrets people type: login and contact codes, and the PIN that ends *)
(* a service.  The two keep their counters in rows of different tables and *)
(* share none, so a behaviour works on the one it chose at the start.      *)
(***************************************************************************)
EXTENDS Accounts, ServicePins

VARIABLE secret

credentialVars == <<accountVars, pinVars, secret>>

CredentialsInit == AccountsInit /\ PinsInit /\ secret \in {"code", "pin"}

CredentialsNext ==
    \/ secret = "code" /\ AccountsNext /\ UNCHANGED <<pinVars, secret>>
    \/ secret = "pin" /\ PinsNext /\ UNCHANGED <<accountVars, secret>>

CredentialsSpec == CredentialsInit /\ [][CredentialsNext]_credentialVars
-----------------------------------------------------------------------------
(* Accounts, codes and PINs keep their types through every crossing of     *)
(* whole-row saves, and no two accounts come to share a contact, though    *)
(* sign-ups and contact changes look for it before they write it.          *)
CredentialsSound == AccountsTypeOK /\ PinsTypeOK /\ ContactsUnique

(* The counters of wrong codes and PINs are read before they are written   *)
(* and saved with rows of an earlier moment.  Wrong login and contact      *)
(* codes pass the limit only by such saves, each worth one more limit of   *)
(* them; two who guess a PIN at once get no further than its square.       *)
AttemptsBounded == GuessesBounded /\ PinGuessesBounded
=============================================================================
