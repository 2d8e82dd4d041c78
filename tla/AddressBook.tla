---------------------------- MODULE AddressBook -----------------------------
(***************************************************************************)
(* The addresses of one customer.  Every handler is a transaction without  *)
(* a lock on what it checks: creation counts and then inserts; an edit     *)
(* loads the row and saves all of it, and a row deleted meanwhile is       *)
(* inserted again.  Making an address the default first clears the flag of *)
(* the others, which it sees only if they are committed.                   *)
(***************************************************************************)
EXTENDS Integers, FiniteSets

CONSTANTS
    Addresses,      \* rows of CustomerAddress that may come to exist
    Editors,        \* handlers that can be in flight
    MaxAddresses    \* addresses a customer may keep

ASSUME AddressAssumption ==
    /\ IsFiniteSet(Addresses) /\ IsFiniteSet(Editors) /\ Editors # {}
    /\ MaxAddresses \in Nat \ {0}

VARIABLES
    address,        \* CustomerAddress
    editing         \* the handlers in flight

addressVars == <<address, editing>>
-----------------------------------------------------------------------------
Address == [state : {"new", "live", "gone"}, is_default : BOOLEAN]
NoEdit == [op |-> "none"]
Edit == {NoEdit} \cup [op : {"create"}, id : Addresses, is_default : BOOLEAN]
                 \cup [op : {"update"}, id : Addresses, row : Address, is_default : BOOLEAN]
                 \cup [op : {"delete"}, id : Addresses]

Kept == {a \in Addresses : address[a].state = "live"}
Opens(e, task) == editing[e] = NoEdit /\ editing' = [editing EXCEPT ![e] = task]
Closes(e) == editing' = [editing EXCEPT ![e] = NoEdit]

(* The flag of every committed row of the customer is cleared first.       *)
Undefaulted(is_default) ==
    [a \in Addresses |-> [address[a] EXCEPT !.is_default = @ /\ ~is_default]]

(* Mutant: the limit itself is let through.                                *)
RoomUpToLimit == Cardinality(Kept) <= MaxAddresses

Room == Cardinality(Kept) < MaxAddresses

CreateAddressBegin(e, a, is_default) ==
    /\ address[a].state = "new" /\ \A f \in Editors : editing[f].op = "create" => editing[f].id # a
    /\ Room
    /\ Opens(e, [op |-> "create", id |-> a, is_default |-> is_default])
    /\ UNCHANGED address

CreateAddress(e) ==
    /\ editing[e].op = "create"
    /\ address' = [Undefaulted(editing[e].is_default) EXCEPT
                      ![editing[e].id] = [state |-> "live", is_default |-> editing[e].is_default]]
    /\ Closes(e)

(* is_default is None when the request does not send it.                   *)
UpdateAddressBegin(e, a, sent, is_default) ==
    /\ address[a].state = "live"
    /\ Opens(e, [op |-> "update", id |-> a, is_default |-> sent /\ is_default,
                 row |-> IF sent THEN [address[a] EXCEPT !.is_default = is_default] ELSE address[a]])
    /\ UNCHANGED address

UpdateAddress(e) ==
    /\ editing[e].op = "update"
    /\ address' = [Undefaulted(editing[e].is_default) EXCEPT ![editing[e].id] = editing[e].row]
    /\ Closes(e)

DeleteAddressBegin(e, a) ==
    /\ address[a].state = "live"
    /\ Opens(e, [op |-> "delete", id |-> a])
    /\ UNCHANGED address

DeleteAddress(e) ==             \* DoesNotExist if it is gone by now
    /\ editing[e].op = "delete"
    /\ address' = [address EXCEPT ![editing[e].id].state = "gone"]
    /\ Closes(e)

AddressInit ==
    /\ address = [a \in Addresses |-> [state |-> "new", is_default |-> FALSE]]
    /\ editing = [e \in Editors |-> NoEdit]

AddressNext ==
    \E e \in Editors :
        \/ CreateAddress(e) \/ UpdateAddress(e) \/ DeleteAddress(e)
        \/ \E a \in Addresses : DeleteAddressBegin(e, a)
        \/ \E a \in Addresses, b \in BOOLEAN : CreateAddressBegin(e, a, b)
        \/ \E a \in Addresses, sent, b \in BOOLEAN : UpdateAddressBegin(e, a, sent, b)
-----------------------------------------------------------------------------
AddressTypeOK == address \in [Addresses -> Address] /\ editing \in [Editors -> Edit]

(* CustomerAddressView.create_extract: counting before an unlocked insert, *)
(* and edits that bring a deleted row back, pass the limit by no more than *)
(* the handlers that overlap, however long they go on.                     *)
AddressLimit == Cardinality(Kept) <= MaxAddresses + Cardinality(Editors) - 1
=============================================================================
