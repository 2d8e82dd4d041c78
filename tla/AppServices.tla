---------------------------- MODULE AppServices -----------------------------
(***************************************************************************)
(* Six parts of the API that share no row: chat, help centre, reminders,   *)
(* address book, stored files and the lists.  No step of one reads or      *)
(* writes a variable of another, so a behaviour works on the part it chose *)
(* at the start (focus) while the others rest.                             *)
(***************************************************************************)
EXTENDS Chat, SupportDesk, Reminders, AddressBook, StoredFiles, Listing

VARIABLE focus

Parts == {"chat", "support", "reminders", "addresses", "files", "lists"}

servicesVars == <<chatVars, supportVars, reminderVars, addressVars, fileVars, listingVars, focus>>

ServicesInit ==
    /\ ChatInit /\ SupportInit /\ RemindersInit /\ AddressInit /\ FilesInit /\ ListingInit
    /\ focus \in Parts
    /\ focus # "reminders" => away = CHOOSE minutes \in First : TRUE
    /\ focus # "files" => shelf = "photo" /\ rows = {PhotoRow({})} /\ upload = CHOOSE u \in Accepted : TRUE

Rest(part, partVars) == focus # part => UNCHANGED partVars

ServicesNext ==
    /\ \/ focus = "chat" /\ ChatNext
       \/ focus = "support" /\ SupportNext
       \/ focus = "reminders" /\ RemindersNext
       \/ focus = "addresses" /\ AddressNext
       \/ focus = "files" /\ FilesNext
       \/ focus = "lists" /\ ListingNext
    /\ Rest("chat", chatVars) /\ Rest("support", supportVars) /\ Rest("reminders", reminderVars)
    /\ Rest("addresses", addressVars) /\ Rest("files", fileVars) /\ Rest("lists", listingVars)
    /\ UNCHANGED focus

ServicesSpec == ServicesInit /\ [][ServicesNext]_servicesVars
-----------------------------------------------------------------------------
(* Every row, event and handler of the six keeps its type.                *)
ServicesTypeOK ==
    /\ ChatTypeOK /\ SupportTypeOK /\ RemindersTypeOK
    /\ AddressTypeOK /\ FilesTypeOK /\ ListingTypeOK
=============================================================================
