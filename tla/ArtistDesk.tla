----------------------------- MODULE ArtistDesk -----------------------------
(***************************************************************************)
(* The artist's side of the platform: catalogue, review and clients.  The  *)
(* tables share no row and no lock, and no property relates two of them,   *)
(* so a behaviour works on the one it chose at the start (focus) while the *)
(* others rest: every interleaving within a table, and none across.        *)
(***************************************************************************)
EXTENDS ArtistCatalogue, ArtistReview, ClientBook

VARIABLE focus

deskVars == <<catalogueVars, reviewVars, clientVars, focus>>

DeskParts == {"packages", "services", "areas", "portfolio", "payout", "brands", "review", "clients"}

DeskInit ==
    /\ CatalogueInit /\ ReviewInit /\ ClientsInit
    /\ focus \in DeskParts

WorkOn(part, Next, rest) == focus = part /\ Next /\ UNCHANGED rest
Rest(part, partVars) == focus # part => UNCHANGED partVars

DeskNext ==
    /\ \/ WorkOn("packages", PackagesNext, <<offering, speciality, area, item, payout, brand, ask>>)
       \/ WorkOn("services", ServicesNext, <<package, addon, area, item, payout, brand, ask>>)
       \/ WorkOn("areas", AreasNext, <<package, addon, offering, speciality, item, payout, brand, ask>>)
       \/ WorkOn("portfolio", PortfolioNext, <<package, addon, offering, speciality, area, payout, brand, ask>>)
       \/ WorkOn("payout", PayoutNext, <<package, addon, offering, speciality, area, item, brand, ask, work>>)
       \/ WorkOn("brands", BrandsNext, <<package, addon, offering, speciality, area, item, payout>>)
       \/ WorkOn("review", ReviewNext, catalogueVars)
       \/ WorkOn("clients", ClientsNext, catalogueVars)
    /\ Rest("review", reviewVars) /\ Rest("clients", clientVars)
    /\ UNCHANGED focus

DeskSpec == DeskInit /\ [][DeskNext]_deskVars
-----------------------------------------------------------------------------
(* Every table of the artist's side keeps its columns within their types,  *)
(* and every handler carries a row it could save; ServiceAreaView: no two  *)
(* live areas are in one city, and a charge is what its type says, however *)
(* the requests that add, edit and remove areas cross.                     *)
DeskSound == CatalogueTypeOK /\ ReviewTypeOK /\ ClientsTypeOK /\ AreasConsistent

(* The figures and lists an artist is shown about the customers' side have *)
(* bookings behind them: ratings in ArtistReview, clients in ClientBook.   *)
FiguresHonest == RatingsBacked /\ ClientsHonest

(* AdminBrandView.decide_extract and AdminArtistDocumentView's: whatever   *)
(* an administrator decides, a brand request or a document, is decided     *)
(* once and stays decided, however many administrators have it open.       *)
DecidedOnce ==
    [][/\ \A q \in BrandRequests : ask[q].status # "pending" => ask'[q] = ask[q]
       /\ \A d \in Documents : document[d].status # "pending" => document'[d].status = document[d].status
      ]_deskVars
=============================================================================
