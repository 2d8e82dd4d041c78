---------------------------- MODULE ArtistReview ----------------------------
(***************************************************************************)
(* One artist on the way through onboarding: the profile row, the KYC      *)
(* documents, the administrators' decisions, and later the customers'      *)
(* reviews.  Edits of the profile load the row and save every column       *)
(* without a lock; submission and decisions read first and then update     *)
(* their own columns; a document is decided under its row lock.            *)
(***************************************************************************)
EXTENDS Integers, FiniteSets

CONSTANTS
    Documents,      \* rows of ArtistDocument that may come to exist
    Bookings,       \* completed bookings of the artist
    Requests        \* handlers that can be in flight

ASSUME ReviewAssumption == IsFiniteSet(Bookings)

VARIABLES
    profile,        \* ArtistProfile
    ready,          \* the steps kept elsewhere: package, hours, work sample, payout account
    document,       \* ArtistDocument
    decisions,      \* ArtistReviewFeedback, without repetitions
    verified,       \* history: an ID proof of the artist was approved
    review,         \* Review, one per booking
    job             \* the handlers in flight

reviewVars == <<profile, ready, document, decisions, verified, review, job>>
-----------------------------------------------------------------------------
ApprovalStatuses == {"pending", "approved", "rejected", "suspended"}

(* details: every field of the registration is filled in.                  *)
Profile == [status : ApprovalStatuses, submitted : BOOLEAN, reason : BOOLEAN,
            details : BOOLEAN, terms : BOOLEAN, total_reviews : Nat]
NewProfile == [status |-> "pending", submitted |-> FALSE, reason |-> FALSE,
               details |-> FALSE, terms |-> FALSE, total_reviews |-> 0]

Document == [stored : BOOLEAN, type : {"id_proof", "other"},
             status : {"pending", "approved", "rejected"}]
NoDocument == [stored |-> FALSE, type |-> "other", status |-> "pending"]

NoJob == [op |-> "none"]
Job == {NoJob}
    \cup [op : {"save"}, row : Profile]
    \cup [op : {"submit", "approve", "reject"}]
    \cup [op : {"upload"}, id : Documents, type : {"id_proof", "other"}, old : SUBSET Documents]
    \cup [op : {"verify"}, id : Documents]
    \cup [op : {"review"}, booking : Bookings]

Take(r, task) == job[r] = NoJob /\ job' = [job EXCEPT ![r] = task]
Leave(r) == job' = [job EXCEPT ![r] = NoJob]
IdProofs == {d \in Documents : document[d].stored /\ document[d].type = "id_proof"}
-----------------------------------------------------------------------------
(* ArtistProfile.update, set_photos and remove_photo.                      *)
LoadProfile(r, details) ==
    /\ Take(r, [op |-> "save", row |-> [profile EXCEPT !.details = @ \/ details]])
    /\ UNCHANGED <<profile, ready, document, decisions, verified, review>>

SaveProfile(r) ==
    /\ job[r].op = "save"
    /\ profile' = job[r].row
    /\ Leave(r) /\ UNCHANGED <<ready, document, decisions, verified, review>>

AcceptAgreement ==
    /\ profile' = [profile EXCEPT !.terms = TRUE]
    /\ UNCHANGED <<ready, document, decisions, verified, review, job>>

OtherSteps ==                   \* what the artist does in the catalogue
    /\ ready' = ~ready
    /\ UNCHANGED <<profile, document, decisions, verified, review, job>>
-----------------------------------------------------------------------------
(* ArtistOnboardingView.submit_extract                                     *)
StepsDone == profile.details /\ profile.terms /\ ready /\ IdProofs # {}

SubmitBegin(r) ==
    /\ profile.status \notin {"approved", "suspended"} /\ StepsDone
    /\ Take(r, [op |-> "submit"])
    /\ UNCHANGED <<profile, ready, document, decisions, verified, review>>

(* Mutant: a resubmission leaves the profile rejected.                     *)
SubmittedOnly(row) == [row EXCEPT !.submitted = TRUE, !.reason = FALSE]

Submitted(row) == [row EXCEPT !.submitted = TRUE, !.status = "pending", !.reason = FALSE]

submit_for_review(r) ==
    /\ job[r].op = "submit"
    /\ profile' = Submitted(profile)
    /\ Leave(r) /\ UNCHANGED <<ready, document, decisions, verified, review>>

(* What the artist is told, from the columns of the profile first.         *)
_compute_status ==
    IF profile.status \in {"approved", "rejected", "suspended"} THEN profile.status
    ELSE IF profile.submitted THEN "submitted"
    ELSE IF profile.details \/ profile.terms \/ ready \/ IdProofs # {} THEN "in_progress"
    ELSE "not_started"

(* What the administrators have in front of them.                          *)
get_review_queue == profile.submitted /\ profile.status = "pending"

record(decision) == decisions' = decisions \cup {decision}

(* AdminArtistReviewView.  A repeated approval reads 'approved' and ends.  *)
Reviewable == profile.submitted /\ profile.status # "suspended"

(* Mutant: the artist is approved on the word of the ID proof alone.       *)
KycUploaded == IdProofs # {}

KycVerified == \E d \in IdProofs : document[d].status = "approved"

ApproveBegin(r) ==
    /\ Reviewable /\ KycVerified /\ profile.status # "approved"
    /\ Take(r, [op |-> "approve"])
    /\ UNCHANGED <<profile, ready, document, decisions, verified, review>>

approve(r) ==
    /\ job[r].op = "approve"
    /\ profile' = [profile EXCEPT !.status = "approved", !.reason = FALSE]
    /\ record("approved")
    /\ Leave(r) /\ UNCHANGED <<ready, document, verified, review>>

RejectBegin(r) ==
    /\ Reviewable
    /\ Take(r, [op |-> "reject"])
    /\ UNCHANGED <<profile, ready, document, decisions, verified, review>>

reject(r) ==
    /\ job[r].op = "reject"
    /\ profile' = [profile EXCEPT !.status = "rejected", !.submitted = FALSE, !.reason = TRUE]
    /\ record("rejected")
    /\ Leave(r) /\ UNCHANGED <<ready, document, verified, review>>

(* The administrators' site changes the status of an approved artist.      *)
Suspend ==
    /\ profile.status = "approved"
    /\ profile' = [profile EXCEPT !.status = "suspended"]
    /\ UNCHANGED <<ready, document, decisions, verified, review, job>>

Reinstate ==
    /\ profile.status = "suspended"
    /\ profile' = [profile EXCEPT !.status = "approved"]
    /\ UNCHANGED <<ready, document, decisions, verified, review, job>>
-----------------------------------------------------------------------------
(* ArtistDocumentView.  A new ID proof supersedes those its transaction    *)
(* sees; a row an administrator has locked is waited for.                  *)
(* Mutant: the row is not locked.                                          *)
DocumentUnlocked(d) == TRUE

DocumentFree(d) == \A r \in Requests : ~(job[r].op = "verify" /\ job[r].id = d)

Free(d) == ~document[d].stored /\ document[d] = NoDocument
           /\ \A r \in Requests : ~(job[r].op = "upload" /\ job[r].id = d)

UploadBegin(r, d, type) ==
    /\ Free(d)
    /\ Take(r, [op |-> "upload", id |-> d, type |-> type,
                old |-> IF type = "id_proof" THEN IdProofs ELSE {}])
    /\ UNCHANGED <<profile, ready, document, decisions, verified, review>>

Upload(r) ==
    /\ job[r].op = "upload"
    /\ \A d \in job[r].old : DocumentFree(d)
    /\ document' = [d \in Documents |->
          IF d = job[r].id THEN [stored |-> TRUE, type |-> job[r].type, status |-> "pending"]
          ELSE IF d \in job[r].old THEN [document[d] EXCEPT !.stored = FALSE]
          ELSE document[d]]
    /\ Leave(r) /\ UNCHANGED <<profile, ready, decisions, verified, review>>

DeleteDocument(d) ==
    /\ document[d].stored /\ DocumentFree(d)
    /\ document' = [document EXCEPT ![d].stored = FALSE]
    /\ UNCHANGED <<profile, ready, decisions, verified, review, job>>

(* AdminArtistDocumentView.verify_extract                                  *)
VerifyBegin(r, d) ==
    /\ document[d].stored /\ document[d].status = "pending" /\ DocumentFree(d)
    /\ Take(r, [op |-> "verify", id |-> d])
    /\ UNCHANGED <<profile, ready, document, decisions, verified, review>>

VerifyDocument(r, decision) ==
    /\ job[r].op = "verify"
    /\ document' = [document EXCEPT ![job[r].id].status = decision]
    /\ verified' = (verified \/ (decision = "approved" /\ document[job[r].id].type = "id_proof"))
    /\ Leave(r) /\ UNCHANGED <<profile, ready, decisions, review>>
-----------------------------------------------------------------------------
(* ReviewView.create_extract: the review and the count of the profile, the *)
(* latter under the row lock, or neither if the booking has one by now.    *)
ReviewBegin(r, b) ==
    /\ review[b] = "none"
    /\ Take(r, [op |-> "review", booking |-> b])
    /\ UNCHANGED <<profile, ready, document, decisions, verified, review>>

Unreviewed(b) == review[b] = "none"

record_review(r) ==
    /\ job[r].op = "review"
    /\ LET b == job[r].booking IN
       IF Unreviewed(b)
       THEN /\ review' = [review EXCEPT ![b] = "posted"]
            /\ profile' = [profile EXCEPT !.total_reviews = @ + 1]
       ELSE UNCHANGED <<review, profile>>
    /\ Leave(r) /\ UNCHANGED <<ready, document, decisions, verified>>
-----------------------------------------------------------------------------
ReviewInit ==
    /\ profile = NewProfile /\ ready = FALSE
    /\ document = [d \in Documents |-> NoDocument]
    /\ decisions = {} /\ verified = FALSE
    /\ review = [b \in Bookings |-> "none"]
    /\ job = [r \in Requests |-> NoJob]

ReviewNext ==
    \/ AcceptAgreement \/ OtherSteps \/ Suspend \/ Reinstate
    \/ \E r \in Requests :
          \/ \E details \in BOOLEAN : LoadProfile(r, details)
          \/ SaveProfile(r)
          \/ SubmitBegin(r) \/ submit_for_review(r)
          \/ ApproveBegin(r) \/ approve(r) \/ RejectBegin(r) \/ reject(r)
          \/ Upload(r) \/ record_review(r)
          \/ \E decision \in {"approved", "rejected"} : VerifyDocument(r, decision)
          \/ \E d \in Documents : VerifyBegin(r, d)
          \/ \E d \in Documents, type \in {"id_proof", "other"} : UploadBegin(r, d, type)
          \/ \E b \in Bookings : ReviewBegin(r, b)
    \/ \E d \in Documents : DeleteDocument(d)
-----------------------------------------------------------------------------
ReviewTypeOK ==
    /\ profile \in Profile /\ ready \in BOOLEAN
    /\ document \in [Documents -> Document]
    /\ decisions \subseteq {"approved", "rejected"} /\ verified \in BOOLEAN
    /\ review \in [Bookings -> {"none", "posted"}]
    /\ job \in [Requests -> Job]

(* approve_extract: whatever is submitted, decided, suspended, replaced or *)
(* saved from an old copy in between, an approved artist has had an ID     *)
(* proof approved and an approval on record.                               *)
ApprovedOnceVerified ==
    profile.status \in {"approved", "suspended"} => verified /\ "approved" \in decisions

(* submit_for_review and get_status_extract: whatever the order of         *)
(* resubmission, decision and stale save, a submitted profile is in the    *)
(* administrators' queue or accepted, with no old reason for a rejection,  *)
(* and an artist who is told to wait is in that queue.                     *)
SubmissionVisible ==
    /\ profile.submitted => ~profile.reason /\ (get_review_queue \/ _compute_status \in {"approved", "suspended"})
    /\ _compute_status = "submitted" => get_review_queue

(* ReviewView.create_extract: the profile never counts more reviews than   *)
(* its completed bookings were given, also when two are sent at once.      *)
RatingsBacked == profile.total_reviews <= Cardinality({b \in Bookings : review[b] # "none"})
=============================================================================
