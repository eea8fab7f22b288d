---------------------------- MODULE PageSanitizer ----------------------------
(***************************************************************************)
(* A page of findings on its way out of the server: typedSanitizer's       *)
(* FindingPage, Finding and sanitizeDiagnosticText (internal/sanitizer).   *)
(* Every finding is checked and its two free texts are cut to a bound; the *)
(* texts of a page are counted together, and a page that is too large, or  *)
(* holds one finding that fails a check, is refused as a whole.            *)
(*                                                                         *)
(* A text is its length in bytes once its secrets are replaced; what the   *)
(* checks of the other fields find is one bit.  The sanitizer walks the    *)
(* page item by item.                                                      *)
(***************************************************************************)
EXTENDS Integers, Sequences

CONSTANTS MaxProblemBytes, MaxDetailsBytes, MaxPageDiagnosticBytes,
          MarkerBytes,   \* length of the truncation marker
          RuneBytes,     \* utf8.UTFMax
          MaxLimit,      \* finding.MaxLimit
          Lengths        \* of texts, after redaction

(* Policy.Validate.                                                         *)
ASSUME PolicyAssumption ==
    /\ MaxProblemBytes \in Nat /\ MaxDetailsBytes \in Nat
    /\ MaxPageDiagnosticBytes \in Nat
    /\ MarkerBytes \in Nat /\ RuneBytes \in Nat \ {0} /\ MaxLimit \in Nat
    /\ MaxProblemBytes > MarkerBytes /\ MaxDetailsBytes > MarkerBytes
    /\ MaxPageDiagnosticBytes >= MaxProblemBytes + MaxDetailsBytes
    /\ Lengths \subseteq Nat

Items == [valid : BOOLEAN, problem : Lengths, details : Lengths]

VARIABLES
    page,      \* what the backend returned
    safe,      \* the findings sanitized so far
    total,     \* totalDiagnosticBytes
    outcome    \* "walking", or what FindingPage returned

pageVars == <<page, safe, total, outcome>>

PageInit ==
    /\ page \in UNION {[1 .. n -> Items] : n \in 0 .. MaxLimit + 1}
    /\ safe = <<>>
    /\ total = 0
    /\ outcome = "walking"

-----------------------------------------------------------------------------
(* Fault: the marker is put after the bound.                                *)
TruncatedBefore(length, max) ==
    IF length <= max THEN {length}
    ELSE {cut + MarkerBytes : cut \in {c \in 0 .. max : c > max - RuneBytes}}

(* The lengths a text of that length may be cut to: the cut moves back to the
   start of a character.                                                    *)
Truncated(length, max) ==
    IF length <= max THEN {length}
    ELSE {cut + MarkerBytes :
            cut \in {c \in 0 .. max - MarkerBytes : c > max - MarkerBytes - RuneBytes}}

(* Fault: a text is counted before it is cut.                               *)
CountedRaw(item, problem, details) == item.problem + item.details

(* What a finding adds to totalDiagnosticBytes.                             *)
Counted(item, problem, details) == problem + details

(* Fault: a refused page leaves the loop without the refusal.               *)
FitsAlways(bytes) == TRUE

Fits(bytes) == bytes <= MaxPageDiagnosticBytes

Current == page[Len(safe) + 1]

Walking == outcome = "walking" /\ Len(page) <= MaxLimit

SanitizeItem ==
    /\ Walking /\ Len(safe) < Len(page)
    /\ Current.valid
    /\ \E problem \in Truncated(Current.problem, MaxProblemBytes),
          details \in Truncated(Current.details, MaxDetailsBytes) :
           /\ total' = total + Counted(Current, problem, details)
           /\ IF Fits(total')
              THEN /\ safe' = Append(safe, [valid |-> TRUE, problem |-> problem,
                                            details |-> details])
                   /\ UNCHANGED outcome
              ELSE /\ outcome' = "pageTooLarge"
                   /\ UNCHANGED safe
    /\ UNCHANGED page

RefuseItem ==
    /\ Walking /\ Len(safe) < Len(page)
    /\ ~Current.valid
    /\ outcome' = "unsafeField"
    /\ UNCHANGED <<page, safe, total>>

Publish ==
    /\ Walking /\ Len(safe) = Len(page)
    /\ outcome' = "published"
    /\ UNCHANGED <<page, safe, total>>

RefusePage ==
    /\ outcome = "walking" /\ Len(page) > MaxLimit
    /\ outcome' = "pageTooLarge"
    /\ UNCHANGED <<page, safe, total>>

PageNext == SanitizeItem \/ RefuseItem \/ Publish \/ RefusePage

PageSpec == PageInit /\ [][PageNext]_pageVars

-----------------------------------------------------------------------------
SafeItems == [valid : {TRUE}, problem : 0 .. MaxProblemBytes, details : 0 .. MaxDetailsBytes]

(* Every variable keeps its type: no text that leaves is longer than its
   bound, the marker of a cut included, so that a second pass leaves it as it
   is.                                                                      *)
PageTypeOK ==
    /\ page \in Seq(Items)
    /\ safe \in Seq(SafeItems) /\ Len(safe) <= Len(page)
    /\ total \in Nat
    /\ outcome \in {"walking", "published", "pageTooLarge", "unsafeField"}

Weight(item) == item.problem + item.details

(* The bytes of the first n published findings.                             *)
PublishedBytes ==
    LET upTo[n \in 0 .. Len(safe)] == IF n = 0 THEN 0 ELSE upTo[n - 1] + Weight(safe[n])
    IN upTo[Len(safe)]

(* A published page has all its findings and its texts stay within the bound
   of a page.                                                               *)
PublishedFits ==
    outcome = "published" =>
        /\ Len(safe) = Len(page)
        /\ PublishedBytes <= MaxPageDiagnosticBytes

(* However long the texts are, a page of no more findings than fit at their
   full bounds is never refused for its size.  With the default policy these
   are 51 findings: the default page of 50 gets through, pages the client
   asks to be longer may not.                                               *)
SmallPagesPass ==
    /\ Len(page) <= MaxLimit
    /\ Len(page) * (MaxProblemBytes + MaxDetailsBytes) <= MaxPageDiagnosticBytes
    => outcome # "pageTooLarge"
=============================================================================
