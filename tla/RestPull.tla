------------------------------ MODULE RestPull ------------------------------
(***************************************************************************)
(* A pull of the REST driver (drivers/rest/engine.py) inside the retries   *)
(* of the daemon: a book's recipes run in threading order, a recipe asks   *)
(* for page after page up to its cap, and its first payload feeds the      *)
(* bindings of later steps.  The records of the last step are the table.   *)
(*                                                                         *)
(* A page stands for its records.  Left out: the row limit that the driver *)
(* applies to the finished table, and the repair event that a payload      *)
(* outside its schema leaves for the operator.                             *)
(***************************************************************************)
EXTENDS Integers, Sequences

CONSTANTS Recipes,
          Threading,    \* the recipe of each step
          Reads,        \* the recipes that the bindings of each step read
          Kinds,        \* the kinds of pagination a recipe may declare
          MaxPages,     \* pagination.max_pages
          RetryLimit,   \* retries of the daemon after the first attempt
          MaxFaults,    \* bound: answers that the engine refuses
          MaxChanges    \* bound: changes of what the provider holds

ASSUME RestAssumption ==
    /\ Threading \in Seq(Recipes)
    /\ Len(Threading) > 0
    /\ Reads \in [1..Len(Threading) -> SUBSET Recipes]
    /\ \A s \in 1..Len(Threading) : \A r \in Reads[s] :
           \E j \in 1..(s - 1) : Threading[j] = r
    /\ Kinds \subseteq {"none", "cursor", "page", "link-header"}
    /\ MaxPages \in Nat \ {0}
    /\ RetryLimit \in Nat
    /\ MaxFaults \in Nat
    /\ MaxChanges \in Nat

VARIABLES
    kind,      \* the kind of pagination each recipe declares
    extent,    \* the pages the provider has for each recipe; past the cap: no end
    pc,        \* where the pull is
    attempt,   \* retries made in this pull
    step,      \* the step of the book under way
    page,      \* the page it asks for
    first,     \* the page of its first payload, 0 before
    records,   \* the pages it has read, each with whether more follow
    payloads,  \* the payload that bindings find for each recipe
    table,     \* the table last handed to the daemon
    faults, changes

book     == <<kind, extent, faults, changes>>
progress == <<step, page, first, records, payloads>>
vars     == <<book, pc, attempt, progress, table>>

Steps == 1..Len(Threading)
Resting == {"idle", "delivered", "failed"}
NoPayload == [step |-> 0, page |-> 0]
Records == [step : Steps, page : 1..MaxPages, more : BOOLEAN]

\* A recipe without pagination describes a source that answers in one response.
Extents(k) == IF k = "none" THEN {1} ELSE 1..(MaxPages + 1)

TypeOK ==
    /\ kind \in [Recipes -> Kinds]
    /\ extent \in [Recipes -> 1..(MaxPages + 1)]
    /\ pc \in Resting \union {"binding", "paging", "converting", "sleeping"}
    /\ attempt \in 0..RetryLimit
    /\ step \in Steps
    /\ page \in 1..MaxPages
    /\ first \in 0..MaxPages
    /\ records \in Seq(Records)
    /\ payloads \in [Recipes -> [step : 0..Len(Threading), page : 0..MaxPages]]
    /\ table \in Seq(Records)
    /\ faults \in 0..MaxFaults
    /\ changes \in 0..MaxChanges

Init ==
    /\ kind \in [Recipes -> Kinds]
    /\ extent \in [Recipes -> 1..(MaxPages + 1)]
    /\ \A r \in Recipes : extent[r] \in Extents(kind[r])
    /\ pc = "idle"
    /\ attempt = 0
    /\ step = 1
    /\ page = 1
    /\ first = 0
    /\ records = <<>>
    /\ payloads = [r \in Recipes |-> NoPayload]
    /\ table = <<>>
    /\ faults = 0
    /\ changes = 0

-----------------------------------------------------------------------------
(* Attempts: run_book is called anew by each, with nothing of the last.    *)

RunBook ==
    /\ pc' = "binding"
    /\ step' = 1
    /\ page' = 1
    /\ first' = 0
    /\ records' = <<>>
    /\ payloads' = [r \in Recipes |-> NoPayload]

\* Mutant: one retry more than there are delays.
AttemptFailsLate ==
    /\ pc' = IF attempt <= RetryLimit THEN "sleeping" ELSE "failed"
    /\ UNCHANGED <<attempt, progress, table>>

\* The daemon takes no error of the REST driver for permanent.
AttemptFails ==
    /\ pc' = IF attempt < RetryLimit THEN "sleeping" ELSE "failed"
    /\ UNCHANGED <<attempt, progress, table>>

StartPull ==
    /\ pc \in Resting
    /\ attempt' = 0
    /\ RunBook
    /\ UNCHANGED <<book, table>>

\* Mutant: each retry starts the count anew.
RetryStartsOver ==
    /\ pc = "sleeping"
    /\ attempt' = 0
    /\ RunBook
    /\ UNCHANGED <<book, table>>

RetryDelayExpires ==
    /\ pc = "sleeping"
    /\ attempt' = attempt + 1
    /\ RunBook
    /\ UNCHANGED <<book, table>>

Fault ==
    /\ faults < MaxFaults
    /\ faults' = faults + 1
    /\ UNCHANGED <<kind, extent, changes>>

-----------------------------------------------------------------------------
(* The steps of a book and the pages of a recipe.                          *)

Bind ==
    /\ pc = "binding"
    /\ pc' = "paging"
    /\ page' = 1
    /\ first' = 0
    /\ records' = <<>>
    /\ UNCHANGED <<book, attempt, step, payloads, table>>

\* A payload that its schema admits no longer has the value a binding reads.
BindingMissing ==
    /\ pc = "binding"
    /\ Reads[step] # {}
    /\ Fault
    /\ AttemptFails

\* Mutant: the cap counts as the end of the recipe.
HasNextWithinCap(r) == page < extent[r] /\ page < MaxPages

\* The provider says so with a cursor or a link; a page number always has a next.
HasNext(r) == kind[r] = "page" \/ page < extent[r]

\* Mutant: the payload of the last page is kept.
LastPayload == page

FirstPayload == IF first = 0 THEN page ELSE first

\* Mutant: the cap refuses its own last page.
ReachesCapEarly == page + 1 >= MaxPages

ReachesCap == page = MaxPages

ReadPage(r) ==
    /\ records' = Append(records,
                         [step |-> step, page |-> page, more |-> page < extent[r]])
    /\ first' = FirstPayload

NextPage ==
    LET r == Threading[step]
    IN  /\ pc = "paging"
        /\ HasNext(r)
        /\ ~ReachesCap
        /\ ReadPage(r)
        /\ page' = page + 1
        /\ UNCHANGED <<book, pc, attempt, step, payloads, table>>

\* What was read is gone with the exception.
CapReached ==
    /\ pc = "paging"
    /\ HasNext(Threading[step])
    /\ ReachesCap
    /\ AttemptFails
    /\ UNCHANGED book

RecipeEnds ==
    LET r == Threading[step]
    IN  /\ pc = "paging"
        /\ ~HasNext(r)
        /\ ReadPage(r)
        /\ payloads' = [payloads EXCEPT ![r] = [step |-> step, page |-> FirstPayload]]
        /\ \/ /\ step < Len(Threading)
              /\ step' = step + 1
              /\ pc' = "binding"
           \/ /\ step = Len(Threading)
              /\ pc' = "converting"
              /\ UNCHANGED step
        /\ UNCHANGED <<book, attempt, page, table>>

\* Transport, status, redirect, size, JSON, schema, extract path, next URL.
PageRefused ==
    /\ pc = "paging"
    /\ Fault
    /\ AttemptFails

Deliver ==
    /\ pc = "converting"
    /\ table' = records
    /\ pc' = "delivered"
    /\ UNCHANGED <<book, attempt, progress>>

\* A value does not fit the type its output column declares.
ConversionFails ==
    /\ pc = "converting"
    /\ Fault
    /\ AttemptFails

ProviderChanges(r) ==
    /\ changes < MaxChanges
    /\ changes' = changes + 1
    /\ \E n \in Extents(kind[r]) \ {extent[r]} : extent' = [extent EXCEPT ![r] = n]
    /\ UNCHANGED <<kind, faults, pc, attempt, progress, table>>

Pulls ==
    \/ StartPull \/ RetryDelayExpires
    \/ Bind \/ NextPage \/ CapReached \/ RecipeEnds \/ Deliver

Next ==
    \/ Pulls
    \/ BindingMissing \/ PageRefused \/ ConversionFails
    \/ \E r \in Recipes : ProviderChanges(r)

Spec == Init /\ [][Next]_vars

\* Cadence and backoff sleeps end, and so does a request: the client has a timeout.
FairSpec == Spec /\ WF_vars(Pulls)

-----------------------------------------------------------------------------
(* Properties.                                                             *)

\* The table that the driver returns is one unbroken run of the last step's
\* pages: each once and in order, none of an earlier step or attempt, and ended by
\* the provider rather than by the cap (run_book, run_recipe).
TableIsWhole ==
    \A i \in 1..Len(table) :
        /\ table[i].step = Len(Threading)
        /\ table[i].page = i
        /\ table[i].more <=> i < Len(table)

\* While a step runs, what its bindings have read is the first page of the latest
\* run of each recipe they name, in this attempt (run_book, run_recipe).
BindingsAreFirstPages ==
    pc = "paging" =>
        \A r \in Reads[step] :
            \E j \in 1..(step - 1) :
                /\ Threading[j] = r
                /\ \A k \in (j + 1)..(step - 1) : Threading[k] # r
                /\ payloads[r] = [step |-> j, page |-> 1]

\* A pull ends, delivered or failed, whatever the provider answers and although
\* page cap and retries multiply (run_recipe, _run_with_retries).
PullEnds == pc \notin Resting ~> pc \in Resting

BookEnds == \A r \in Recipes : extent[r] <= MaxPages

\* A book whose recipes all end within the cap is delivered again and again, once
\* refusals are over (_next_page_params).
EndingBooksDeliver == <>[]BookEnds => []<>(pc = "delivered")

\* The same of a book that does not page by number.
SignalledBooksDeliver == (\A r \in Recipes : kind[r] # "page") => EndingBooksDeliver
=============================================================================
