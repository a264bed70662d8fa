------------------------------- MODULE Ledger -------------------------------
(***************************************************************************)
(* What calc promises to those who distribute the rewards: a book of       *)
(* cumulative amounts, a page per round.  Pages are only ever added, each  *)
(* lists the recipients of the page before with at least the same amounts, *)
(* and what is on display in the rewards directory is the whole book or    *)
(* nothing.                                                                *)
(***************************************************************************)
EXTENDS Integers, Sequences

CONSTANT Recipients

VARIABLES
    book,   \* the pages published so far, each a function on some of the Recipients
    shown   \* pages on display

vars == <<book, shown>>

IsPage(page) == DOMAIN page \subseteq Recipients /\ page \in [DOMAIN page -> Nat]

Grows(pages) ==
    \A i, j \in DOMAIN pages : i <= j =>
        \A r \in DOMAIN pages[i] : r \in DOMAIN pages[j] /\ pages[i][r] <= pages[j][r]

Init == book = <<>> /\ shown = 0

\* The directory is removed before a calculation.
Remove == shown' = 0 /\ UNCHANGED book

\* A calculation shows all pages, the known ones unchanged.
Publish ==
    /\ book' # <<>> /\ \A i \in DOMAIN book' : IsPage(book'[i])
    /\ Len(book) <= Len(book') /\ book = SubSeq(book', 1, Len(book))
    /\ Grows(book')
    /\ shown' = Len(book')

Next == Remove \/ Publish

Spec == Init /\ [][Next]_vars
=============================================================================
