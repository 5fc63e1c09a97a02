----------------------------- MODULE RecordStore -----------------------------
(***************************************************************************)
(* What lockedfile promises the apps that share a document: every accepted *)
(* operation is applied to it once and whole, to the result of the one     *)
(* before, or not at all, whatever the documents and operations are.       *)
(***************************************************************************)
EXTENDS Naturals

CONSTANTS Kinds, New(_),       \* the documents, and each before the first operation
          ApplyTo(_, _, _, _), \* what an operation makes of a document
          Shelves, Books, Callers, None

VARIABLES subject,  \* which of the documents this behaviour is about
          store,    \* its value
          pending,  \* the operation each caller has asked for
          shelfOf,  \* the real shelf of each book, as far as it is known
          date      \* today

svars == <<subject, store, pending, shelfOf, date>>

SInit ==
    /\ subject \in Kinds
    /\ store = New(subject)
    /\ pending = [c \in Callers |-> None]
    /\ shelfOf = [b \in Books |-> None]
    /\ date = 1

Ask(c) ==
    /\ pending[c] = None
    /\ pending'[c] # None
    /\ \A d \in Callers \ {c} : pending'[d] = pending[d]
    /\ UNCHANGED <<subject, store, shelfOf, date>>

\* The operation takes effect, with the shelves and the date of some moment since.
Commit(c) ==
    /\ pending[c] # None
    /\ pending' = [pending EXCEPT ![c] = None]
    /\ \E t \in 1..date, h \in [Books -> Shelves \cup {None}] :
          /\ \A b \in Books : h[b] \in {None, shelfOf[b]}
          /\ store' = ApplyTo(pending[c], store, h, t)
    /\ UNCHANGED <<subject, shelfOf, date>>

\* Operations fail, or their process ends.
Drop ==
    /\ \A c \in Callers : pending'[c] \in {None, pending[c]}
    /\ UNCHANGED <<subject, store, shelfOf, date>>

\* The world goes on.
Passes ==
    /\ date' >= date
    /\ \A b \in Books : shelfOf[b] # None => shelfOf'[b] = shelfOf[b]
    /\ UNCHANGED <<subject, store, pending>>

SNext == Drop \/ Passes \/ \E c \in Callers : Ask(c) \/ Commit(c)

SSpec == SInit /\ [][SNext]_svars
=============================================================================
