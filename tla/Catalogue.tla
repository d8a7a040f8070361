------------------------------ MODULE Catalogue ------------------------------
(* What the document store promises the owner of a case, whatever requests   *)
(* and failures lie behind it: a document is put on the shelf once and stays *)
(* there until its owner's account is erased, which clears all of its        *)
(* shelves at once.  DocumentStore implements it.                            *)
CONSTANTS Accounts, Cases, Contents, None

VARIABLES
    accounts,  \* the accounts that have not been erased
    owner,     \* the account a case belongs to, None before it is opened
    shelf      \* the documents, each the case it is in and its content

vars == <<accounts, owner, shelf>>

Init ==
    /\ accounts = Accounts
    /\ owner = [c \in Cases |-> None]
    /\ shelf = {}

Open(a, c) ==
    /\ a \in accounts /\ owner[c] = None
    /\ owner' = [owner EXCEPT ![c] = a]
    /\ UNCHANGED <<accounts, shelf>>

Shelve(c, x) ==
    /\ owner[c] \in accounts /\ <<c, x>> \notin shelf
    /\ shelf' = shelf \cup {<<c, x>>}
    /\ UNCHANGED <<accounts, owner>>

Erase(a) ==
    /\ a \in accounts
    /\ accounts' = accounts \ {a}
    /\ shelf' = {d \in shelf : owner[d[1]] # a}
    /\ UNCHANGED owner

Next == \/ \E a \in Accounts, c \in Cases : Open(a, c)
        \/ \E c \in Cases, x \in Contents : Shelve(c, x)
        \/ \E a \in Accounts : Erase(a)

Spec == Init /\ [][Next]_vars
=============================================================================
