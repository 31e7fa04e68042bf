------------------------------ MODULE Listing ------------------------------
(***************************************************************************)
(* GET /leads, /customers and /notifications, which are one algorithm over *)
(* three tables: the rows of the user in X-User-ID, or of all users when   *)
(* the header is missing, newest first, one page of them.  A client reads  *)
(* a list page by page while rows are inserted.                            *)
(*                                                                         *)
(* created_at defaults to now(), the start of the transaction: a row may   *)
(* be committed after rows that started later, and several may start at    *)
(* the same time.  PostgreSQL puts equal timestamps in any order, another  *)
(* one for each query.                                                     *)
(*                                                                         *)
(* External: the client, which asks for the rows after those it has        *)
(* received until a page is empty.  Rows are never deleted.                *)
(***************************************************************************)
EXTENDS Integers, SequencesExt

CONSTANTS
  Rows,          (* rows ever inserted                                     *)
  Users,
  NoUser,        (* the empty X-User-ID                                    *)
  Owner,         (* user_id of each row                                    *)
  Asking,        (* values of limit in a request, 0 for one that is not a  *)
                 (* number                                                 *)
  MaxLimit,      (* largest page; 100 in the code                          *)
  DefaultLimit,  (* page for a limit out of range; 50 in the code          *)
  MaxClock       (* bound: instants at which transactions start            *)

ASSUME ListingAssumption ==
  /\ Owner \in [Rows -> Users]
  /\ NoUser \notin Users
  /\ Asking \subseteq Int
  /\ MaxLimit \in Nat /\ DefaultLimit \in 1..MaxLimit

VARIABLES
  clock,      (* now()                                                     *)
  createdAt,  (* start of the transaction that inserts each row, or 0      *)
  table,      (* committed rows                                            *)
  user,       (* X-User-ID of its requests, or NoUser                      *)
  asked,      (* limit it asks for                                         *)
  received,   (* the rows of its pages, in order                           *)
  paging,     (* whether it has not begun, is reading pages, or has ended  *)
  before,     (* history: rows of the table when it began                  *)
  late        (* history: rows committed since                             *)

requestVars == <<user, asked>>
clientVars == <<received, paging, before>>
listVars == <<clock, createdAt, table, requestVars, clientVars, late>>

ListInit ==
  /\ clock = 1
  /\ createdAt = [w \in Rows |-> 0]
  /\ table = {}
  /\ user \in Users \cup {NoUser} /\ asked \in Asking
  /\ received = <<>> /\ paging = "no"
  /\ before = {} /\ late = {}

-----------------------------------------------------------------------------
(* Inserts *)

Tick ==
  /\ clock < MaxClock
  /\ clock' = clock + 1
  /\ UNCHANGED <<createdAt, table, requestVars, clientVars, late>>

Start(w) ==
  /\ createdAt[w] = 0
  /\ createdAt' = [createdAt EXCEPT ![w] = clock]
  /\ UNCHANGED <<clock, table, requestVars, clientVars, late>>

CommitRow(w) ==
  /\ createdAt[w] # 0
  /\ w \notin table
  /\ table' = table \cup {w}
  /\ late' = IF paging = "yes" THEN late \cup {w} ELSE late
  /\ UNCHANGED <<clock, createdAt, requestVars, clientVars>>

-----------------------------------------------------------------------------
(* List *)

\* Mutant of EffectiveLimit: LIMIT 0 for a limit that is no number.
LimitUnchecked(limit) == IF limit > MaxLimit THEN DefaultLimit ELSE limit

EffectiveLimit(limit) == IF limit <= 0 \/ limit > MaxLimit THEN DefaultLimit ELSE limit
EffectiveOffset(offset) == IF offset < 0 THEN 0 ELSE offset

\* ORDER BY created_at DESC
Ordered(rows) ==
  {s \in SetToSeqs(rows) :
     \A i, j \in 1..Len(s) : i < j => createdAt[s[i]] >= createdAt[s[j]]}

\* WHERE ($1 = '' OR user_id = $1)
Visible(w) == user = NoUser \/ Owner[w] = user
Mine == {w \in table : Visible(w)}

\* LIMIT limit OFFSET offset
Slice(rows, limit, offset) == SubSeq(rows, offset + 1, Min({offset + limit, Len(rows)}))

\* Mutant of Page: no ORDER BY.
PageUnordered(limit, offset) == {Slice(s, limit, offset) : s \in SetToSeqs(Mine)}

\* The pages the query may return.
Page(limit, offset) == {Slice(s, limit, offset) : s \in Ordered(Mine)}

\* The first request of the client, or its next one.
List ==
  /\ paging # "end"
  /\ \E page \in Page(EffectiveLimit(asked), EffectiveOffset(Len(received))) :
       /\ received' = received \o page
       /\ paging' = IF page = <<>> THEN "end" ELSE "yes"
  /\ before' = IF paging = "no" THEN table ELSE before
  /\ UNCHANGED <<clock, createdAt, table, requestVars, late>>

\* An error of the database is answered 500: the client asks again.
ListNext ==
  \/ Tick
  \/ \E w \in Rows : Start(w) \/ CommitRow(w)
  \/ List

ListSpec == ListInit /\ [][ListNext]_listVars

-----------------------------------------------------------------------------
(* Properties *)

\* Visible rows with the same timestamp, which may change places.
Tied(w) == \E v \in Mine \ {w} : createdAt[v] = createdAt[w]

\* The rows the client has received.
Seen == {received[k] : k \in 1..Len(received)}

\* A client that has read to the end has received every row visible to it that was
\* there when it began and has a timestamp of its own, whatever limit it asked
\* for, and whatever was inserted on the way, in the middle included.
NoRowMissed ==
  paging = "end" => \A w \in before : Visible(w) /\ ~Tied(w) => w \in Seen

\* Without ties a row is only received twice because of an insert: each visible row
\* that is committed meanwhile repeats at most one.
LateMine == {w \in late : Visible(w)}

RepeatsBounded ==
  (\A w \in Mine : ~Tied(w)) => Len(received) <= Cardinality(Seen) + Cardinality(LateMine)

\* What makes these inductive: the rows before w in the list are those that are
\* newer; a row the client does not have is behind its offset; and of the rows it
\* has, each that is behind it again was moved there by a late row of its own, in
\* addition to the late rows of those it received twice.
Newer(w) == {v \in Mine : createdAt[v] > createdAt[w]}
Ahead(w) == Cardinality(Newer(w)) >= Len(received)

StillAhead ==
  paging = "yes" => \A w \in before : Visible(w) /\ ~Tied(w) => w \in Seen \/ Ahead(w)

MovedBack == {w \in Seen : Ahead(w)}

RepeatsPaidFor ==
  paging = "yes" /\ (\A w \in Mine : ~Tied(w)) =>
    Len(received) + Cardinality(MovedBack) <= Cardinality(Seen) + Cardinality(LateMine)

ListTypeOK ==
  /\ clock \in Nat \ {0} /\ createdAt \in [Rows -> Nat]
  /\ table \subseteq Rows /\ IsFiniteSet(table)
  /\ user \in Users \cup {NoUser} /\ asked \in Asking
  /\ received \in Seq(Rows) /\ paging \in {"no", "yes", "end"}
  /\ before \subseteq table /\ late \subseteq table

ListInv ==
  /\ ListTypeOK
  /\ \A w \in table : createdAt[w] # 0
  /\ Seen \subseteq Mine
  /\ paging = "no" => received = <<>>
  /\ StillAhead /\ NoRowMissed /\ RepeatsPaidFor /\ RepeatsBounded
=============================================================================
