-------------------------- MODULE MC_IsoIngestion --------------------------
(***************************************************************************)
(* Messages about one payment.  It comes as pain.001, which names it by    *)
(* instruction and end-to-end id, and as pacs.008, which names it by       *)
(* transaction and end-to-end id.  One status report also names a payment  *)
(* that never comes.                                                       *)
(***************************************************************************)
EXTENDS IsoIngestion, TLC

Spelling == [id |-> [t1 |-> "t1", e1 |-> "e1", i1 |-> "i1", t2 |-> "t2", T1 |-> "t1"],
             currency |-> [EUR |-> "eur", eur |-> "eur"]]

Ids(t, e, i) == [transaction_id |-> t, end_to_end_id |-> e, instruction_id |-> i]
Money(a) == [amount |-> a, currency |-> "EUR"]

Pain1 == Ids(None, "e1", "i1") @@ Money("100")
Pacs1 == Ids("t1", "e1", None) @@ Money("100")

Status(ids, s) == ids @@ Money(None) @@ [status |-> s]

Entry(ids, a, ref) ==
  ids @@ Money(a) @@ [uetr |-> None, account_servicer_reference |-> None, entry_reference |-> ref,
                      credit_debit |-> "DBIT"]

Booked   == Entry(Ids("T1", "e1", None), "100", "n1")
Mismatch == Entry(Ids(None, "e1", None), "999", "n2")

MCBody ==
  [pain   |-> [kind |-> "payment",  items |-> <<Pain1>>],
   pacs   |-> [kind |-> "payment",  items |-> <<Pacs1>>],
   accept |-> [kind |-> "status",   items |-> <<Status(Ids(None, "e1", None), "ACCEPTED")>>],
   reject |-> [kind |-> "status",   items |-> <<Status(Ids("t1", None, None), "REJECTED")>>],
   mixed  |-> [kind |-> "status",   items |-> <<Status(Ids("t1", None, None), "ACCEPTED"),
                                                Status(Ids("t2", None, None), "REJECTED")>>],
   notice |-> [kind |-> "camt.054", items |-> <<Mismatch, Booked>>],
   slip   |-> [kind |-> "camt.054", items |-> <<Mismatch>>],
   again  |-> [kind |-> "camt.053", items |-> <<Mismatch, Booked, Mismatch>>],
   statement |-> [kind |-> "camt.053", items |-> <<Mismatch>>]]

\* Each request is named for the message it sends; a digit tells retries apart.
MCMessage ==
  [q \in Requests |->
     CASE q \in {"pain1", "pain2"}     -> "pain"
       [] q \in {"pacs1", "pacs2"}     -> "pacs"
       [] q \in {"accept1", "accept2"} -> "accept"
       [] q \in {"reject1", "reject2"} -> "reject"
       [] q \in {"mixed1", "mixed2"}   -> "mixed"
       [] q \in {"notice1", "notice2"} -> "notice"
       [] q \in {"slip1", "slip2"}     -> "slip"
       [] q \in {"again1", "again2"}   -> "again"
       [] q \in {"statement1", "statement2"} -> "statement"]
=============================================================================
