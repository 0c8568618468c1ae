---------------------------- MODULE TicketNumbers ----------------------------
(***************************************************************************)
(* Ticket numbers of a day.  Processes that create tickets read the        *)
(* highest number in the ledger and append a row keyed by the next one;    *)
(* the key decides who gets it.  An operator may name the number instead.  *)
(***************************************************************************)
EXTENDS Naturals, FiniteSets

CONSTANTS
  Creators,      \* processes that create tickets
  LastTicket,    \* 999: the last number the ticket format can hold
  MaxAttempts,   \* tries of one allocation
  MaxTickets

ASSUME TicketsAssumption ==
  MaxAttempts \in Nat \ {0} /\ LastTicket \in Nat \ {0}

VARIABLES tickets, creator    \* rows [number, by, named]; per creator [pc, seen, tries]

ticketVars == <<tickets, creator>>

Idle == [pc |-> "idle", seen |-> 0, tries |-> 0]

TicketsInit == tickets = {} /\ creator = [c \in Creators |-> Idle]

Numbers == {t.number : t \in tickets}
\* Mutant: the number that does not parse is read as well.
DayMaxLoose ==
  IF Numbers = {} THEN 0 ELSE CHOOSE n \in Numbers : \A m \in Numbers : m <= n

\* Only well-formed ticket ids count.
DayMax ==
  LET well == {n \in Numbers : n <= LastTicket}
  IN  IF well = {} THEN 0 ELSE CHOOSE n \in well : \A m \in well : m <= n

LookUp(c) ==
  /\ creator[c].pc = "idle" /\ Cardinality(tickets) < MaxTickets
  /\ creator' = [creator EXCEPT ![c] =
                   [pc |-> "append", seen |-> DayMax, tries |-> creator[c].tries + 1]]
  /\ UNCHANGED tickets

\* A number that is taken is looked up again, up to the last try.
Allocate(c) ==
  LET n == creator[c].seen + 1 IN
  /\ creator[c].pc = "append"
  /\ IF n \in Numbers
     THEN /\ creator' = [creator EXCEPT ![c].pc =
                           IF creator[c].tries = MaxAttempts THEN "failed" ELSE "idle"]
          /\ UNCHANGED tickets
     ELSE /\ tickets' = tickets \cup {[number |-> n, by |-> c, named |-> FALSE]}
          /\ creator' = [creator EXCEPT ![c] = Idle]

\* ticket create --ticket: a number in use is refused.
LookUpNamed(c, n) ==
  /\ creator[c].pc = "idle" /\ creator[c].tries = 0 /\ Cardinality(tickets) < MaxTickets
  /\ creator' = [creator EXCEPT ![c] =
                   IF n \in Numbers THEN Idle ELSE [pc |-> "named", seen |-> n, tries |-> 0]]
  /\ UNCHANGED tickets

\* store.append: a key taken since is no error, the stored row stands.
AppendNamed(c) ==
  LET n == creator[c].seen IN
  /\ creator[c].pc = "named"
  /\ tickets' = IF n \in Numbers THEN tickets
                ELSE tickets \cup {[number |-> n, by |-> c, named |-> TRUE]}
  /\ creator' = [creator EXCEPT ![c] = Idle]

TicketsNext ==
  \E c \in Creators :
    \/ LookUp(c) \/ Allocate(c) \/ AppendNamed(c)
    \/ \E n \in 1 .. LastTicket : LookUpNamed(c, n)

TicketsSpec == TicketsInit /\ [][TicketsNext]_ticketVars

-----------------------------------------------------------------------------
\* Every number is one ticket's; an automatic number follows one in use, so the
\* gaps of a day are those operators left; and the day ends one past the format:
\* that ticket's id no longer parses, so every later creation fails instead of
\* reusing it (allocate_ticket).
TicketsDistinct ==
  /\ \A s, t \in tickets : s.number = t.number => s = t
  /\ \A t \in tickets : t.named \/ t.number = 1 \/ t.number - 1 \in Numbers
  /\ \A t \in tickets : t.number <= LastTicket + 1

\* A creation gives up only on a full day or after as many tickets of rivals
\* as it has tries: a lost race means that somebody else got a ticket.
GivesUpOnlyToRivals ==
  \A c \in Creators : creator[c].pc = "failed" =>
    \/ LastTicket + 1 \in Numbers
    \/ Cardinality({t \in tickets : t.by # c}) >= MaxAttempts

\* Creations side by side share no number and give up for a reason.
TicketsSound == TicketsDistinct /\ GivesUpOnlyToRivals
=============================================================================
