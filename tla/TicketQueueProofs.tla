------------------------- MODULE TicketQueueProofs -------------------------
(***************************************************************************)
(* Proofs about the ticket queue, for every number of processes, tickets,  *)
(* releases and killed commands.                                           *)
(***************************************************************************)
EXTENDS TicketQueue, FiniteSetTheorems, WellFoundedInduction, TLAPS

-----------------------------------------------------------------------------
(* Sequence numbers: the lowest and the highest of a directory.             *)

\* Natural numbers have a least one,
LEMMA HasMin ==
    ASSUME NEW S, S \subseteq Nat, S # {}
    PROVE  \E m \in S : \A n \in S : m <= n
<1> DEFINE T == {0..n : n \in S}
<1>1. T \subseteq FiniteSubsetsOf(Nat) /\ T # {}
  <2>1. ASSUME NEW n \in S PROVE 0..n \in FiniteSubsetsOf(Nat)
    BY FS_Interval, n \in Nat DEF FiniteSubsetsOf
  <2> QED BY <2>1
<1>2. PICK X \in T : \A Y \in T : <<Y, X>> \notin StrictSubsetOrdering(Nat)
  <2> HIDE DEF T
  <2> QED BY <1>1, FS_StrictSubsetOrderingWellFounded, WFMin
<1>3. PICK m \in S : X = 0..m
  OBVIOUS
<1>4. ASSUME NEW n \in S, n < m PROVE FALSE
  <2>1. 0..n \in T
    OBVIOUS
  <2>2. 0..n \subseteq 0..m /\ m \in 0..m /\ m \notin 0..n
    BY <1>4
  <2>3. <<0..n, X>> \notin StrictSubsetOrdering(Nat)
    BY <1>2, <2>1
  <2>4. 0..n \in SUBSET Nat /\ 0..m \in SUBSET Nat /\ 0..n # 0..m
    BY <2>2
  <2> QED BY <2>2, <2>3, <2>4, <1>3 DEF StrictSubsetOrdering
<1> QED BY <1>4

\* and, if they are bounded, a greatest.
LEMMA HasMax ==
    ASSUME NEW S, NEW b \in Nat, S \subseteq 0..b, S # {}
    PROVE  \E m \in S : \A n \in S : n <= m
<1> DEFINE T == {b - n : n \in S}
<1>1. PICK m \in T : \A n \in T : m <= n
  <2>1. T \subseteq Nat
    BY SMT
  <2>2. T # {}
    OBVIOUS
  <2> HIDE DEF T
  <2> QED BY <2>1, <2>2, HasMin
<1>2. PICK k \in S : m = b - k
  OBVIOUS
<1>3. \A n \in S : b - k <= b - n
  BY <1>1, <1>2
<1> QED BY <1>2, <1>3

\* A directory of ticket files, with sequence numbers up to b.
AnyFile == [ticket : Tickets, seq : Nat \ {0}]
Dir(F, b) == F \subseteq AnyFile /\ \A f \in F : f.seq <= b

\* The next number is above all, and the next above the bound at most.
LEMMA NextIsAbove ==
    ASSUME NEW b \in Nat, NEW F, Dir(F, b)
    PROVE  /\ NextSeq(F) \in Nat \ {0}
           /\ NextSeq(F) <= b + 1
           /\ \A f \in F : f.seq < NextSeq(F)
<1>1. CASE F = {}
  BY <1>1 DEF NextSeq
<1>2. CASE F # {}
  <2> DEFINE S == {f.seq : f \in F}
  <2>1. S \subseteq 0..b /\ S # {}
    BY <1>2 DEF Dir, AnyFile
  <2>2. \E m \in S : \A n \in S : m >= n
    <3> HIDE DEF S
    <3>1. \A n \in S : n \in Nat
      BY <2>1
    <3> QED BY <2>1, <3>1, HasMax
  <2>3. Max(S) \in S /\ \A n \in S : Max(S) >= n
    <3> HIDE DEF S
    <3> QED BY <2>2 DEF Max
  <2>4. NextSeq(F) = Max(S) + 1
    BY <1>2 DEF NextSeq
  <2>5. Max(S) \in Nat /\ Max(S) <= b
    BY <2>1, <2>3
  <2>6. \A f \in F : f.seq \in Nat /\ f.seq \in S
    BY DEF Dir, AnyFile
  <2> HIDE DEF S
  <2> QED BY <2>3, <2>4, <2>5, <2>6
<1> QED BY <1>1, <1>2

\* Every ticket that has a file has an entry, its last file,
LEMMA EntryOf ==
    ASSUME NEW b \in Nat, NEW F, Dir(F, b), NEW f \in F
    PROVE  \E e \in Entries(F) : e.ticket = f.ticket
<1> DEFINE S == {g.seq : g \in FilesOf(F, f.ticket)}
<1>1. S \subseteq 0..b /\ S # {}
  BY DEF Dir, AnyFile, FilesOf
<1>2. PICK m \in S : \A n \in S : n <= m
  <2> HIDE DEF S
  <2> QED BY <1>1, HasMax
<1>3. PICK e \in FilesOf(F, f.ticket) : e.seq = m
  OBVIOUS
<1>4. \A g \in FilesOf(F, f.ticket) : g.seq <= e.seq
  BY <1>2, <1>3
<1>5. e \in F /\ e.ticket = f.ticket
  BY <1>3 DEF FilesOf
<1> QED BY <1>4, <1>5 DEF Entries

\* and only one.
LEMMA OneEntry ==
    ASSUME NEW b \in Nat, NEW F, Dir(F, b), NEW e \in Entries(F), NEW f \in Entries(F),
           e.ticket = f.ticket
    PROVE  e = f
<1>1. e.seq <= f.seq /\ f.seq <= e.seq
  BY DEF Entries, FilesOf
<1>2. e \in AnyFile /\ f \in AnyFile
  BY DEF Entries, Dir
<1> QED BY <1>1, <1>2 DEF AnyFile

\* What is an entry depends on the other files of its ticket only.
LEMMA EntriesAreLocal ==
    ASSUME NEW F, NEW G, NEW t, FilesOf(F, t) = FilesOf(G, t)
    PROVE  \A e : e.ticket = t => (e \in Entries(F) <=> e \in Entries(G))
BY DEF Entries, FilesOf

\* Next in line is a ticket of the queue.
LEMMA HeadIsQueued ==
    ASSUME NEW b \in Nat, NEW F, Dir(F, b), F # {}
    PROVE  Head(F) \in TicketsOf(F) /\ Head(F) \in Tickets
<1> DEFINE S == {e.seq : e \in Entries(F)}
<1>1. Entries(F) # {} /\ Entries(F) \subseteq F
  BY EntryOf DEF Entries
<1>2. S \subseteq Nat /\ S # {}
  BY <1>1 DEF Dir, AnyFile
<1>3. PICK m \in S : \A n \in S : m <= n
  <2> HIDE DEF S
  <2> QED BY <1>2, HasMin
<1>4. \E f \in Entries(F) : \A g \in Entries(F) : f.seq <= g.seq
  BY <1>3
<1>5. (CHOOSE f \in Entries(F) : \A g \in Entries(F) : f.seq <= g.seq) \in Entries(F)
  BY <1>4
<1> QED BY <1>1, <1>5 DEF Head, TicketsOf, Dir, AnyFile

-----------------------------------------------------------------------------
(* The operations of the queue.                                             *)

\* A queue whose numbers stay within b, also after the move that its open window
\* may end in.
Window(q) == IF q.window = NoTicket THEN 0 ELSE 1
QueueOK(q, b) ==
    /\ q \in [files : SUBSET AnyFile, window : Tickets \cup {NoTicket}, old : BOOLEAN]
    /\ Window(q) <= b
    /\ \A f \in q.files : f.seq + Window(q) <= b

\* The window is nobody's, or a queued ticket's.
WindowOK(q) == q.window \in TicketsOf(q.files) \cup {NoTicket}

Single(F) == \A f, g \in F : f.ticket = g.ticket => f = g

LEMMA QueueIsDir ==
    ASSUME NEW b \in Nat, NEW q, QueueOK(q, b)
    PROVE  Dir(q.files, b)
BY DEF QueueOK, Dir, AnyFile, Window

LEMMA RaiseBound ==
    ASSUME NEW b \in Nat, NEW c \in Nat, b <= c, NEW q, QueueOK(q, b)
    PROVE  QueueOK(q, c)
BY DEF QueueOK, AnyFile, Window

LEMMA CloseKeeps ==
    ASSUME NEW b \in Nat, NEW q, QueueOK(q, b)
    PROVE  /\ CloseWindow(q).files = q.files
           /\ CloseWindow(q).window = NoTicket
           /\ QueueOK(CloseWindow(q), b)
           /\ q.window # NoTicket =>
                  b - 1 \in Nat /\ QueueOK(CloseWindow(q), b - 1) /\ Dir(q.files, b - 1)
<1> USE DEF QueueOK, CloseWindow, Window
<1>1. CloseWindow(q) \in [files : SUBSET AnyFile, window : Tickets \cup {NoTicket}, old : BOOLEAN]
  OBVIOUS
<1>2. CloseWindow(q).files = q.files /\ CloseWindow(q).window = NoTicket
  OBVIOUS
<1>3. \A f \in q.files : f.seq \in Nat \ {0}
  BY DEF AnyFile
<1> QED BY <1>1, <1>2, <1>3 DEF Dir

\* Removing files keeps a queue in bounds.
LEMMA FewerFiles ==
    ASSUME NEW b \in Nat, NEW q, QueueOK(q, b), NEW F \in SUBSET q.files
    PROVE  /\ [q EXCEPT !.files = F].files = F
           /\ [q EXCEPT !.files = F].window = q.window
           /\ [q EXCEPT !.files = F].old = q.old
           /\ QueueOK([q EXCEPT !.files = F], b)
BY DEF QueueOK, Window

\* prune leaves one file, the entry, of every ticket that is not too old.
LEMMA PruneKeeps ==
    ASSUME NEW b \in Nat, NEW q, QueueOK(q, b)
    PROVE  /\ QueueOK(Prune(q), b)
           /\ Prune(q).files = {f \in Entries(q.files) : f.ticket \notin aged}
           /\ TicketsOf(Prune(q).files) = TicketsOf(q.files) \ aged
           /\ Single(Prune(q).files)
           /\ (Prune(q).window = q.window /\ Prune(q).old = q.old) \/ Prune(q).window = NoTicket
           /\ WindowOK(q) => WindowOK(Prune(q))
<1> DEFINE kept == {f \in Entries(q.files) : f.ticket \notin aged}
           pruned == [q EXCEPT !.files = kept]
<1>1. kept \in SUBSET q.files
  BY DEF Entries
<1>2. Dir(q.files, b)
  BY QueueIsDir
<1>3. /\ pruned.files = kept /\ pruned.window = q.window /\ pruned.old = q.old
      /\ QueueOK(pruned, b)
  BY <1>1, FewerFiles
<1>4. Single(kept)
  BY <1>2, OneEntry DEF Single
<1>5. TicketsOf(kept) = TicketsOf(q.files) \ aged
  <2>1. ASSUME NEW t \in TicketsOf(q.files) \ aged PROVE t \in TicketsOf(kept)
    <3>1. PICK f \in q.files : f.ticket = t
      BY DEF TicketsOf
    <3>2. PICK e \in Entries(q.files) : e.ticket = t
      BY <1>2, <3>1, EntryOf
    <3> QED BY <3>2 DEF TicketsOf
  <2> QED BY <1>1, <2>1 DEF TicketsOf
<1>6. /\ CloseWindow(pruned).files = kept /\ CloseWindow(pruned).window = NoTicket
      /\ QueueOK(CloseWindow(pruned), b)
  BY <1>3, CloseKeeps
<1>7. Prune(q) = IF q.window \in TicketsOf(q.files) \cap aged THEN CloseWindow(pruned) ELSE pruned
  BY DEF Prune
<1> HIDE DEF kept, pruned
<1>8. CASE q.window \in TicketsOf(q.files) \cap aged
  BY <1>4, <1>5, <1>6, <1>7, <1>8 DEF WindowOK, kept
<1>9. CASE q.window \notin TicketsOf(q.files) \cap aged
  BY <1>3, <1>4, <1>5, <1>7, <1>9 DEF WindowOK, kept
<1> QED BY <1>8, <1>9

\* A ticket that gets a new file, and loses an old one or none, is behind all
\* others; nothing else changes.
LEMMA MovedToBack ==
    ASSUME NEW b \in Nat, NEW F, Dir(F, b), NEW t \in TicketsOf(F),
           NEW G, NewFile(F, t) \in G, G \subseteq F \cup {NewFile(F, t)},
           \A f \in F \ G : f.ticket = t
    PROVE  /\ Dir(G, b + 1)
           /\ TicketsOf(G) = TicketsOf(F)
           /\ \A g \in Entries(G) :
                 g \in Entries(F) \/ (g.ticket = t /\ \A f \in F : f.seq < g.seq)
           /\ Single(F) /\ F \ G # {} => Single(G)
<1> DEFINE n == NewFile(F, t)
<1>1. /\ n.ticket = t /\ n.seq = NextSeq(F) /\ n.seq \in Nat \ {0} /\ n.seq <= b + 1
      /\ \A f \in F : f.seq < n.seq
  BY NextIsAbove DEF NewFile
<1>2. t \in Tickets
  BY DEF TicketsOf, Dir, AnyFile
<1>3. n \in AnyFile
  BY <1>1, <1>2 DEF NewFile, AnyFile
<1> HIDE DEF n
<1>4. n \in G /\ G \subseteq F \cup {n}
  BY DEF n
<1>5. \A f \in F : f.seq \in Nat /\ f.seq <= b
  BY DEF Dir, AnyFile
<1>6. Dir(G, b + 1)
  BY <1>1, <1>3, <1>4, <1>5 DEF Dir
<1>7. TicketsOf(G) = TicketsOf(F)
  BY <1>1, <1>4 DEF TicketsOf
<1>8. ASSUME NEW g \in Entries(G)
      PROVE  g \in Entries(F) \/ (g.ticket = t /\ \A f \in F : f.seq < g.seq)
  <2>1. CASE g.ticket = t
    <3>1. n.seq <= g.seq
      BY <1>1, <1>4, <2>1 DEF Entries, FilesOf
    <3>2. g = n \/ g.seq < n.seq
      BY <1>1, <1>4 DEF Entries
    <3>3. g.seq \in Nat
      BY <1>6 DEF Entries, Dir, AnyFile
    <3> QED BY <1>1, <2>1, <3>1, <3>2, <3>3
  <2>2. CASE g.ticket # t
    <3>1. FilesOf(F, g.ticket) = FilesOf(G, g.ticket)
      BY <1>1, <1>4, <2>2 DEF FilesOf
    <3> QED BY <3>1, EntriesAreLocal
  <2> QED BY <2>1, <2>2
<1>9. Single(F) /\ F \ G # {} => Single(G)
  BY <1>1, <1>4 DEF Single
<1> QED BY <1>6, <1>7, <1>8, <1>9

\* The entries of r are entries of q, except those of the tickets in C, of tickets
\* q does not have, and of the ticket whose window expired: that one is last.
InOrder(q, r, C) ==
    \A g \in Entries(r.files) :
        \/ g.ticket \in C
        \/ g.ticket \notin TicketsOf(q.files)
        \/ g \in Entries(q.files)
        \/ /\ Expired(q)
           /\ g.ticket = q.window
           /\ \A f \in Entries(q.files) : f.ticket \in TicketsOf(r.files) => f.seq < g.seq

\* Then no other ticket is overtaken.
LEMMA OrderIsFirstInFirstOut ==
    ASSUME NEW b \in Nat, NEW q, Dir(q.files, b), NEW r, NEW c \in Nat, Dir(r.files, c),
           NEW C, InOrder(q, r, C),
           NEW s, NEW t, s \notin C, t \notin C,
           NEW f \in Entries(q.files), NEW g \in Entries(q.files),
           f.ticket = s, g.ticket = t, f.seq < g.seq,
           NEW h \in Entries(r.files), NEW k \in Entries(r.files),
           h.ticket = t, k.ticket = s, h.seq < k.seq
    PROVE  Expired(q) /\ q.window = s
<1>1. f.ticket \in TicketsOf(q.files) /\ g.ticket \in TicketsOf(q.files)
  BY DEF TicketsOf, Entries
<1>2. CASE k \notin Entries(q.files)
  BY <1>1, <1>2 DEF InOrder
<1>3. CASE k \in Entries(q.files)
  <2>1. k = f
    BY <1>3, OneEntry
  <2>2. h # g
    BY <2>1 DEF Entries, Dir, AnyFile
  <2>3. h \notin Entries(q.files)
    BY <2>2, OneEntry
  <2>4. \A e \in Entries(q.files) : e.ticket \in TicketsOf(r.files) => e.seq < h.seq
    BY <1>1, <2>3 DEF InOrder
  <2>5. k.ticket \in TicketsOf(r.files)
    BY DEF TicketsOf, Entries
  <2>6. k.seq < h.seq
    BY <1>3, <2>4, <2>5
  <2>7. k.seq \in Nat /\ h.seq \in Nat
    BY DEF Entries, Dir, AnyFile
  <2> QED BY <2>6, <2>7
<1> QED BY <1>2, <1>3

\* An expired window moves its ticket behind the others: bounds, tickets and files
\* per ticket are kept.
LEMMA MoveKeeps ==
    ASSUME NEW b \in Nat, NEW q, QueueOK(q, b), q.window # NoTicket,
           NEW G, G = q.files \/ /\ q.window \in TicketsOf(q.files)
                                 /\ NewFile(q.files, q.window) \in G
                                 /\ G \subseteq q.files \cup {NewFile(q.files, q.window)}
                                 /\ \A f \in q.files \ G : f.ticket = q.window
    PROVE  /\ QueueOK([CloseWindow(q) EXCEPT !.files = G], b)
           /\ [CloseWindow(q) EXCEPT !.files = G].files = G
           /\ [CloseWindow(q) EXCEPT !.files = G].window = NoTicket
           /\ TicketsOf(G) = TicketsOf(q.files)
           /\ \A g \in Entries(G) :
                 g \in Entries(q.files) \/ (g.ticket = q.window /\ \A f \in q.files : f.seq < g.seq)
           /\ Single(q.files) /\ q.files \ G # {} => Single(G)
<1>1. PICK a \in Nat : Dir(q.files, a) /\ a + 1 = b
  <2>1. b - 1 \in Nat /\ Dir(q.files, b - 1)
    BY CloseKeeps
  <2>2. (b - 1) + 1 = b
    OBVIOUS
  <2> QED BY <2>1, <2>2
<1>2. /\ Dir(G, b) /\ TicketsOf(G) = TicketsOf(q.files)
      /\ \A g \in Entries(G) :
            g \in Entries(q.files) \/ (g.ticket = q.window /\ \A f \in q.files : f.seq < g.seq)
      /\ Single(q.files) /\ q.files \ G # {} => Single(G)
  <2>1. CASE G = q.files
    BY <2>1, QueueIsDir
  <2>2. CASE G # q.files
    <3>1. /\ q.window \in TicketsOf(q.files)
          /\ NewFile(q.files, q.window) \in G
          /\ G \subseteq q.files \cup {NewFile(q.files, q.window)}
          /\ \A f \in q.files \ G : f.ticket = q.window
      BY <2>2
    <3>2. /\ Dir(G, a + 1)
          /\ TicketsOf(G) = TicketsOf(q.files)
          /\ \A g \in Entries(G) :
                g \in Entries(q.files) \/ (g.ticket = q.window /\ \A f \in q.files : f.seq < g.seq)
          /\ Single(q.files) /\ q.files \ G # {} => Single(G)
      BY <1>1, <3>1, MovedToBack
    <3> QED BY <1>1, <3>2
  <2> QED BY <2>1, <2>2
<1>3. CloseWindow(q) \in [files : SUBSET AnyFile, window : Tickets \cup {NoTicket}, old : BOOLEAN]
  BY CloseKeeps DEF QueueOK
<1>4. CloseWindow(q).window = NoTicket
  BY CloseKeeps
<1> QED BY <1>2, <1>3, <1>4 DEF QueueOK, Dir, Window, AnyFile

\* expire_and_get_claim_holder.
LEMMA ExpireKeeps ==
    ASSUME NEW b \in Nat, NEW q, QueueOK(q, b), NEW r \in Expire(q)
    PROVE  /\ QueueOK(r, b)
           /\ TicketsOf(r.files) = TicketsOf(q.files)
           /\ Single(q.files) => Single(r.files)
           /\ r.window \in {q.window, NoTicket}
           /\ WindowOK(q) => WindowOK(r)
           /\ \A g \in Entries(r.files) :
                 \/ g \in Entries(q.files)
                 \/ Expired(q) /\ g.ticket = q.window /\ \A f \in q.files : f.seq < g.seq
<1>1. CASE ~Expired(q)
  BY <1>1 DEF Expire
<1>2. CASE Expired(q)
  <2> DEFINE w == q.window
             c == CloseWindow(q)
             n == NewFile(q.files, w)
  <2>1. w # NoTicket
    BY <1>2 DEF Expired
  <2>2. c.files = q.files /\ c.window = NoTicket /\ QueueOK(c, b)
    BY CloseKeeps
  <2>3. CASE FilesOf(q.files, w) = {}
    <3>1. r = c
      BY <1>2, <2>2, <2>3 DEF Expire, SendToBack
    <3> QED BY <2>2, <3>1 DEF WindowOK
  <2>4. CASE FilesOf(q.files, w) # {}
    <3>1. PICK f \in FilesOf(q.files, w) : r = [Requeued(c, w) EXCEPT !.files = @ \ {f}]
      BY <1>2, <2>2, <2>4 DEF Expire, SendToBack
    <3> DEFINE G == (q.files \cup {n}) \ {f}
    <3>2. Requeued(c, w) = [c EXCEPT !.files = q.files \cup {n}]
      BY <2>2, <2>4 DEF Requeued
    <3>3. c \in [files : SUBSET AnyFile, window : Tickets \cup {NoTicket}, old : BOOLEAN]
      BY <2>2 DEF QueueOK
    <3>4. r = [c EXCEPT !.files = G]
      BY <3>1, <3>2, <3>3
    <3>5. f \in q.files /\ f.ticket = w /\ w \in TicketsOf(q.files)
      BY DEF FilesOf, TicketsOf
    <3>6. f.seq < n.seq
      BY <3>5, QueueIsDir, NextIsAbove DEF NewFile
    <3>7. n # f
      BY <3>5, <3>6 DEF QueueOK, AnyFile
    <3>8. /\ w \in TicketsOf(q.files) /\ n \in G /\ G \subseteq q.files \cup {n}
          /\ \A e \in q.files \ G : e.ticket = w
          /\ q.files \ G # {}
      BY <3>5, <3>7
    <3> HIDE DEF G
    <3>9. /\ QueueOK([c EXCEPT !.files = G], b)
          /\ [c EXCEPT !.files = G].files = G
          /\ [c EXCEPT !.files = G].window = NoTicket
          /\ TicketsOf(G) = TicketsOf(q.files)
          /\ \A g \in Entries(G) :
                g \in Entries(q.files) \/ (g.ticket = w /\ \A e \in q.files : e.seq < g.seq)
          /\ Single(q.files) /\ q.files \ G # {} => Single(G)
      BY <2>1, <3>8, MoveKeeps, Zenon
    <3> QED BY <1>2, <3>4, <3>8, <3>9 DEF WindowOK
  <2> QED BY <2>3, <2>4
<1> QED BY <1>1, <1>2

\* So a ticket that is moved within K, the files of q or what prune leaves of them,
\* keeps the order.
LEMMA MoveIsOrderly ==
    ASSUME NEW q, NEW K, Entries(K) \subseteq Entries(q.files),
           \A f \in Entries(q.files) : f.ticket \in TicketsOf(K) => f \in K,
           NEW r, TicketsOf(r.files) = TicketsOf(K),
           \A g \in Entries(r.files) :
               \/ g \in Entries(K)
               \/ Expired(q) /\ g.ticket = q.window /\ \A f \in K : f.seq < g.seq
    PROVE  InOrder(q, r, {})
<1> SUFFICES ASSUME NEW g \in Entries(r.files), g \notin Entries(q.files)
             PROVE  /\ Expired(q)
                    /\ g.ticket = q.window
                    /\ \A f \in Entries(q.files) : f.ticket \in TicketsOf(r.files) => f.seq < g.seq
  BY DEF InOrder
<1> QED OBVIOUS

\* Both, as every claim begins.
LEMMA RefreshKeeps ==
    ASSUME NEW b \in Nat, NEW q, QueueOK(q, b), NEW r \in Expire(Prune(q))
    PROVE  /\ QueueOK(r, b)
           /\ TicketsOf(r.files) = TicketsOf(q.files) \ aged
           /\ Single(r.files)
           /\ r.window \in {q.window, NoTicket}
           /\ WindowOK(q) => WindowOK(r)
           /\ InOrder(q, r, {})
<1> DEFINE k == Prune(q)
<1>1. /\ QueueOK(k, b)
      /\ k.files = {f \in Entries(q.files) : f.ticket \notin aged}
      /\ TicketsOf(k.files) = TicketsOf(q.files) \ aged
      /\ Single(k.files)
      /\ (k.window = q.window /\ k.old = q.old) \/ k.window = NoTicket
      /\ WindowOK(q) => WindowOK(k)
  BY PruneKeeps
<1> HIDE DEF k
<1>2. /\ QueueOK(r, b)
      /\ TicketsOf(r.files) = TicketsOf(k.files)
      /\ Single(r.files)
      /\ r.window \in {k.window, NoTicket}
      /\ WindowOK(k) => WindowOK(r)
      /\ \A g \in Entries(r.files) :
            \/ g \in Entries(k.files)
            \/ Expired(k) /\ g.ticket = k.window /\ \A f \in k.files : f.seq < g.seq
  BY <1>1, ExpireKeeps DEF k
<1>3. /\ Entries(k.files) \subseteq Entries(q.files)
      /\ \A f \in Entries(q.files) : f.ticket \in TicketsOf(k.files) => f \in k.files
  BY <1>1 DEF Entries
<1>4. \A g \in Entries(r.files) :
          \/ g \in Entries(k.files)
          \/ Expired(q) /\ g.ticket = q.window /\ \A f \in k.files : f.seq < g.seq
  BY <1>1, <1>2 DEF Expired
<1>5. InOrder(q, r, {})
  BY <1>2, <1>3, <1>4, MoveIsOrderly
<1> QED BY <1>1, <1>2, <1>5

\* Without some litter, or with some of the entries alone, no entry is new.
LEMMA FewerEntries ==
    ASSUME NEW b \in Nat, NEW F, Dir(F, b), NEW G, G \subseteq F,
           F \ G \subseteq Litter(F) \/ G \subseteq Entries(F)
    PROVE  Entries(G) \subseteq Entries(F)
<1>1. CASE G \subseteq Entries(F)
  BY <1>1 DEF Entries
<1>2. CASE F \ G \subseteq Litter(F)
  <2> SUFFICES ASSUME NEW g \in Entries(G) PROVE g \in Entries(F)
    OBVIOUS
  <2>1. g \in F /\ Dir(G, b)
    BY DEF Entries, Dir
  <2>2. PICK e \in Entries(F) : e.ticket = g.ticket
    BY <2>1, EntryOf
  <2>3. e \in G
    BY <1>2, <2>2 DEF Entries, Litter
  <2>4. e.seq <= g.seq /\ g.seq <= e.seq
    BY <2>1, <2>2, <2>3 DEF Entries, FilesOf
  <2>5. e = g
    BY <2>1, <2>2, <2>3, <2>4 DEF Dir, AnyFile
  <2> QED BY <2>2, <2>5
<1> QED BY <1>1, <1>2

\* What may follow a change of the queue that keeps the order: files removed that
\* leave no new entry, except of the tickets in C.
LEMMA OrderStays ==
    ASSUME NEW q, NEW r, NEW u, NEW C, InOrder(q, r, {}),
           TicketsOf(u.files) \subseteq TicketsOf(r.files),
           \A g \in Entries(u.files) : g.ticket \in C \/ g \in Entries(r.files)
    PROVE  InOrder(q, u, C)
BY DEF InOrder

\* Unlinking a file of t, with or without closing its window.
LEMMA UnlinkKeeps ==
    ASSUME NEW b \in Nat, NEW q, QueueOK(q, b), NEW t, NEW u \in Unlinked(q, t)
    PROVE  /\ QueueOK(u, b) /\ QueueOK(CloseFor(u, t), b)
           /\ CloseFor(u, t).files = u.files
           /\ u.window = q.window /\ CloseFor(u, t).window \in {q.window, NoTicket}
           /\ u.files \subseteq q.files
           /\ TicketsOf(u.files) \subseteq TicketsOf(q.files)
           /\ TicketsOf(q.files) \subseteq TicketsOf(u.files) \cup {t}
           /\ \A g \in Entries(u.files) : g.ticket = t \/ g \in Entries(q.files)
           /\ Single(q.files) => Entries(u.files) \subseteq Entries(q.files)
           /\ WindowOK(q) => WindowOK(CloseFor(u, t))
<1>1. /\ QueueOK(u, b)
      /\ u.files \subseteq q.files
      /\ \A f \in q.files \ u.files : f.ticket = t
      /\ u.window = q.window
  <2>1. CASE FilesOf(q.files, t) = {}
    <3>1. u = q
      BY <2>1 DEF Unlinked
    <3> QED BY <3>1
  <2>2. CASE FilesOf(q.files, t) # {}
    <3>1. PICK f \in FilesOf(q.files, t) : u = [q EXCEPT !.files = @ \ {f}]
      BY <2>2 DEF Unlinked
    <3>2. q.files \ {f} \in SUBSET q.files /\ f.ticket = t
      BY DEF FilesOf
    <3>3. u = [q EXCEPT !.files = q.files \ {f}]
      BY <3>1 DEF QueueOK
    <3> QED BY <3>2, <3>3, FewerFiles
  <2> QED BY <2>1, <2>2
<1>2. /\ QueueOK(CloseFor(u, t), b)
      /\ CloseFor(u, t).files = u.files
      /\ CloseFor(u, t).window = NoTicket \/ (CloseFor(u, t).window = q.window /\ q.window # t)
  <2>1. CASE u.window = t
    <3>1. CloseFor(u, t) = CloseWindow(u)
      BY <2>1 DEF CloseFor
    <3>2. /\ CloseWindow(u).files = u.files /\ CloseWindow(u).window = NoTicket
          /\ QueueOK(CloseWindow(u), b)
      BY <1>1, CloseKeeps
    <3> QED BY <3>1, <3>2
  <2>2. CASE u.window # t
    BY <1>1, <2>2 DEF CloseFor
  <2> QED BY <2>1, <2>2
<1>3. /\ TicketsOf(u.files) \subseteq TicketsOf(q.files)
      /\ TicketsOf(q.files) \subseteq TicketsOf(u.files) \cup {t}
  BY <1>1 DEF TicketsOf
<1>4. ASSUME NEW g \in Entries(u.files), g.ticket # t PROVE g \in Entries(q.files)
  <2>1. FilesOf(q.files, g.ticket) = FilesOf(u.files, g.ticket)
    BY <1>1, <1>4 DEF FilesOf
  <2> QED BY <2>1, EntriesAreLocal
<1>5. ASSUME Single(q.files) PROVE Entries(u.files) \subseteq Entries(q.files)
  <2>1. \A g \in q.files : g.seq <= g.seq
    BY <1>1 DEF QueueOK, AnyFile
  <2> QED BY <1>1, <1>5, <2>1 DEF Single, Entries, FilesOf
<1>6. WindowOK(q) => WindowOK(CloseFor(u, t))
  BY <1>2, <1>3 DEF WindowOK
<1> QED BY <1>1, <1>2, <1>3, <1>4, <1>5, <1>6

\* A newcomer is queued behind all, under a ticket of its own.
LEMMA EnqueueKeeps ==
    ASSUME NEW b \in Nat, NEW q, QueueOK(q, b), NEW t \in Tickets
    PROVE  /\ QueueOK(Enqueue(q, t), b + 1)
           /\ TicketsOf(Enqueue(q, t).files) = TicketsOf(q.files) \cup {t}
           /\ \A g \in Entries(Enqueue(q, t).files) : g.ticket = t \/ g \in Entries(q.files)
           /\ Enqueue(q, t).window = q.window
           /\ WindowOK(q) => WindowOK(Enqueue(q, t))
<1> DEFINE n == NewFile(q.files, t)
           G == q.files \cup {n}
<1>1. Dir(q.files, b)
  BY QueueIsDir
<1>2. n.ticket = t /\ n.seq \in Nat \ {0} /\ n \in AnyFile
  BY <1>1, NextIsAbove DEF NewFile, AnyFile
<1>3. n.seq + Window(q) <= b + 1
  <2>1. CASE q.window = NoTicket
    BY <1>1, <2>1, NextIsAbove DEF NewFile, Window
  <2>2. CASE q.window # NoTicket
    <3>1. PICK a \in Nat : Dir(q.files, a) /\ a + 1 = b
      <4>1. b - 1 \in Nat /\ Dir(q.files, b - 1)
        BY <2>2, CloseKeeps
      <4>2. (b - 1) + 1 = b
        OBVIOUS
      <4> QED BY <4>1, <4>2
    <3>2. n.seq <= a + 1
      BY <3>1, NextIsAbove DEF NewFile
    <3> QED BY <1>2, <2>2, <3>1, <3>2 DEF Window
  <2> QED BY <2>1, <2>2
<1>4. /\ Enqueue(q, t) \in [files : SUBSET AnyFile, window : Tickets \cup {NoTicket}, old : BOOLEAN]
      /\ Enqueue(q, t).files = G
      /\ Enqueue(q, t).window = q.window
  BY <1>2 DEF QueueOK, Enqueue
<1> HIDE DEF n
<1>5. QueueOK(Enqueue(q, t), b + 1)
  BY <1>3, <1>4 DEF QueueOK, Window, AnyFile
<1>6. TicketsOf(G) = TicketsOf(q.files) \cup {t}
  BY <1>2 DEF TicketsOf
<1>7. ASSUME NEW g \in Entries(G), g.ticket # t PROVE g \in Entries(q.files)
  <2>1. FilesOf(q.files, g.ticket) = FilesOf(G, g.ticket)
    BY <1>2, <1>7 DEF FilesOf
  <2> QED BY <2>1, EntriesAreLocal
<1> QED BY <1>4, <1>5, <1>6, <1>7 DEF WindowOK

\* release opens the window of a queued ticket, which leaves room for one more move.
LEMMA OpenKeeps ==
    ASSUME NEW b \in Nat, NEW q, QueueOK(q, b)
    PROVE  /\ QueueOK(OpenWindow(q), b + 1)
           /\ OpenWindow(q).files = q.files
           /\ WindowOK(q) => WindowOK(OpenWindow(q))
           /\ OpenWindow(q).window \in {q.window} \cup TicketsOf(q.files)
<1>1. CASE q.files = {}
  BY <1>1, RaiseBound DEF OpenWindow
<1>2. CASE q.files # {}
  <2>1. Head(q.files) \in TicketsOf(q.files) /\ Head(q.files) \in Tickets
    BY <1>2, QueueIsDir, HeadIsQueued
  <2>2. /\ OpenWindow(q) \in [files : SUBSET AnyFile, window : Tickets \cup {NoTicket}, old : BOOLEAN]
        /\ OpenWindow(q).files = q.files
        /\ OpenWindow(q).window = Head(q.files)
    BY <1>2, <2>1 DEF OpenWindow, QueueOK
  <2>3. \A f \in q.files : f.seq \in Nat
    BY DEF QueueOK, AnyFile
  <2> QED BY <2>1, <2>2, <2>3 DEF QueueOK, Window, WindowOK
<1> QED BY <1>1, <1>2

\* Killed in expire_and_get_claim_holder: the window is closed, and its ticket may be
\* there twice.
LEMMA HalfMoveKeeps ==
    ASSUME NEW b \in Nat, NEW q, QueueOK(q, b),
           NEW r \in {CloseWindow(q), Requeued(CloseWindow(q), q.window)}
    PROVE  /\ QueueOK(r, b)
           /\ r.window = NoTicket
           /\ TicketsOf(r.files) = TicketsOf(q.files)
           /\ \A g \in Entries(r.files) :
                 \/ g \in Entries(q.files)
                 \/ /\ q.window # NoTicket
                    /\ g.ticket = q.window
                    /\ \A f \in q.files : f.seq < g.seq
<1> DEFINE c == CloseWindow(q)
           w == q.window
           G == q.files \cup {NewFile(q.files, w)}
<1>1. c.files = q.files /\ c.window = NoTicket /\ QueueOK(c, b)
  BY CloseKeeps
<1>2. CASE r = c
  BY <1>1, <1>2
<1>3. CASE r # c
  <2>1. r = Requeued(c, w) /\ FilesOf(q.files, w) # {}
    BY <1>1, <1>3 DEF Requeued
  <2>2. c \in [files : SUBSET AnyFile, window : Tickets \cup {NoTicket}, old : BOOLEAN]
    BY <1>1 DEF QueueOK
  <2>3. r = [c EXCEPT !.files = G]
    BY <1>1, <2>1, <2>2 DEF Requeued
  <2>4. w \in TicketsOf(q.files)
    BY <2>1 DEF FilesOf, TicketsOf
  <2>5. w # NoTicket
    BY <2>4, QueueAssumption DEF TicketsOf, QueueOK, AnyFile
  <2>6. /\ w \in TicketsOf(q.files)
        /\ NewFile(q.files, w) \in G
        /\ G \subseteq q.files \cup {NewFile(q.files, w)}
        /\ \A f \in q.files \ G : f.ticket = w
    BY <2>4
  <2> HIDE DEF G
  <2>7. /\ QueueOK([c EXCEPT !.files = G], b)
        /\ [c EXCEPT !.files = G].files = G
        /\ [c EXCEPT !.files = G].window = NoTicket
        /\ TicketsOf(G) = TicketsOf(q.files)
        /\ \A g \in Entries(G) :
              g \in Entries(q.files) \/ (g.ticket = w /\ \A f \in q.files : f.seq < g.seq)
        /\ Single(q.files) /\ q.files \ G # {} => Single(G)
    BY <2>5, <2>6, MoveKeeps, ZenonT(30)
  <2> QED BY <2>3, <2>5, <2>7
<1> QED BY <1>2, <1>3

-----------------------------------------------------------------------------
(* The inductive invariant.                                                 *)

\* The releases whose window has been opened, or will not be.
Opened == IF \E p \in Procs : cmd[p] = "release" THEN releases - 1 ELSE releases

\* Every ticket drawn and every window opened makes room for one sequence number.
Room == Cardinality(issued) + Opened

\* A command has the ticket it is about, and one releases at a time.
CommandsOK ==
    /\ \A p \in Procs : cmd[p] = "release" <=> pc[p] = "release"
    /\ \A p, q \in Procs : cmd[p] = "release" /\ cmd[q] = "release" => p = q
    /\ (\E p \in Procs : cmd[p] = "release") => releases > 0
    /\ \A p \in Procs : tkt[p] \in issued \cup {NoTicket}
    /\ \A p \in Procs : pc[p] \in {"list", "read", "peek", "poll", "cancel"} => tkt[p] \in issued

QueueFits ==
    /\ QueueOK(queue, Room)
    /\ Queued \subseteq issued
    /\ queue.window \in issued \cup {NoTicket}

IInv == TypeOK /\ CommandsOK /\ QueueFits /\ WindowIsQueued

\* What a step does to the commands and to the tickets and releases counted.
CommandStep ==
    /\ pc' \in [Procs -> {"idle", "list", "read", "peek", "poll", "claim", "cancel", "release"}]
    /\ cmd' \in [Procs -> {"none", "acquire", "wait", "cancel", "release"}]
    /\ tkt' \in [Procs -> Tickets \cup {NoTicket}]
    /\ CommandsOK'
    /\ releases' \in 0..MaxReleases
    /\ Opened \in Nat /\ Opened <= Opened'

\* A window to be opened is that of a release begun.
LEMMA OpenedIsBounded ==
    ASSUME CommandsOK, releases \in 0..MaxReleases
    PROVE  Opened \in 0..MaxReleases
BY QueueAssumption DEF CommandsOK, Opened

LEMMA FinishKeeps ==
    ASSUME IInv, NEW p \in Procs, Finish(p), releases' = releases,
           issued \subseteq issued'
    PROVE  /\ CommandStep
           /\ cmd[p] = "release" => Opened' = Opened + 1
<1> USE DEF IInv, TypeOK, Finish, Goto
<1>1. /\ pc' \in [Procs -> {"idle", "list", "read", "peek", "poll", "claim", "cancel", "release"}]
      /\ cmd' \in [Procs -> {"none", "acquire", "wait", "cancel", "release"}]
      /\ tkt' \in [Procs -> Tickets \cup {NoTicket}]
  OBVIOUS
<1>2. /\ pc'[p] = "idle" /\ cmd'[p] = "none" /\ tkt'[p] = NoTicket
      /\ \A q \in Procs \ {p} : pc'[q] = pc[q] /\ cmd'[q] = cmd[q] /\ tkt'[q] = tkt[q]
  OBVIOUS
<1> HIDE DEF IInv, TypeOK, Finish, Goto
<1>3. CommandsOK /\ releases \in Nat
  BY QueueAssumption DEF IInv, TypeOK
<1>4. \A q \in Procs : cmd'[q] = "release" => q # p /\ cmd[q] = "release"
  BY <1>2
<1>5. CommandsOK'
  BY <1>2, <1>3, <1>4 DEF CommandsOK
<1>6. Opened \in Nat
  BY <1>3, OpenedIsBounded DEF IInv, TypeOK
<1>7. Opened <= Opened' /\ (cmd[p] = "release" => Opened' = Opened + 1)
  <2>1. CASE cmd[p] = "release"
    <3>1. ~ \E q \in Procs : cmd'[q] = "release"
      BY <1>3, <1>4, <2>1 DEF CommandsOK
    <3>2. Opened' = releases /\ Opened = releases - 1
      BY <2>1, <3>1 DEF Opened
    <3> QED BY <1>3, <3>2
  <2>2. CASE cmd[p] # "release"
    <3>1. (\E q \in Procs : cmd'[q] = "release") <=> (\E q \in Procs : cmd[q] = "release")
      BY <1>2, <2>2
    <3>2. Opened' = Opened
      BY <3>1 DEF Opened
    <3> QED BY <1>6, <2>2, <3>2
  <2> QED BY <2>1, <2>2
<1> QED BY <1>1, <1>5, <1>6, <1>7 DEF CommandStep, IInv, TypeOK

\* A command that goes on is not a release, and keeps its ticket.
LEMMA GotoKeeps ==
    ASSUME IInv, NEW p \in Procs, UNCHANGED <<cmd, tkt, issued, releases>>,
           pc[p] # "release",
           NEW l \in {"list", "read", "peek", "poll", "claim", "cancel"}, Goto(p, l),
           l = "claim" \/ tkt[p] \in issued
    PROVE  CommandStep
<1>1. pc' \in [Procs -> {"idle", "list", "read", "peek", "poll", "claim", "cancel", "release"}]
  BY DEF IInv, TypeOK, Goto
<1>2. pc'[p] = l /\ \A q \in Procs \ {p} : pc'[q] = pc[q]
  BY DEF IInv, TypeOK, Goto
<1>3. CommandsOK'
  BY <1>2 DEF CommandsOK, IInv
<1>4. Opened \in Nat /\ Opened' = Opened
  BY OpenedIsBounded DEF Opened, IInv, TypeOK
<1> QED BY <1>1, <1>3, <1>4 DEF CommandStep, IInv, TypeOK

\* A command that begins, and the release among them.
LEMMA StartKeeps ==
    ASSUME IInv, NEW p \in Procs, Start(p)
    PROVE  CommandStep
<1> DEFINE Begun(c, l, t) ==
             /\ pc' = [pc EXCEPT ![p] = l]
             /\ cmd' = [cmd EXCEPT ![p] = c]
             /\ tkt' = [tkt EXCEPT ![p] = t]
             /\ issued' = issued
<1>1. \/ Begun("acquire", "claim", NoTicket) /\ releases' = releases
      \/ \E t \in issued : Begun("wait", "list", t) /\ releases' = releases
      \/ \E t \in issued : Begun("cancel", "list", t) /\ releases' = releases
      \/ /\ Begun("release", "release", NoTicket)
         /\ releases < MaxReleases /\ releases' = releases + 1
         /\ \A q \in Procs : cmd[q] # "release"
  BY DEF Start, StartAcquire, StartWait, StartCancel, StartRelease, Begin, Goto
<1>2. pc[p] = "idle"
  BY DEF Start, StartAcquire, StartWait, StartCancel, StartRelease, Begin
<1>3. Opened \in Nat /\ releases \in Nat /\ issued \subseteq Tickets /\ CommandsOK
  BY OpenedIsBounded, QueueAssumption DEF IInv, TypeOK
<1>4. CASE \E c \in {"acquire", "wait", "cancel"}, l \in {"claim", "list"}, t \in issued \cup {NoTicket} :
              /\ Begun(c, l, t) /\ releases' = releases
              /\ l = "list" => t \in issued
  <2>1. PICK c \in {"acquire", "wait", "cancel"}, l \in {"claim", "list"}, t \in issued \cup {NoTicket} :
              /\ Begun(c, l, t) /\ releases' = releases
              /\ l = "list" => t \in issued
    BY <1>4
  <2>2. /\ pc' \in [Procs -> {"idle", "list", "read", "peek", "poll", "claim", "cancel", "release"}]
        /\ cmd' \in [Procs -> {"none", "acquire", "wait", "cancel", "release"}]
        /\ tkt' \in [Procs -> Tickets \cup {NoTicket}]
    BY <1>3, <2>1 DEF IInv, TypeOK
  <2>3. /\ pc'[p] = l /\ cmd'[p] = c /\ tkt'[p] = t
        /\ \A q \in Procs \ {p} : pc'[q] = pc[q] /\ cmd'[q] = cmd[q] /\ tkt'[q] = tkt[q]
    BY <2>1 DEF IInv, TypeOK
  <2>4. cmd[p] # "release"
    BY <1>2, <1>3 DEF CommandsOK
  <2>5. CommandsOK'
    BY <1>3, <2>1, <2>3 DEF CommandsOK
  <2>6. Opened' = Opened
    <3>1. (\E q \in Procs : cmd'[q] = "release") <=> (\E q \in Procs : cmd[q] = "release")
      BY <2>3, <2>4
    <3> QED BY <2>1, <3>1 DEF Opened
  <2> QED BY <1>3, <2>1, <2>2, <2>5, <2>6 DEF CommandStep, IInv, TypeOK
<1>5. CASE /\ Begun("release", "release", NoTicket)
           /\ releases < MaxReleases /\ releases' = releases + 1
           /\ \A q \in Procs : cmd[q] # "release"
  <2>1. /\ pc' \in [Procs -> {"idle", "list", "read", "peek", "poll", "claim", "cancel", "release"}]
        /\ cmd' \in [Procs -> {"none", "acquire", "wait", "cancel", "release"}]
        /\ tkt' \in [Procs -> Tickets \cup {NoTicket}]
    BY <1>3, <1>5 DEF IInv, TypeOK
  <2>2. /\ pc'[p] = "release" /\ cmd'[p] = "release" /\ tkt'[p] = NoTicket
        /\ \A q \in Procs \ {p} : pc'[q] = pc[q] /\ cmd'[q] = cmd[q] /\ tkt'[q] = tkt[q]
    BY <1>5 DEF IInv, TypeOK
  <2>3. CommandsOK'
    BY <1>3, <1>5, <2>2 DEF CommandsOK
  <2>4. Opened' = Opened
    <3>1. Opened = releases
      BY <1>5 DEF Opened
    <3>2. Opened' = releases' - 1
      BY <2>2 DEF Opened
    <3> QED BY <1>3, <1>5, <3>1, <3>2
  <2>5. releases' \in 0..MaxReleases
    BY <1>3, <1>5, QueueAssumption
  <2> QED BY <1>3, <2>1, <2>3, <2>4, <2>5 DEF CommandStep
<1> HIDE DEF Begun
<1> QED BY <1>1, <1>4, <1>5

\* What a step does to the rest.
RestStep ==
    /\ aged' \subseteq issued' /\ served' \subseteq issued' /\ cancelled' \subseteq issued'
    /\ issued \subseteq issued' /\ issued' \subseteq Tickets
    /\ free' \in BOOLEAN
    /\ listing' \in [Procs -> SUBSET Files]
    /\ crashes' \in 0..MaxCrashes /\ (crashes' = 0 => crashes = 0)

LEMMA NextStepsCommands ==
    ASSUME IInv, Next
    PROVE  CommandStep /\ RestStep
<1>1. /\ aged \subseteq issued /\ served \subseteq issued /\ cancelled \subseteq issued
      /\ issued \subseteq Tickets /\ free \in BOOLEAN
      /\ listing \in [Procs -> SUBSET Files]
      /\ crashes \in 0..MaxCrashes /\ queue.files \subseteq Files
      /\ tkt \in [Procs -> Tickets \cup {NoTicket}]
      /\ releases \in 0..MaxReleases
  BY DEF IInv, TypeOK
<1>2. \A p \in Procs : tkt[p] \in issued \cup {NoTicket}
  BY DEF IInv, CommandsOK
<1>3. ASSUME NEW p \in Procs, Start(p) PROVE CommandStep /\ RestStep
  <2>1. CommandStep
    BY <1>3, StartKeeps
  <2>2. UNCHANGED <<aged, free, listing, issued, served, cancelled, crashes>>
    BY <1>3 DEF Start, StartAcquire, StartWait, StartCancel, StartRelease
  <2> QED BY <1>1, <2>1, <2>2 DEF RestStep
<1>4. ASSUME NEW p \in Procs, Finish(p), releases' = releases, aged' = aged,
             issued \subseteq issued', issued' \subseteq Tickets,
             served' \subseteq served \cup ({tkt[p]} \ {NoTicket}),
             cancelled' = cancelled \/ (cancelled' = cancelled \cup {tkt[p]} /\ tkt[p] \in issued),
             free' \in BOOLEAN,
             crashes' = crashes \/ (crashes < MaxCrashes /\ crashes' = crashes + 1)
      PROVE  CommandStep /\ RestStep
  <2>1. CommandStep
    BY <1>4, FinishKeeps
  <2>2. listing' \in [Procs -> SUBSET Files]
    BY <1>1, <1>4 DEF Finish
  <2>3. crashes' \in 0..MaxCrashes /\ (crashes' = 0 => crashes = 0)
    BY <1>1, <1>4, QueueAssumption
  <2> QED BY <1>1, <1>2, <1>4, <2>1, <2>2, <2>3 DEF RestStep
<1>5. ASSUME NEW p \in Procs, Step(p) PROVE CommandStep /\ RestStep
  <2>1. CASE List(p)
    <3>1. CommandStep
      BY <2>1, GotoKeeps DEF List, IInv, CommandsOK
    <3> QED BY <1>1, <2>1, <3>1 DEF List, RestStep
  <2>2. CASE Read(p)
    <3>1. CommandStep
      BY <2>2, GotoKeeps DEF Read, IInv, CommandsOK
    <3> QED BY <1>1, <2>2, <3>1 DEF Read, RestStep
  <2>3. CASE SayGone(p)
    BY <1>1, <1>4, <2>3 DEF SayGone
  <2>4. CASE Peek(p)
    <3>1. CommandStep
      BY <2>4, GotoKeeps DEF Peek, IInv, CommandsOK
    <3> QED BY <1>1, <2>4, <3>1 DEF Peek, RestStep
  <2>5. CASE Poll(p)
    <3>1. CommandStep
      BY <2>5, GotoKeeps DEF Poll, IInv, CommandsOK
    <3> QED BY <1>1, <2>5, <3>1 DEF Poll, RestStep
  <2>6. CASE Claim(p)
    BY <1>1, <1>4, <2>6 DEF Claim, GrantTo
  <2>7. CASE QueueUp(p)
    <3>1. issued \subseteq issued' /\ issued' \subseteq Tickets
      BY <1>1, <2>7 DEF QueueUp
    <3> QED BY <1>1, <1>4, <2>7, <3>1 DEF QueueUp
  <2>8. CASE Refuse(p)
    BY <1>1, <1>4, <2>8 DEF Refuse
  <2>9. CASE KeepWaiting(p)
    <3>1. CommandStep
      BY <1>2, <2>9, GotoKeeps DEF KeepWaiting
    <3> QED BY <1>1, <2>9, <3>1 DEF KeepWaiting, RestStep
  <2>10. CASE TicketNotFound(p)
    BY <1>1, <1>4, <2>10 DEF TicketNotFound
  <2>11. CASE Cancel(p)
    <3>1. tkt[p] \in issued
      BY <2>11 DEF Cancel, IInv, CommandsOK
    <3> QED BY <1>1, <1>4, <2>11, <3>1 DEF Cancel
  <2>12. CASE Release(p)
    BY <1>1, <1>4, <2>12 DEF Release
  <2> QED BY <1>5, <2>1, <2>2, <2>3, <2>4, <2>5, <2>6, <2>7, <2>8, <2>9, <2>10, <2>11, <2>12 DEF Step
<1>6. ASSUME NEW p \in Procs, WaitTimeout(p) PROVE CommandStep /\ RestStep
  BY <1>1, <1>4, <1>6 DEF WaitTimeout
<1>7. ASSUME NEW p \in Procs, Killed(p) PROVE CommandStep /\ RestStep
  <2>1. /\ Finish(p) /\ releases' = releases /\ aged' = aged /\ issued' = issued
        /\ crashes < MaxCrashes /\ crashes' = crashes + 1
    BY <1>7 DEF Killed, KilledOutside, KilledPruning, KilledExpiring, KilledGranting,
                KilledCancelling, KilledOpening, Kill
  <2>2. served' \subseteq served \cup ({tkt[p]} \ {NoTicket}) /\ free' \in BOOLEAN
    BY <1>1, <1>7 DEF Killed, KilledOutside, KilledPruning, KilledExpiring, KilledGranting,
                KilledCancelling, KilledOpening, GrantTo
  <2>3. cancelled' = cancelled \/ (cancelled' = cancelled \cup {tkt[p]} /\ tkt[p] \in issued)
    BY <1>7 DEF Killed, KilledOutside, KilledPruning, KilledExpiring, KilledGranting,
                KilledCancelling, KilledOpening, IInv, CommandsOK
  <2> QED BY <1>1, <1>4, <2>1, <2>2, <2>3
<1>8. ASSUME WindowAges \/ TicketAges \/ Reaped PROVE CommandStep /\ RestStep
  <2>1. UNCHANGED <<pc, cmd, tkt, listing, issued, served, cancelled, releases, crashes>>
    BY <1>8 DEF WindowAges, TicketAges, Reaped
  <2>2. aged' \subseteq issued /\ free' \in BOOLEAN
    BY <1>1, <1>8 DEF WindowAges, TicketAges, Reaped
  <2>3. CommandsOK' /\ Opened' = Opened /\ Opened \in Nat
    BY <2>1, OpenedIsBounded DEF IInv, TypeOK, CommandsOK, Opened
  <2> QED BY <1>1, <2>1, <2>2, <2>3 DEF CommandStep, RestStep, IInv, TypeOK
<1> QED BY <1>3, <1>5, <1>6, <1>7, <1>8 DEF Next

\* The room only grows, within the sequence numbers of the model.
LEMMA RoomGrows ==
    ASSUME IInv, CommandStep, RestStep
    PROVE  /\ Room \in Nat /\ Room' \in Nat /\ Room <= Room'
           /\ Room' <= Cardinality(Tickets) + MaxReleases
<1>1. IsFiniteSet(Tickets) /\ issued \subseteq issued' /\ issued' \subseteq Tickets
  BY QueueAssumption DEF RestStep
<1>2. /\ IsFiniteSet(issued) /\ IsFiniteSet(issued')
      /\ Cardinality(issued) <= Cardinality(issued')
      /\ Cardinality(issued') <= Cardinality(Tickets)
  BY <1>1, FS_Subset
<1>3. /\ Cardinality(issued) \in Nat /\ Cardinality(issued') \in Nat
      /\ Cardinality(Tickets) \in Nat
  BY <1>1, <1>2, FS_CardinalityType
<1>4. Opened' \in 0..MaxReleases
  <2>1. CommandsOK' /\ releases' \in 0..MaxReleases
    BY DEF CommandStep
  <2>2. (\E p \in Procs : cmd'[p] = "release") => releases' > 0
    BY <2>1 DEF CommandsOK
  <2>3. CASE \E p \in Procs : cmd'[p] = "release"
    <3>1. Opened' = releases' - 1
      BY <2>3 DEF Opened
    <3>2. releases' > 0
      BY <2>2, <2>3
    <3>3. releases' \in 0..MaxReleases /\ MaxReleases \in Nat
      BY <2>1, QueueAssumption
    <3>4. \A m \in Nat : \A r \in 0..m : r > 0 => r - 1 \in 0..m
      OBVIOUS
    <3> QED BY <3>1, <3>2, <3>3, <3>4
  <2>4. CASE ~ \E p \in Procs : cmd'[p] = "release"
    <3>1. Opened' = releases'
      BY <2>4 DEF Opened
    <3> QED BY <2>1, <3>1
  <2> QED BY <2>3, <2>4
<1>5. Opened \in Nat /\ Opened <= Opened'
  BY DEF CommandStep
<1>6. Room' = Cardinality(issued') + Opened'
  BY DEF Room
<1> QED BY <1>3, <1>2, <1>4, <1>5, <1>6, QueueAssumption DEF Room

\* What a step does to the queue: it stays in bounds, its tickets are drawn ones, its
\* window is queued unless something was killed, the order is kept and no ticket lost.
QueueStep ==
    /\ QueueOK(queue', Room')
    /\ Queued' \subseteq issued'
    /\ queue'.window \in issued' \cup {NoTicket}
    /\ crashes' = 0 => WindowOK(queue')
    /\ InOrder(queue, queue', cancelled')
    /\ Queued \ Queued' \subseteq served' \cup cancelled' \cup aged

\* As every step does that adds no ticket and opens no window.
LEMMA QueueShrinks ==
    ASSUME IInv, CommandStep, RestStep,
           QueueOK(queue', Room),
           Queued' \subseteq Queued,
           queue'.window \in {queue.window, NoTicket},
           crashes' = 0 => WindowOK(queue'),
           InOrder(queue, queue', cancelled'),
           Queued \ Queued' \subseteq served' \cup cancelled' \cup aged
    PROVE  QueueStep
<1>1. Room \in Nat /\ Room' \in Nat /\ Room <= Room'
  BY RoomGrows
<1>2. \A b \in Nat, c \in Nat : b <= c /\ QueueOK(queue', b) => QueueOK(queue', c)
  BY RaiseBound
<1>3. QueueOK(queue', Room')
  BY <1>1, <1>2
<1>4. Queued \subseteq issued /\ queue.window \in issued \cup {NoTicket}
  BY DEF IInv, QueueFits
<1>5. issued \subseteq issued'
  BY DEF RestStep
<1> QED BY <1>3, <1>4, <1>5 DEF QueueStep

LEMMA NextStepsQueue ==
    ASSUME IInv, Next
    PROVE  QueueStep
<1>1. CommandStep /\ RestStep
  BY NextStepsCommands
<1>2. Room \in Nat /\ QueueOK(queue, Room) /\ Queued = TicketsOf(queue.files)
  BY <1>1, RoomGrows DEF IInv, QueueFits, Queued
<1>3. Dir(queue.files, Room)
  BY <1>2, QueueIsDir
<1>4. crashes = 0 => WindowOK(queue)
  BY <1>2 DEF IInv, WindowIsQueued, WindowOK
<1>5. Queued' = TicketsOf(queue'.files)
  BY DEF Queued
<1>6. crashes' = 0 => crashes = 0
  BY <1>1 DEF RestStep
<1>7. \A r, C : Entries(r.files) \subseteq Entries(queue.files) => InOrder(queue, r, C)
  BY DEF InOrder
\* The queue unchanged, or its window old.
<1>8. ASSUME queue' = queue \/ WindowAges PROVE QueueStep
  <2>1. queue'.files = queue.files /\ queue'.window = queue.window
    BY <1>2, <1>8 DEF WindowAges, QueueOK
  <2>2. QueueOK(queue', Room)
    BY <1>2, <1>8 DEF WindowAges, QueueOK, Window
  <2>3. InOrder(queue, queue', cancelled')
    BY <1>7, <2>1
  <2>4. crashes' = 0 => WindowOK(queue')
    BY <1>4, <1>6, <2>1 DEF WindowOK
  <2> QED BY <1>1, <1>2, <1>5, <2>1, <2>2, <2>3, <2>4, QueueShrinks
\* expire_and_get_claim_holder alone.
<1>9. ASSUME NEW p \in Procs, Poll(p) PROVE QueueStep
  <2>1. queue' \in Expire(queue)
    BY <1>9 DEF Poll
  <2>2. /\ QueueOK(queue', Room)
        /\ TicketsOf(queue'.files) = TicketsOf(queue.files)
        /\ queue'.window \in {queue.window, NoTicket}
        /\ WindowOK(queue) => WindowOK(queue')
        /\ \A g \in Entries(queue'.files) :
              \/ g \in Entries(queue.files)
              \/ Expired(queue) /\ g.ticket = queue.window /\ \A f \in queue.files : f.seq < g.seq
    BY <1>2, <2>1, ExpireKeeps
  <2>3. \A f \in Entries(queue.files) : f \in queue.files
    BY DEF Entries
  <2>4. InOrder(queue, queue', {})
    BY <2>2, <2>3, MoveIsOrderly
  <2>5. InOrder(queue, queue', cancelled')
    BY <2>4 DEF InOrder
  <2> QED BY <1>1, <1>2, <1>4, <1>5, <1>6, <2>2, <2>5, QueueShrinks
\* A claim up to its end, and a grant.
<1>10. ASSUME NEW r \in Expire(Prune(queue))
       PROVE  /\ QueueOK(r, Room)
              /\ TicketsOf(r.files) = Queued \ aged
              /\ Single(r.files)
              /\ r.window \in {queue.window, NoTicket}
              /\ crashes' = 0 => WindowOK(r)
              /\ InOrder(queue, r, {})
  <2>1. /\ QueueOK(r, Room)
        /\ TicketsOf(r.files) = TicketsOf(queue.files) \ aged
        /\ Single(r.files)
        /\ r.window \in {queue.window, NoTicket}
        /\ WindowOK(queue) => WindowOK(r)
        /\ InOrder(queue, r, {})
    BY <1>2, RefreshKeeps
  <2> QED BY <1>2, <1>4, <1>6, <2>1
<1>11. ASSUME queue' \in Expire(Prune(queue)) PROVE QueueStep
  <2>1. /\ QueueOK(queue', Room)
        /\ TicketsOf(queue'.files) = Queued \ aged
        /\ queue'.window \in {queue.window, NoTicket}
        /\ crashes' = 0 => WindowOK(queue')
        /\ InOrder(queue, queue', {})
    BY <1>10, <1>11
  <2>2. InOrder(queue, queue', cancelled')
    BY <2>1 DEF InOrder
  <2> QED BY <1>1, <1>5, <2>1, <2>2, QueueShrinks
<1>12. ASSUME NEW p \in Procs, tkt[p] # NoTicket,
              NEW r \in Expire(Prune(queue)), NEW u \in Unlinked(r, tkt[p]),
              queue' \in {u, CloseFor(u, tkt[p])}, crashes' # 0 \/ queue' = CloseFor(u, tkt[p]),
              tkt[p] \in served'
       PROVE  QueueStep
  <2>1. /\ QueueOK(r, Room)
        /\ TicketsOf(r.files) = Queued \ aged
        /\ Single(r.files)
        /\ r.window \in {queue.window, NoTicket}
        /\ crashes' = 0 => WindowOK(r)
        /\ InOrder(queue, r, {})
    BY <1>10
  <2>2. /\ QueueOK(u, Room) /\ QueueOK(CloseFor(u, tkt[p]), Room)
        /\ CloseFor(u, tkt[p]).files = u.files
        /\ u.window = r.window /\ CloseFor(u, tkt[p]).window \in {r.window, NoTicket}
        /\ TicketsOf(u.files) \subseteq TicketsOf(r.files)
        /\ TicketsOf(r.files) \subseteq TicketsOf(u.files) \cup {tkt[p]}
        /\ Entries(u.files) \subseteq Entries(r.files)
        /\ WindowOK(r) => WindowOK(CloseFor(u, tkt[p]))
    BY <1>2, <2>1, UnlinkKeeps
  <2>3. queue'.files = u.files /\ QueueOK(queue', Room) /\ queue'.window \in {r.window, NoTicket}
    BY <1>12, <2>2
  <2>4. crashes' = 0 => WindowOK(queue')
    BY <1>12, <2>1, <2>2
  <2>5. InOrder(queue, queue', cancelled')
    BY <2>1, <2>2, <2>3, OrderStays
  <2> QED BY <1>1, <1>5, <1>12, <2>1, <2>2, <2>3, <2>4, <2>5, QueueShrinks
<1>13. ASSUME NEW p \in Procs, Claim(p) PROVE QueueStep
  <2>1. PICK q \in Expire(Prune(queue)) :
            queue' \in IF tkt[p] = NoTicket THEN {q} ELSE Dequeue(q, tkt[p])
    BY <1>13 DEF Claim
  <2>2. CASE tkt[p] = NoTicket
    BY <1>11, <2>1, <2>2
  <2>3. CASE tkt[p] # NoTicket
    <3>1. PICK u \in Unlinked(q, tkt[p]) : queue' = CloseFor(u, tkt[p])
      BY <2>1, <2>3 DEF Dequeue
    <3>2. tkt[p] \in served'
      BY <1>13, <2>3 DEF Claim, GrantTo
    <3> QED BY <1>12, <2>3, <3>1, <3>2
  <2> QED BY <2>2, <2>3
<1>14. ASSUME NEW p \in Procs, KilledGranting(p) PROVE QueueStep
  <2>1. PICK q \in Expire(Prune(queue)) : queue' \in {q} \cup Unlinked(q, tkt[p])
    BY <1>14 DEF KilledGranting
  <2>2. CASE queue' = q
    BY <1>11, <2>2
  <2>3. CASE queue' # q
    <3>1. queue' \in Unlinked(q, tkt[p])
      BY <2>1, <2>3
    <3>2. tkt[p] \in served' /\ tkt[p] # NoTicket
      BY <1>14 DEF KilledGranting, GrantTo
    <3>3. crashes' # 0
      BY <1>14 DEF KilledGranting, Kill, IInv, TypeOK
    <3> QED BY <1>12, <3>1, <3>2, <3>3
  <2> QED BY <2>2, <2>3
\* A newcomer queued.
<1>15. ASSUME NEW p \in Procs, QueueUp(p) PROVE QueueStep
  <2>1. PICK q \in Expire(Prune(queue)), t \in Tickets \ issued :
            queue' = Enqueue(q, t) /\ issued' = issued \cup {t}
    BY <1>15 DEF QueueUp
  <2>2. /\ QueueOK(q, Room)
        /\ TicketsOf(q.files) = Queued \ aged
        /\ q.window \in {queue.window, NoTicket}
        /\ crashes' = 0 => WindowOK(q)
        /\ InOrder(queue, q, {})
    BY <1>10
  <2>3. /\ QueueOK(queue', Room + 1)
        /\ TicketsOf(queue'.files) = TicketsOf(q.files) \cup {t}
        /\ \A g \in Entries(queue'.files) : g.ticket = t \/ g \in Entries(q.files)
        /\ queue'.window = q.window
        /\ WindowOK(q) => WindowOK(queue')
    BY <1>2, <2>1, <2>2, EnqueueKeeps
  <2>4. Room + 1 <= Room'
    <3>1. IsFiniteSet(issued)
      BY QueueAssumption, FS_Subset DEF IInv, TypeOK
    <3>2. Cardinality(issued') = Cardinality(issued) + 1 /\ Cardinality(issued) \in Nat
      BY <2>1, <3>1, FS_AddElement, FS_CardinalityType
    <3>3. Opened \in Nat /\ Opened' = Opened
      <4>1. cmd[p] # "release"
        BY <1>15 DEF QueueUp, IInv, CommandsOK
      <4>2. \A q_1 \in Procs : (cmd'[q_1] = "release") = (cmd[q_1] = "release")
        BY <1>15, <4>1 DEF QueueUp, Finish, IInv, TypeOK
      <4>3. releases' = releases
        BY <1>15 DEF QueueUp
      <4>4. Opened' = Opened
        BY <4>2, <4>3 DEF Opened
      <4> QED BY <1>1, <4>4 DEF CommandStep
    <3> QED BY <3>2, <3>3 DEF Room
  <2>5. QueueOK(queue', Room')
    <3>1. Room' \in Nat
      BY <1>1, RoomGrows
    <3>2. \A b \in Nat, c \in Nat : b <= c /\ QueueOK(queue', b) => QueueOK(queue', c)
      BY RaiseBound
    <3> QED BY <1>2, <2>3, <2>4, <3>1, <3>2
  <2>6. t \notin Queued /\ Queued \subseteq issued /\ queue.window \in issued \cup {NoTicket}
    BY <2>1 DEF IInv, QueueFits
  <2>7. InOrder(queue, queue', cancelled')
    <3> SUFFICES ASSUME NEW g \in Entries(queue'.files), g.ticket \in Queued, g \notin Entries(queue.files)
                 PROVE  /\ Expired(queue)
                        /\ g.ticket = queue.window
                        /\ \A f \in Entries(queue.files) :
                              f.ticket \in TicketsOf(queue'.files) => f.seq < g.seq
      BY <1>2 DEF InOrder
    <3>1. g \in Entries(q.files)
      BY <2>3, <2>6
    <3>2. /\ Expired(queue) /\ g.ticket = queue.window
          /\ \A f \in Entries(queue.files) : f.ticket \in TicketsOf(q.files) => f.seq < g.seq
      BY <1>2, <2>2, <3>1 DEF InOrder
    <3>3. \A f \in Entries(queue.files) : f.ticket \in Queued
      BY <1>2 DEF Entries, TicketsOf
    <3> QED BY <2>3, <2>6, <3>2, <3>3
  <2> QED BY <1>5, <2>1, <2>2, <2>3, <2>5, <2>6, <2>7 DEF QueueStep
\* A ticket cancelled.
<1>16. ASSUME NEW p \in Procs, NEW u \in Unlinked(queue, tkt[p]),
              queue' \in {u, CloseFor(u, tkt[p])}, crashes' # 0 \/ queue' = CloseFor(u, tkt[p]),
              tkt[p] \in cancelled'
       PROVE  QueueStep
  <2>1. /\ QueueOK(u, Room) /\ QueueOK(CloseFor(u, tkt[p]), Room)
        /\ CloseFor(u, tkt[p]).files = u.files
        /\ u.window = queue.window /\ CloseFor(u, tkt[p]).window \in {queue.window, NoTicket}
        /\ TicketsOf(u.files) \subseteq TicketsOf(queue.files)
        /\ TicketsOf(queue.files) \subseteq TicketsOf(u.files) \cup {tkt[p]}
        /\ \A g \in Entries(u.files) : g.ticket = tkt[p] \/ g \in Entries(queue.files)
        /\ WindowOK(queue) => WindowOK(CloseFor(u, tkt[p]))
    BY <1>2, UnlinkKeeps
  <2>2. queue'.files = u.files /\ QueueOK(queue', Room) /\ queue'.window \in {queue.window, NoTicket}
    BY <1>16, <2>1
  <2>3. InOrder(queue, queue', cancelled')
    BY <1>16, <2>1, <2>2 DEF InOrder
  <2>4. crashes' = 0 => WindowOK(queue')
    BY <1>4, <1>6, <1>16, <2>1
  <2> QED BY <1>1, <1>2, <1>5, <1>16, <2>1, <2>2, <2>3, <2>4, QueueShrinks
<1>17. ASSUME NEW p \in Procs, Cancel(p) \/ KilledCancelling(p) PROVE QueueStep
  <2>1. tkt[p] \in cancelled'
    BY <1>17 DEF Cancel, KilledCancelling
  <2>2. CASE Cancel(p)
    <3>1. PICK u \in Unlinked(queue, tkt[p]) : queue' = CloseFor(u, tkt[p])
      BY <2>2 DEF Cancel, Dequeue
    <3> QED BY <1>16, <2>1, <3>1
  <2>3. CASE KilledCancelling(p)
    <3>1. queue' \in Unlinked(queue, tkt[p]) /\ crashes' # 0
      BY <2>3 DEF KilledCancelling, Kill, IInv, TypeOK
    <3> QED BY <1>16, <2>1, <3>1
  <2> QED BY <1>17, <2>2, <2>3
\* release, and what may be killed in it, or in prune.
<1> DEFINE k == Prune(queue)
<1>19. /\ QueueOK(k, Room)
       /\ k.files = {f \in Entries(queue.files) : f.ticket \notin aged}
       /\ TicketsOf(k.files) = TicketsOf(queue.files) \ aged
       /\ k.window \in {queue.window, NoTicket}
       /\ Expired(k) => Expired(queue)
       /\ WindowOK(queue) => WindowOK(k)
  <2>1. /\ QueueOK(k, Room)
        /\ k.files = {f \in Entries(queue.files) : f.ticket \notin aged}
        /\ TicketsOf(k.files) = TicketsOf(queue.files) \ aged
        /\ (k.window = queue.window /\ k.old = queue.old) \/ k.window = NoTicket
        /\ WindowOK(queue) => WindowOK(k)
    BY <1>2, PruneKeeps
  <2> HIDE DEF k
  <2> QED BY <2>1 DEF Expired
<1> HIDE DEF k
<1>20. Entries(k.files) \subseteq Entries(queue.files)
  BY <1>19 DEF Entries
<1>21. ASSUME NEW p \in Procs, Release(p) PROVE QueueStep
  <2>1. queue' = OpenWindow(k)
    BY <1>21 DEF Release, k
  <2>2. /\ QueueOK(queue', Room + 1)
        /\ queue'.files = k.files
        /\ WindowOK(k) => WindowOK(queue')
        /\ queue'.window \in {k.window} \cup TicketsOf(k.files)
    BY <1>2, <1>19, <2>1, OpenKeeps
  <2>3. Room' = Room + 1 /\ issued' = issued
    <3>1. Finish(p) /\ releases' = releases /\ issued' = issued /\ pc[p] = "release"
      BY <1>21 DEF Release
    <3>2. cmd[p] = "release"
      BY <3>1 DEF IInv, CommandsOK
    <3>3. Opened' = Opened + 1
      BY <3>1, <3>2, FinishKeeps
    <3>4. Cardinality(issued) \in Nat /\ Opened \in Nat
      <4>1. IsFiniteSet(issued)
        BY QueueAssumption, FS_Subset DEF IInv, TypeOK
      <4> QED BY <1>1, <4>1, FS_CardinalityType DEF CommandStep
    <3>5. Room' = Cardinality(issued) + Opened'
      BY <3>1 DEF Room
    <3> QED BY <3>1, <3>3, <3>4, <3>5 DEF Room
  <2>4. InOrder(queue, queue', cancelled')
    BY <1>7, <1>20, <2>2
  <2>5. Queued \subseteq issued /\ queue.window \in issued \cup {NoTicket}
    BY DEF IInv, QueueFits
  <2> QED BY <1>2, <1>4, <1>5, <1>6, <1>19, <2>2, <2>3, <2>4, <2>5 DEF QueueStep
<1>22. ASSUME NEW p \in Procs, KilledOpening(p) PROVE QueueStep
  <2>1. queue' \in {k, CloseWindow(k)} /\ crashes' # 0
    BY <1>22 DEF KilledOpening, Kill, k, IInv, TypeOK
  <2>2. queue'.files = k.files /\ QueueOK(queue', Room) /\ queue'.window \in {queue.window, NoTicket}
    <3>1. /\ CloseWindow(k).files = k.files /\ CloseWindow(k).window = NoTicket
          /\ QueueOK(CloseWindow(k), Room)
      BY <1>2, <1>19, CloseKeeps
    <3> QED BY <1>19, <2>1, <3>1
  <2>3. InOrder(queue, queue', cancelled')
    BY <1>7, <1>20, <2>2
  <2> QED BY <1>1, <1>2, <1>5, <1>19, <2>1, <2>2, <2>3, QueueShrinks
<1>23. ASSUME NEW F \in SUBSET queue.files, Entries(F) \subseteq Entries(queue.files),
              Queued \ TicketsOf(F) \subseteq aged,
              queue' \in {[queue EXCEPT !.files = F], CloseWindow([queue EXCEPT !.files = F])},
              crashes' # 0
       PROVE  QueueStep
  <2> DEFINE q == [queue EXCEPT !.files = F]
  <2>1. q.files = F /\ q.window = queue.window /\ QueueOK(q, Room)
    BY <1>2, FewerFiles
  <2>2. queue' \in {q, CloseWindow(q)}
    BY <1>23
  <2> HIDE DEF q
  <2>3. queue'.files = F /\ QueueOK(queue', Room) /\ queue'.window \in {queue.window, NoTicket}
    <3>1. /\ CloseWindow(q).files = q.files /\ CloseWindow(q).window = NoTicket
          /\ QueueOK(CloseWindow(q), Room)
      BY <1>2, <2>1, CloseKeeps
    <3> QED BY <2>1, <2>2, <3>1
  <2>4. InOrder(queue, queue', cancelled')
    BY <1>7, <1>23, <2>3
  <2>5. TicketsOf(F) \subseteq Queued
    BY <1>2 DEF TicketsOf
  <2> QED BY <1>1, <1>5, <1>23, <2>3, <2>4, <2>5, QueueShrinks
<1>24. ASSUME NEW p \in Procs, KilledPruning(p) PROVE QueueStep
  <2>1. crashes' # 0
    BY <1>24 DEF KilledPruning, Kill, IInv, TypeOK
  <2>2. Entries(queue.files) \subseteq queue.files
    BY DEF Entries
  <2>3. CASE \E S \in SUBSET Litter(queue.files) : queue' = [queue EXCEPT !.files = @ \ S]
    <3>1. PICK S \in SUBSET Litter(queue.files) : queue' = [queue EXCEPT !.files = @ \ S]
      BY <2>3
    <3> DEFINE F == queue.files \ S
    <3>2. queue' = [queue EXCEPT !.files = F]
      BY <1>2, <3>1 DEF QueueOK
    <3>3. F \in SUBSET queue.files /\ queue.files \ F \subseteq Litter(queue.files)
      OBVIOUS
    <3>4. Entries(F) \subseteq Entries(queue.files)
      BY <1>2, <1>3, <3>3, FewerEntries
    <3>5. Entries(queue.files) \subseteq F
      BY <2>2 DEF Litter
    <3>6. Queued \subseteq TicketsOf(F)
      <4> SUFFICES ASSUME NEW f \in queue.files PROVE f.ticket \in TicketsOf(F)
        BY <1>2 DEF TicketsOf
      <4>1. PICK e \in Entries(queue.files) : e.ticket = f.ticket
        BY <1>2, <1>3, EntryOf
      <4> QED BY <3>5, <4>1 DEF TicketsOf
    <3> HIDE DEF F
    <3> QED BY <1>23, <2>1, <3>2, <3>3, <3>4, <3>6
  <2>4. CASE \E S \in SUBSET {f \in Entries(queue.files) : f.ticket \in aged} :
                queue' \in {[queue EXCEPT !.files = Entries(queue.files) \ S],
                            CloseWindow([queue EXCEPT !.files = Entries(queue.files) \ S])}
    <3>1. PICK S \in SUBSET {f \in Entries(queue.files) : f.ticket \in aged} :
                queue' \in {[queue EXCEPT !.files = Entries(queue.files) \ S],
                            CloseWindow([queue EXCEPT !.files = Entries(queue.files) \ S])}
      BY <2>4
    <3> DEFINE F == Entries(queue.files) \ S
    <3>2. F \in SUBSET queue.files /\ F \subseteq Entries(queue.files)
      BY <2>2
    <3>3. Entries(F) \subseteq Entries(queue.files)
      BY <1>2, <1>3, <3>2, FewerEntries
    <3>4. Queued \ TicketsOf(F) \subseteq aged
      <4> SUFFICES ASSUME NEW f \in queue.files, f.ticket \notin aged PROVE f.ticket \in TicketsOf(F)
        BY <1>2 DEF TicketsOf
      <4>1. PICK e \in Entries(queue.files) : e.ticket = f.ticket
        BY <1>2, <1>3, EntryOf
      <4> QED BY <4>1 DEF TicketsOf
    <3>5. queue' \in {[queue EXCEPT !.files = F], CloseWindow([queue EXCEPT !.files = F])}
      BY <3>1
    <3> HIDE DEF F
    <3> QED BY <1>23, <2>1, <3>2, <3>3, <3>4, <3>5
  <2>5. \/ \E S \in SUBSET Litter(queue.files) : queue' = [queue EXCEPT !.files = @ \ S]
        \/ \E S \in SUBSET {f \in Entries(queue.files) : f.ticket \in aged} :
              LET q == [queue EXCEPT !.files = Entries(queue.files) \ S]
              IN  queue' = q \/ (queue.window \in TicketsOf(S) /\ queue' = CloseWindow(q))
    BY <1>24 DEF KilledPruning
  <2> QED BY <2>3, <2>4, <2>5
<1>25. ASSUME NEW p \in Procs, KilledExpiring(p) PROVE QueueStep
  <2>1. crashes' # 0
    BY <1>25 DEF KilledExpiring, Kill, IInv, TypeOK
  <2>2. PICK q \in {queue, k} :
            Expired(q) /\ queue' \in {CloseWindow(q), Requeued(CloseWindow(q), q.window)}
    BY <1>25 DEF KilledExpiring, k
  <2>3. /\ QueueOK(q, Room)
        /\ Entries(q.files) \subseteq Entries(queue.files)
        /\ \A f \in Entries(queue.files) : f.ticket \in TicketsOf(q.files) => f \in q.files
        /\ q.window \in {queue.window, NoTicket} /\ Expired(queue)
        /\ TicketsOf(q.files) \subseteq Queued /\ Queued \ aged \subseteq TicketsOf(q.files)
    <3>1. CASE q = queue
      BY <1>2, <2>2, <3>1 DEF Entries
    <3>2. CASE q = k
      BY <1>2, <1>19, <1>20, <2>2, <3>2 DEF Entries
    <3> QED BY <3>1, <3>2
  <2>4. /\ QueueOK(queue', Room)
        /\ queue'.window = NoTicket
        /\ TicketsOf(queue'.files) = TicketsOf(q.files)
        /\ \A g \in Entries(queue'.files) :
              \/ g \in Entries(q.files)
              \/ /\ q.window # NoTicket
                 /\ g.ticket = q.window
                 /\ \A f \in q.files : f.seq < g.seq
    BY <1>2, <2>2, <2>3, HalfMoveKeeps
  <2>5. InOrder(queue, queue', {})
    <3>1. \A g \in Entries(queue'.files) :
              \/ g \in Entries(q.files)
              \/ Expired(queue) /\ g.ticket = queue.window /\ \A f \in q.files : f.seq < g.seq
      BY <2>3, <2>4
    <3> QED BY <2>3, <2>4, <3>1, MoveIsOrderly
  <2>6. InOrder(queue, queue', cancelled')
    BY <2>5 DEF InOrder
  <2> QED BY <1>1, <1>5, <2>1, <2>3, <2>4, <2>6, QueueShrinks
<1>26. ASSUME NEW p \in Procs, Start(p) PROVE QueueStep
  BY <1>8, <1>26 DEF Start, StartAcquire, StartWait, StartCancel, StartRelease
<1>27. ASSUME NEW p \in Procs, Step(p) PROVE QueueStep
  <2>1. CASE List(p) \/ Read(p) \/ SayGone(p) \/ Peek(p)
    BY <1>8, <2>1 DEF List, Read, SayGone, Peek
  <2>2. CASE Refuse(p) \/ KeepWaiting(p) \/ TicketNotFound(p)
    BY <1>11, <2>2 DEF Refuse, KeepWaiting, TicketNotFound
  <2> QED BY <1>9, <1>13, <1>15, <1>17, <1>21, <1>27, <2>1, <2>2 DEF Step
<1>28. ASSUME NEW p \in Procs, WaitTimeout(p) \/ KilledOutside(p) PROVE QueueStep
  BY <1>8, <1>28 DEF WaitTimeout, KilledOutside
<1>29. ASSUME NEW p \in Procs, Killed(p) PROVE QueueStep
  BY <1>14, <1>17, <1>22, <1>24, <1>25, <1>28, <1>29 DEF Killed
<1>30. ASSUME WindowAges \/ TicketAges \/ Reaped PROVE QueueStep
  BY <1>8, <1>30 DEF TicketAges, Reaped
<1> QED BY <1>26, <1>27, <1>28, <1>29, <1>30 DEF Next

-----------------------------------------------------------------------------
(* The theorems.                                                            *)

\* A queue in bounds has the files of the model.
LEMMA QueueOKType ==
    ASSUME NEW b \in Nat, b <= Cardinality(Tickets) + MaxReleases, NEW q, QueueOK(q, b)
    PROVE  q \in [files : SUBSET Files, window : Tickets \cup {NoTicket}, old : BOOLEAN]
<1>1. Cardinality(Tickets) \in Nat /\ MaxReleases \in Nat
  BY QueueAssumption, FS_CardinalityType
<1>2. \A f \in q.files : f \in Files
  BY <1>1 DEF QueueOK, AnyFile, Files, Window
<1> QED BY <1>2 DEF QueueOK

LEMMA InitIInv == Init => IInv
<1> SUFFICES ASSUME Init PROVE IInv
  OBVIOUS
<1>1. Cardinality(issued) = 0
  BY FS_EmptySet DEF Init
<1>2. Opened = 0 /\ CommandsOK
  BY DEF Init, Opened, CommandsOK
<1>3. Room = 0
  BY <1>1, <1>2 DEF Room
<1>4. QueueFits
  BY <1>3 DEF Init, QueueFits, QueueOK, Window, Queued, TicketsOf
<1>5. TypeOK /\ WindowIsQueued
  BY QueueAssumption DEF Init, TypeOK, WindowIsQueued
<1> QED BY <1>2, <1>4, <1>5 DEF IInv

LEMMA NextIInv == IInv /\ [Next]_vars => IInv'
<1> SUFFICES ASSUME IInv, [Next]_vars PROVE IInv'
  OBVIOUS
<1>1. CASE UNCHANGED vars
  BY <1>1 DEF vars, IInv, TypeOK, CommandsOK, QueueFits, WindowIsQueued, Room, Opened, Queued
<1>2. CASE Next
  <2>1. CommandStep /\ RestStep /\ QueueStep
    BY <1>2, NextStepsCommands, NextStepsQueue
  <2>2. Room' \in Nat /\ Room' <= Cardinality(Tickets) + MaxReleases
    BY <2>1, RoomGrows
  <2>3. queue' \in [files : SUBSET Files, window : Tickets \cup {NoTicket}, old : BOOLEAN]
    BY <2>1, <2>2, QueueOKType DEF QueueStep
  <2>4. TypeOK'
    BY <2>1, <2>3 DEF TypeOK, CommandStep, RestStep
  <2>5. WindowIsQueued'
    BY <2>1 DEF QueueStep, WindowIsQueued, WindowOK, Queued
  <2> QED BY <2>1, <2>4, <2>5 DEF IInv, CommandStep, QueueStep, QueueFits
<1> QED BY <1>1, <1>2

LEMMA Invariance == Spec => []IInv
BY InitIInv, NextIInv, PTL DEF Spec

\* Sequence numbers stay within the number of tickets and releases, whatever is
\* killed: a ticket drawn or a window opened makes room for one move (queue.enqueue,
\* _send_to_back).
THEOREM TypeCorrect == Spec => []TypeOK
BY Invariance, PTL DEF IInv

\* The claim window is never an orphan's as long as nothing is killed (acquire,
\* release, cancel and the expiry of windows keep it so).
THEOREM WindowIsQueuedTheorem == Spec => []WindowIsQueued
BY Invariance, PTL DEF IInv

\* No ticket is lost: not by prune, not by a move, not by a command killed between
\* two of its writes.
THEOREM TicketsAreKeptTheorem == Spec => TicketsAreKept
<1>1. IInv /\ [Next]_vars =>
        [\A t \in Queued \ Queued' : t \in served' \cup cancelled' \cup aged]_vars
  <2> SUFFICES ASSUME IInv, Next
               PROVE  \A t \in Queued \ Queued' : t \in served' \cup cancelled' \cup aged
    OBVIOUS
  <2> QED BY NextStepsQueue DEF QueueStep
<1> QED BY <1>1, Invariance, PTL DEF Spec, TicketsAreKept

\* The line is first in, first out, but for expired windows.
THEOREM FirstInFirstOutTheorem == Spec => FirstInFirstOut
<1>1. IInv /\ [Next]_vars =>
        [\A s, t \in (Queued \cap Queued') \ cancelled' :
            Before(s, t) /\ Before(t, s)' => queue.window = s /\ queue.old]_vars
  <2> SUFFICES ASSUME IInv, Next,
                      NEW s \in (Queued \cap Queued') \ cancelled',
                      NEW t \in (Queued \cap Queued') \ cancelled',
                      Before(s, t), Before(t, s)'
               PROVE  queue.window = s /\ queue.old
    OBVIOUS
  <2>1. CommandStep /\ RestStep /\ QueueStep
    BY NextStepsCommands, NextStepsQueue
  <2>2. Room \in Nat /\ Room' \in Nat
    BY <2>1, RoomGrows
  <2>3. Dir(queue.files, Room) /\ Dir(queue'.files, Room')
    <3>1. QueueOK(queue, Room) /\ QueueOK(queue', Room')
      BY <2>1 DEF IInv, QueueFits, QueueStep
    <3> QED BY <2>2, <3>1, QueueIsDir
  <2>4. PICK f \in Entries(queue.files), g \in Entries(queue.files) :
            f.ticket = s /\ g.ticket = t /\ f.seq < g.seq
    BY DEF Before
  <2>5. PICK h \in Entries(queue'.files), k \in Entries(queue'.files) :
            h.ticket = t /\ k.ticket = s /\ h.seq < k.seq
    BY DEF Before
  <2>6. InOrder(queue, queue', cancelled') /\ s \notin cancelled' /\ t \notin cancelled'
    BY <2>1 DEF QueueStep
  <2>7. Expired(queue) /\ queue.window = s
    BY <2>2, <2>3, <2>4, <2>5, <2>6, OrderIsFirstInFirstOut
  <2> QED BY <2>7 DEF Expired
<1> QED BY <1>1, Invariance, PTL DEF Spec, FirstInFirstOut
=============================================================================
