---------------------------- MODULE KnowledgeProofs ----------------------------
(***************************************************************************)
(* Proofs about KnowledgeIngestion and KnowledgeQuery, for any processes,  *)
(* corpora and readers: the chain of versions ends in one approved         *)
(* document, what a process has passed is stored, and what is cited was    *)
(* published.  The lock on the document code makes the decision of a       *)
(* transaction still hold at its commit; that is what the invariant says.  *)
(* Before that, the chunker: three recursive functions that CHOOSE names,  *)
(* each shown to exist and then followed from one line, window or section  *)
(* to the next, by the least-element principle of SumLemmas.               *)
(***************************************************************************)
EXTENDS KnowledgeQuery, SumLemmas

-----------------------------------------------------------------------------
(* The windows of a section.  f cuts the text from each start of D on.     *)
Cuts(f, body, budget, D) ==
  f = [start \in D |->
         IF start + budget >= body
         THEN <<[first |-> start, last |-> body]>>
         ELSE <<[first |-> start, last |-> start + budget]>> \o f[Resume(start + budget)]]

(* The next start is behind the last, and before the end of the text.      *)
LEMMA ResumeMovesOn ==
  ASSUME NEW body \in Nat, NEW budget \in Nat, budget > Overlap,
         NEW start \in Nat, start + budget < body
  PROVE  /\ Resume(start + budget) \in Nat
         /\ start < Resume(start + budget) /\ Resume(start + budget) < body
BY TokenAssumption DEF Resume

(* A function that cuts the text from the later starts extends by one.     *)
LEMMA CutsExtend ==
  ASSUME NEW body \in Nat, NEW budget \in Nat, budget > Overlap,
         NEW n \in Nat, n < body, NEW g, Cuts(g, body, budget, n + 1 .. body)
  PROVE  \E h : Cuts(h, body, budget, n .. body)
<1> DEFINE h == [start \in n .. body |->
         IF start + budget >= body
         THEN <<[first |-> start, last |-> body]>>
         ELSE <<[first |-> start, last |-> start + budget]>> \o g[Resume(start + budget)]]
<1>1. \A s \in n + 1 .. body : h[s] = g[s]
  <2>1. \A s \in n + 1 .. body : s \in n .. body
    OBVIOUS
  <2> QED
    BY <2>1 DEF Cuts
<1>2. \A s \in n .. body : s + budget < body => h[Resume(s + budget)] = g[Resume(s + budget)]
  <2> HIDE DEF h
  <2>1. ASSUME NEW s \in n .. body, s + budget < body
        PROVE  Resume(s + budget) \in n + 1 .. body
    <3>1. s \in Nat
      OBVIOUS
    <3>2. Resume(s + budget) \in Nat /\ s < Resume(s + budget) /\ Resume(s + budget) < body
      BY <2>1, <3>1, ResumeMovesOn
    <3> QED
      BY <3>1, <3>2
  <2> QED
    BY <1>1, <2>1
<1>3. \A s \in n .. body : ~(s + budget >= body) => s + budget < body
  OBVIOUS
<1>4. h = [start \in n .. body |->
         IF start + budget >= body
         THEN <<[first |-> start, last |-> body]>>
         ELSE <<[first |-> start, last |-> start + budget]>> \o h[Resume(start + budget)]]
  BY <1>2, <1>3
<1> HIDE DEF h
<1> QED
  BY <1>4 DEF Cuts

LEMMA CutsExist ==
  ASSUME NEW body \in Nat, NEW budget \in Nat, budget > Overlap
  PROVE  \E f : Cuts(f, body, budget, 0 .. body)
<1> DEFINE Bad == {n \in Nat : n <= body /\ ~ \E f : Cuts(f, body, budget, body - n .. body)}
<1>1. Bad = {}
  <2> SUFFICES ASSUME Bad # {} PROVE FALSE
    OBVIOUS
  <2>1. PICK n \in Bad : \A m \in Bad : n <= m
    BY LeastOf
  <2>2. n \in Nat /\ n <= body /\ ~ \E f : Cuts(f, body, budget, body - n .. body)
    BY <2>1
  <2>3. CASE n = 0
    <3> DEFINE f == [start \in body .. body |-> <<[first |-> start, last |-> body]>>]
    <3>1. \A s \in body .. body : s + budget >= body
      OBVIOUS
    <3>2. Cuts(f, body, budget, body .. body)
      BY <3>1 DEF Cuts
    <3>3. body - n = body
      BY <2>3
    <3> QED
      BY <3>2, <3>3, <2>2
  <2>4. CASE n # 0
    <3>1. n - 1 \in Nat /\ n - 1 \notin Bad
      BY <2>1, <2>4
    <3>2. PICK g : Cuts(g, body, budget, body - (n - 1) .. body)
      BY <3>1, <2>2
    <3>3. body - (n - 1) = (body - n) + 1 /\ body - n \in Nat /\ body - n < body
      BY <2>2, <2>4
    <3>4. \E h : Cuts(h, body, budget, body - n .. body)
      BY <3>2, <3>3, CutsExtend
    <3> QED
      BY <3>4, <2>2
  <2> QED
    BY <2>3, <2>4
<1>2. body \notin Bad
  BY <1>1
<1>3. \E f : Cuts(f, body, budget, body - body .. body)
  BY <1>2
<1>4. body - body = 0
  OBVIOUS
<1> QED
  BY <1>3, <1>4

Window == [first : Nat, last : Nat]

(* These windows cover the text from start to its end.                     *)
CoversText(ws, start, body, budget) ==
  /\ ws \in Seq(Window) /\ Len(ws) > 0
  /\ ws[1] = [first |-> start, last |-> IF start + budget >= body THEN body ELSE start + budget]
  /\ ws[Len(ws)].last = body
  /\ \A w \in 1 .. Len(ws) : ws[w].first < ws[w].last /\ ws[w].last <= ws[w].first + budget
  /\ \A w \in 1 .. Len(ws) - 1 :
       ws[w + 1].first = ws[w].last - Overlap /\ ws[w + 1].last > ws[w].last

(* One element before a sequence.                                          *)
LEMMA Before ==
  ASSUME NEW S, NEW x \in S, NEW s \in Seq(S)
  PROVE  /\ <<x>> \o s \in Seq(S) /\ Len(<<x>> \o s) = Len(s) + 1
         /\ (<<x>> \o s)[1] = x
         /\ \A n \in 1 .. Len(s) : (<<x>> \o s)[n + 1] = s[n]
OBVIOUS

LEMMA OneMoreWindow ==
  ASSUME NEW body \in Nat, NEW budget \in Nat, budget > Overlap,
         NEW start \in Nat, start + budget < body, NEW ws,
         CoversText(ws, Resume(start + budget), body, budget)
  PROVE  CoversText(<<[first |-> start, last |-> start + budget]>> \o ws, start, body, budget)
<1> DEFINE x == [first |-> start, last |-> start + budget]
           next == Resume(start + budget)
           all == <<x>> \o ws
<1>1. x \in Window /\ x.first = start /\ x.last = start + budget
  BY DEF Window
<1>2. /\ next \in Nat /\ start < next /\ next < body
      /\ next = (start + budget) - Overlap /\ Overlap \in Nat
  BY ResumeMovesOn, TokenAssumption DEF Resume
<1>3. /\ ws \in Seq(Window) /\ Len(ws) \in Nat /\ Len(ws) > 0
      /\ ws[1] = [first |-> next, last |-> IF next + budget >= body THEN body ELSE next + budget]
      /\ ws[Len(ws)].last = body
      /\ \A w \in 1 .. Len(ws) : ws[w].first < ws[w].last /\ ws[w].last <= ws[w].first + budget
      /\ \A w \in 1 .. Len(ws) - 1 :
           ws[w + 1].first = ws[w].last - Overlap /\ ws[w + 1].last > ws[w].last
  BY DEF CoversText
<1> HIDE DEF x, next
<1>4. /\ all \in Seq(Window) /\ Len(all) = Len(ws) + 1 /\ all[1] = x
      /\ \A n \in 1 .. Len(ws) : all[n + 1] = ws[n]
  BY <1>1, <1>3, Before
<1> HIDE DEF all
<1>5. \A w \in 1 .. Len(all) : w = 1 \/ (w - 1 \in 1 .. Len(ws) /\ all[w] = ws[w - 1])
  <2> TAKE w \in 1 .. Len(all)
  <2>1. w = 1 \/ w - 1 \in 1 .. Len(ws)
    BY <1>3, <1>4
  <2>2. w - 1 \in 1 .. Len(ws) => all[(w - 1) + 1] = ws[w - 1]
    BY <1>4
  <2>3. (w - 1) + 1 = w
    OBVIOUS
  <2> QED
    BY <2>1, <2>2, <2>3
<1>6. ws[1].first = next /\ ws[1].last > start + budget
  BY <1>2, <1>3
<1>7. all[Len(all)].last = body
  BY <1>3, <1>4
<1>8. \A w \in 1 .. Len(all) : all[w].first < all[w].last /\ all[w].last <= all[w].first + budget
  <2> TAKE w \in 1 .. Len(all)
  <2>1. CASE w = 1
    BY <2>1, <1>1, <1>2, <1>4
  <2>2. CASE w # 1
    BY <2>2, <1>3, <1>5
  <2> QED
    BY <2>1, <2>2
<1>9. \A w \in 1 .. Len(all) - 1 :
        all[w + 1].first = all[w].last - Overlap /\ all[w + 1].last > all[w].last
  <2> TAKE w \in 1 .. Len(all) - 1
  <2>0. w \in 1 .. Len(ws) /\ w \in 1 .. Len(all) /\ all[w + 1] = ws[w]
    BY <1>3, <1>4
  <2>1. CASE w = 1
    BY <2>0, <2>1, <1>1, <1>2, <1>4, <1>6
  <2>2. CASE w # 1
    <3>1. w - 1 \in 1 .. Len(ws) - 1 /\ (w - 1) + 1 = w
      BY <2>0, <2>2, <1>3
    <3>2. all[w] = ws[w - 1]
      BY <2>0, <2>2, <1>5
    <3>3. ws[w].first = ws[w - 1].last - Overlap /\ ws[w].last > ws[w - 1].last
      BY <3>1, <1>3
    <3> QED
      BY <2>0, <3>2, <3>3
  <2> QED
    BY <2>1, <2>2
<1>10. all[1] = [first |-> start, last |-> IF start + budget >= body THEN body ELSE start + budget]
  <2>1. ~(start + budget >= body)
    OBVIOUS
  <2> QED
    BY <2>1, <1>4 DEF x
<1> QED
  BY <1>3, <1>4, <1>7, <1>8, <1>9, <1>10 DEF CoversText, all, x

(* Cutting from any start covers the text from there.                      *)
LEMMA CutsCover ==
  ASSUME NEW body \in Nat, NEW budget \in Nat, budget > Overlap,
         NEW f, Cuts(f, body, budget, 0 .. body), NEW start \in 0 .. body - 1
  PROVE  CoversText(f[start], start, body, budget)
<1> DEFINE Bad == {n \in Nat : n > 0 /\ n <= body /\ ~CoversText(f[body - n], body - n, body, budget)}
<1>1. Bad = {}
  <2> SUFFICES ASSUME Bad # {} PROVE FALSE
    OBVIOUS
  <2>1. PICK n \in Bad : \A m \in Bad : n <= m
    BY LeastOf
  <2>2. /\ n \in Nat /\ n > 0 /\ n <= body /\ ~CoversText(f[body - n], body - n, body, budget)
        /\ \A m \in Nat : m > 0 /\ m < n => CoversText(f[body - m], body - m, body, budget)
    BY <2>1
  <2> HIDE DEF Bad
  <2> DEFINE s == body - n
  <2>3. s \in Nat /\ s < body /\ s \in 0 .. body
    BY <2>2
  <2>4. f[s] = IF s + budget >= body
               THEN <<[first |-> s, last |-> body]>>
               ELSE <<[first |-> s, last |-> s + budget]>> \o f[Resume(s + budget)]
    BY <2>3 DEF Cuts
  <2> HIDE DEF s
  <2>5. CASE s + budget >= body
    <3> DEFINE x == [first |-> s, last |-> body]
    <3>1. x \in Window /\ x.first = s /\ x.last = body
      BY <2>3 DEF Window
    <3>2. x = [first |-> s, last |-> IF s + budget >= body THEN body ELSE s + budget]
      BY <2>5
    <3> HIDE DEF x
    <3>3. /\ <<x>> \in Seq(Window) /\ Len(<<x>>) = 1 /\ <<x>>[1] = x
      BY <3>1
    <3>4. CoversText(<<x>>, s, body, budget)
      BY <3>1, <3>2, <3>3, <2>3, <2>5 DEF CoversText
    <3> QED
      BY <3>4, <2>2, <2>4, <2>5 DEF s, x
  <2>6. CASE s + budget < body
    <3>1. Resume(s + budget) \in Nat /\ s < Resume(s + budget) /\ Resume(s + budget) < body
      BY <2>3, <2>6, ResumeMovesOn
    <3> DEFINE m == body - Resume(s + budget)
    <3>2. m \in Nat /\ m > 0 /\ m < n /\ body - m = Resume(s + budget)
      BY <3>1, <2>2 DEF s
    <3>3. CoversText(f[Resume(s + budget)], Resume(s + budget), body, budget)
      BY <3>2, <2>2
    <3>4. CoversText(<<[first |-> s, last |-> s + budget]>> \o f[Resume(s + budget)], s, body, budget)
      BY <3>3, <2>3, <2>6, OneMoreWindow
    <3>5. f[s] = <<[first |-> s, last |-> s + budget]>> \o f[Resume(s + budget)]
      BY <2>3, <2>4, <2>6
    <3> QED
      BY <3>4, <3>5, <2>2 DEF s
  <2> QED
    BY <2>3, <2>5, <2>6
<1>2. body - start \in Nat /\ body - start > 0 /\ body - start <= body /\ body - (body - start) = start
  OBVIOUS
<1> QED
  BY <1>1, <1>2

(* The windows of a section that fits start at its first token, overlap by *)
(* exactly Overlap tokens, and end with its last token.                    *)
LEMMA WindowsCover ==
  ASSUME NEW section, section.body \in Nat, section.heading \in Nat, section.body > 0, Fits(section)
  PROVE  CoversText(Windows(section), 0, section.body, Budget(section))
<1>1. Budget(section) \in Nat /\ Budget(section) > Overlap
  BY TokenAssumption DEF Budget, Fits
<1> DEFINE f == CHOOSE g : Cuts(g, section.body, Budget(section), 0 .. section.body)
<1>2. Windows(section) = f[0]
  BY DEF Windows, Cuts
<1>3. Cuts(f, section.body, Budget(section), 0 .. section.body)
  BY <1>1, CutsExist
<1> HIDE DEF f
<1>4. 0 \in 0 .. section.body - 1
  OBVIOUS
<1> QED
  BY <1>1, <1>2, <1>3, <1>4, CutsCover

-----------------------------------------------------------------------------
(* The sections that are cut: sequences of any kind of section.            *)
IsSection(section) ==
  /\ section.body \in Nat /\ section.heading \in Nat
  /\ Kept(section)

Sectioned(sections) ==
  /\ \E T : sections \in Seq(T)
  /\ \A n \in 1 .. Len(sections) : IsSection(sections[n])

ChunkOf(sections) ==
  [section : Nat, anchor : {sections[n].anchor : n \in 1 .. Len(sections)},
   first : Nat, last : Nat, tokens : Int]

(* These chunks fit, and cover the sections from the first to the last.    *)
CoversFrom(sections, chunks, first, last) ==
  /\ chunks \in Seq(ChunkOf(sections)) /\ Len(chunks) > 0
  /\ \A n \in 1 .. Len(chunks) :
       chunks[n].tokens > 0 /\ (chunks[n].last > 0 => chunks[n].tokens <= Target)
  /\ StartsSection(chunks[1], first)
  /\ \A n \in 1 .. Len(chunks) - 1 : Follows(sections, chunks[n], chunks[n + 1])
  /\ EndsSection(sections, chunks[Len(chunks)])
  /\ chunks[Len(chunks)].section = last

(* These windows make chunks that fit and cover a section's text.          *)
WindowsFit(section, ws) ==
  /\ ws \in Seq(Window) /\ Len(ws) > 0 /\ ws[1].first = 0
  /\ ws[Len(ws)].last = section.body
  /\ \A w \in 1 .. Len(ws) :
       LET tokens == section.heading + ws[w].last - ws[w].first
       IN  tokens \in Int /\ tokens > 0 /\ (ws[w].last > 0 => tokens <= Target)
  /\ \A w \in 1 .. Len(ws) - 1 :
       ws[w + 1].first = ws[w].last - Overlap /\ ws[w + 1].last > ws[w].last

(* A section without text has one window, of its heading alone.            *)
LEMMA WindowsAre ==
  ASSUME NEW section, IsSection(section), Fits(section)
  PROVE  WindowsFit(section, Windows(section))
<1> DEFINE ws == Windows(section)
<1>1. section.body \in Nat /\ section.heading \in Nat
  BY DEF IsSection
<1>2. CASE section.body = 0
  <2> DEFINE x == [first |-> 0, last |-> 0]
  <2>1. ws = <<x>>
    BY <1>2 DEF Windows
  <2>2. x \in Window /\ x.first = 0 /\ x.last = 0
    BY DEF Window
  <2> HIDE DEF x
  <2>3. <<x>> \in Seq(Window) /\ Len(<<x>>) = 1 /\ <<x>>[1] = x
    BY <2>2
  <2>4. section.heading > 0
    BY <1>1, <1>2 DEF IsSection, Kept
  <2> HIDE DEF ws
  <2>5. \A w \in 1 .. Len(ws) : w = 1
    BY <2>1, <2>3
  <2> QED
    BY <1>1, <1>2, <2>1, <2>2, <2>3, <2>4, <2>5 DEF ws, WindowsFit
<1>3. CASE section.body > 0
  <2>1. CoversText(ws, 0, section.body, Budget(section))
    BY <1>1, <1>3, WindowsCover
  <2>2. Target \in Nat
    BY TokenAssumption
  <2> HIDE DEF ws
  <2>3. ASSUME NEW w \in 1 .. Len(ws)
        PROVE  LET tokens == section.heading + ws[w].last - ws[w].first
               IN  tokens \in Int /\ tokens > 0 /\ (ws[w].last > 0 => tokens <= Target)
    <3>1. ws[w] \in Window /\ ws[w].first < ws[w].last
          /\ ws[w].last <= ws[w].first + Budget(section)
      BY <2>1 DEF CoversText
    <3>2. ws[w].first \in Nat /\ ws[w].last \in Nat
      BY <3>1 DEF Window
    <3> QED
      BY <1>1, <2>2, <3>1, <3>2 DEF Budget
  <2>4. ws[1].first = 0
    BY <2>1 DEF CoversText
  <2> QED
    BY <2>1, <2>3, <2>4 DEF CoversText, ws, WindowsFit
<1> HIDE DEF ws
<1> QED
  BY <1>1, <1>2, <1>3 DEF ws

(* The chunks of one section cover it.                                     *)
LEMMA SectionIsCovered ==
  ASSUME NEW sections, Sectioned(sections), NEW n \in 1 .. Len(sections), Fits(sections[n])
  PROVE  CoversFrom(sections, ChunksOfSection(sections[n], n), n, n)
<1> DEFINE section == sections[n]
           ws == Windows(section)
           tokens(w) == section.heading + ws[w].last - ws[w].first
           cs == [w \in 1 .. Len(ws) |->
                    [section |-> n, anchor |-> section.anchor,
                     first |-> ws[w].first, last |-> ws[w].last, tokens |-> tokens(w)]]
           T == ChunkOf(sections)
<1>1. /\ ws \in Seq(Window) /\ Len(ws) > 0 /\ ws[1].first = 0
      /\ ws[Len(ws)].last = section.body
      /\ \A w \in 1 .. Len(ws) :
           tokens(w) \in Int /\ tokens(w) > 0 /\ (ws[w].last > 0 => tokens(w) <= Target)
      /\ \A w \in 1 .. Len(ws) - 1 :
           ws[w + 1].first = ws[w].last - Overlap /\ ws[w + 1].last > ws[w].last
  BY WindowsAre DEF Sectioned, WindowsFit
<1> HIDE DEF ws
<1>2. Len(ws) \in Nat /\ DOMAIN ws = 1 .. Len(ws)
  BY <1>1
<1>3. ChunksOfSection(section, n) = cs
  BY <1>2 DEF ChunksOfSection, ws
<1>4. n \in Nat
  <2>1. Len(sections) \in Nat
    BY DEF Sectioned
  <2> QED
    BY <2>1
<1> HIDE DEF tokens
<1>5. \A w \in 1 .. Len(ws) : cs[w] \in T
  <2> TAKE w \in 1 .. Len(ws)
  <2>1. ws[w] \in Window /\ tokens(w) \in Int
    BY <1>1
  <2>2. section.anchor \in {sections[k].anchor : k \in 1 .. Len(sections)}
    OBVIOUS
  <2> HIDE DEF section
  <2> QED
    BY <1>4, <2>1, <2>2 DEF ChunkOf, Window
<1>6. \A w \in 1 .. Len(ws) : /\ cs[w].section = n /\ cs[w].first = ws[w].first
                              /\ cs[w].last = ws[w].last /\ cs[w].tokens = tokens(w)
  OBVIOUS
<1>7. cs \in Seq(T) /\ Len(cs) = Len(ws)
  <2> HIDE DEF T
  <2> QED
    BY <1>2, <1>5
<1> HIDE DEF cs
<1>8. 1 \in 1 .. Len(ws) /\ Len(ws) \in 1 .. Len(ws)
  BY <1>1, <1>2
<1>9. \A w \in 1 .. Len(cs) - 1 : Follows(sections, cs[w], cs[w + 1])
  <2> TAKE w \in 1 .. Len(cs) - 1
  <2>1. w \in 1 .. Len(ws) /\ w + 1 \in 1 .. Len(ws) /\ w \in 1 .. Len(ws) - 1
    BY <1>2, <1>7
  <2> QED
    BY <2>1, <1>1, <1>6 DEF Follows
<1>10. StartsSection(cs[1], n) /\ EndsSection(sections, cs[Len(cs)]) /\ cs[Len(cs)].section = n
  BY <1>1, <1>6, <1>7, <1>8 DEF StartsSection, EndsSection
<1>11. \A w \in 1 .. Len(cs) : cs[w].tokens > 0 /\ (cs[w].last > 0 => cs[w].tokens <= Target)
  BY <1>1, <1>6, <1>7
<1> QED
  BY <1>1, <1>3, <1>7, <1>9, <1>10, <1>11 DEF CoversFrom

(* Two sequences one after the other.                                      *)
LEMMA Joined ==
  ASSUME NEW S, NEW s \in Seq(S), NEW t \in Seq(S)
  PROVE  /\ s \o t \in Seq(S) /\ Len(s) \in Nat /\ Len(t) \in Nat
         /\ Len(s \o t) = Len(s) + Len(t)
         /\ \A n \in 1 .. Len(s) : (s \o t)[n] = s[n]
         /\ \A n \in 1 .. Len(t) : (s \o t)[Len(s) + n] = t[n]
OBVIOUS

(* The chunks of some sections, followed by those of the next.             *)
LEMMA CoversMore ==
  ASSUME NEW sections, NEW n \in Nat, NEW a, CoversFrom(sections, a, 1, n),
         NEW b, CoversFrom(sections, b, n + 1, n + 1)
  PROVE  CoversFrom(sections, a \o b, 1, n + 1)
<1> DEFINE c == a \o b
           T == ChunkOf(sections)
<1>1. /\ c \in Seq(T) /\ Len(a) \in Nat /\ Len(b) \in Nat
      /\ Len(c) = Len(a) + Len(b) /\ Len(a) > 0 /\ Len(b) > 0
      /\ \A k \in 1 .. Len(a) : c[k] = a[k]
      /\ \A k \in 1 .. Len(b) : c[Len(a) + k] = b[k]
  <2>1. a \in Seq(T) /\ b \in Seq(T) /\ Len(a) > 0 /\ Len(b) > 0
    BY DEF CoversFrom
  <2> HIDE DEF T
  <2> QED
    BY <2>1, Joined
<1> HIDE DEF c, T
<1>2. \A k \in 1 .. Len(c) :
        (k \in 1 .. Len(a) /\ c[k] = a[k]) \/ (k - Len(a) \in 1 .. Len(b) /\ c[k] = b[k - Len(a)])
  <2> TAKE k \in 1 .. Len(c)
  <2>1. CASE k <= Len(a)
    BY <2>1, <1>1
  <2>2. CASE k > Len(a)
    <3>1. k - Len(a) \in 1 .. Len(b) /\ Len(a) + (k - Len(a)) = k
      BY <2>2, <1>1
    <3> QED
      BY <3>1, <1>1
  <2> QED
    BY <2>1, <2>2, <1>1
<1>3. \A k \in 1 .. Len(c) : c[k].tokens > 0 /\ (c[k].last > 0 => c[k].tokens <= Target)
  BY <1>2 DEF CoversFrom
<1>4. c[1] = a[1] /\ c[Len(c)] = b[Len(b)] /\ c[Len(a)] = a[Len(a)] /\ c[Len(a) + 1] = b[1]
  BY <1>1
<1>5. \A k \in 1 .. Len(c) - 1 : Follows(sections, c[k], c[k + 1])
  <2> TAKE k \in 1 .. Len(c) - 1
  <2>1. CASE k < Len(a)
    <3>1. k \in 1 .. Len(a) - 1 /\ k \in 1 .. Len(a) /\ k + 1 \in 1 .. Len(a)
      BY <2>1, <1>1
    <3> QED
      BY <3>1, <1>1 DEF CoversFrom
  <2>2. CASE k = Len(a)
    <3>1. /\ EndsSection(sections, a[Len(a)]) /\ a[Len(a)].section = n
          /\ StartsSection(b[1], n + 1)
      BY DEF CoversFrom
    <3> QED
      BY <2>2, <3>1, <1>4 DEF Follows
  <2>3. CASE k > Len(a)
    <3> DEFINE j == k - Len(a)
    <3>1. j \in 1 .. Len(b) - 1 /\ j \in 1 .. Len(b) /\ j + 1 \in 1 .. Len(b)
          /\ Len(a) + j = k /\ Len(a) + (j + 1) = k + 1
      BY <2>3, <1>1
    <3> HIDE DEF j
    <3>2. c[k] = b[j] /\ c[k + 1] = b[j + 1]
      BY <3>1, <1>1
    <3> QED
      BY <3>1, <3>2 DEF CoversFrom
  <2> QED
    BY <2>1, <2>2, <2>3, <1>1
<1>6. Len(c) > 0 /\ c \in Seq(T)
  BY <1>1
<1>7. /\ StartsSection(c[1], 1) /\ EndsSection(sections, c[Len(c)])
      /\ c[Len(c)].section = n + 1
  BY <1>4 DEF CoversFrom
<1> QED
  BY <1>3, <1>5, <1>6, <1>7 DEF CoversFrom, c, T

-----------------------------------------------------------------------------
(* FlattenSeq is the function chosen to satisfy its recursion: f joins the *)
(* first sequences of cs, up to the n-th.                                  *)
Joins(f, cs, n) == f = [i \in 1 .. n |-> IF i = 1 THEN cs[i] ELSE f[i - 1] \o cs[i]]

LEMMA JoinsExist ==
  ASSUME NEW cs, NEW n \in Nat
  PROVE  \E f : Joins(f, cs, n)
<1> DEFINE Bad == {k \in Nat : ~ \E f : Joins(f, cs, k)}
<1>1. Bad = {}
  <2> SUFFICES ASSUME Bad # {} PROVE FALSE
    OBVIOUS
  <2>1. PICK k \in Bad : \A m \in Bad : k <= m
    BY LeastOf
  <2>2. k \in Nat /\ ~ \E f : Joins(f, cs, k)
    BY <2>1
  <2>3. CASE k = 0
    <3> DEFINE f == [i \in 1 .. 0 |-> cs[i]]
    <3>1. \A i \in 1 .. 0 : FALSE
      OBVIOUS
    <3>2. f = [i \in 1 .. 0 |-> IF i = 1 THEN cs[i] ELSE f[i - 1] \o cs[i]]
      BY <3>1
    <3> HIDE DEF f
    <3> QED
      BY <3>2, <2>2, <2>3 DEF Joins
  <2>4. CASE k # 0
    <3>1. k - 1 \in Nat /\ k - 1 \notin Bad
      BY <2>1, <2>4
    <3>2. PICK g : Joins(g, cs, k - 1)
      BY <3>1
    <3> DEFINE h == [i \in 1 .. k |-> IF i = 1 THEN cs[i] ELSE g[i - 1] \o cs[i]]
    <3>3. \A i \in 1 .. k - 1 : h[i] = g[i]
      <4>1. \A i \in 1 .. k - 1 : i \in 1 .. k
        BY <2>2
      <4> QED
        BY <4>1, <3>2 DEF Joins
    <3>4. \A i \in 1 .. k : i # 1 => h[i - 1] = g[i - 1]
      <4>1. \A i \in 1 .. k : i # 1 => i - 1 \in 1 .. k - 1
        BY <2>2
      <4> HIDE DEF h
      <4> QED
        BY <3>3, <4>1
    <3>5. h = [i \in 1 .. k |-> IF i = 1 THEN cs[i] ELSE h[i - 1] \o cs[i]]
      BY <3>4
    <3> HIDE DEF h
    <3> QED
      BY <3>5, <2>2 DEF Joins
  <2> QED
    BY <2>3, <2>4
<1> QED
  BY <1>1

LEMMA FlattenJoins ==
  ASSUME NEW cs, Len(cs) \in Nat, Len(cs) # 0
  PROVE  \E f : Joins(f, cs, Len(cs)) /\ FlattenSeq(cs) = f[Len(cs)]
<1> DEFINE f == CHOOSE g : Joins(g, cs, Len(cs))
<1>1. FlattenSeq(cs) = f[Len(cs)]
  BY DEF FlattenSeq, Joins
<1>2. Joins(f, cs, Len(cs))
  BY JoinsExist
<1> QED
  BY <1>1, <1>2

(* chunk covers the sections, when each fits and there is one.             *)
LEMMA ChunksCover ==
  ASSUME NEW sections, Sectioned(sections), Len(sections) > 0,
         \A n \in 1 .. Len(sections) : Fits(sections[n])
  PROVE  CoversFrom(sections, ChunksOf(sections), 1, Len(sections))
<1>1. Len(sections) \in Nat /\ DOMAIN sections = 1 .. Len(sections)
  BY DEF Sectioned
<1> DEFINE N == Len(sections)
           cs == [n \in 1 .. N |-> ChunksOfSection(sections[n], n)]
<1>2. ChunksOf(sections) = FlattenSeq(cs)
  BY <1>1 DEF ChunksOf
<1>3. \A n \in 1 .. N : CoversFrom(sections, cs[n], n, n)
  BY SectionIsCovered
<1>4. Len(cs) = N
  BY <1>1
<1> HIDE DEF cs
<1>5. PICK f : Joins(f, cs, N) /\ FlattenSeq(cs) = f[N]
  BY <1>1, <1>4, FlattenJoins
<1>6. \A n \in 1 .. N : f[n] = IF n = 1 THEN cs[n] ELSE f[n - 1] \o cs[n]
  BY <1>5 DEF Joins
<1> DEFINE Bad == {n \in Nat : n >= 1 /\ n <= N /\ ~CoversFrom(sections, f[n], 1, n)}
<1>7. Bad = {}
  <2> SUFFICES ASSUME Bad # {} PROVE FALSE
    OBVIOUS
  <2>1. PICK n \in Bad : \A m \in Bad : n <= m
    BY LeastOf
  <2>2. n \in Nat /\ n \in 1 .. N /\ ~CoversFrom(sections, f[n], 1, n)
    BY <2>1, <1>1
  <2>3. CASE n = 1
    BY <2>2, <2>3, <1>3, <1>6
  <2>4. CASE n # 1
    <3>1. n - 1 \in Nat /\ n - 1 >= 1 /\ n - 1 <= N /\ n - 1 \notin Bad /\ (n - 1) + 1 = n
      BY <2>1, <2>2, <2>4, <1>1
    <3>2. CoversFrom(sections, f[n - 1], 1, n - 1)
      BY <3>1
    <3>3. CoversFrom(sections, cs[n], (n - 1) + 1, (n - 1) + 1)
      BY <3>1, <2>2, <1>3
    <3>4. CoversFrom(sections, f[n - 1] \o cs[n], 1, (n - 1) + 1)
      BY <3>1, <3>2, <3>3, CoversMore
    <3> QED
      BY <3>1, <3>4, <2>2, <2>4, <1>6
  <2> QED
    BY <2>3, <2>4
<1>8. N \notin Bad
  BY <1>7
<1>9. CoversFrom(sections, f[N], 1, N)
  BY <1>8, <1>1
<1> QED
  BY <1>2, <1>5, <1>9

-----------------------------------------------------------------------------
(* The sections of a document.                                             *)
LEMMA LineTypes ==
  ASSUME NEW lines \in Seq(Line)
  PROVE  /\ Len(lines) \in Nat /\ DOMAIN lines = 1 .. Len(lines)
         /\ \A n \in 1 .. Len(lines) :
              lines[n].tokens \in Nat /\ (lines[n].slug # NoSlug => lines[n].tokens > 0)
<1>1. \A n \in 1 .. Len(lines) : lines[n] \in Line
  OBVIOUS
<1> QED
  BY <1>1, LineAssumption

(* One more line of text.                                                  *)
LEMMA TokensGrow ==
  ASSUME NEW lines \in Seq(Line), NEW m \in Nat, NEW n \in Nat, m <= n, n + 1 <= Len(lines)
  PROVE  Tokens(lines, m + 1 .. n + 1) = Tokens(lines, m + 1 .. n) + lines[n + 1].tokens
<1> DEFINE f == [k \in DOMAIN lines |-> lines[k].tokens]
<1>1. \A k \in 1 .. Len(lines) : f[k] \in Int /\ f[k] = lines[k].tokens
  BY LineTypes
<1>2. \A k \in m + 1 .. n : k \in 1 .. Len(lines)
  BY LineTypes
<1>3. n + 1 \in 1 .. Len(lines)
  BY LineTypes
<1>4. n + 1 \notin m + 1 .. n /\ m + 1 .. n + 1 = (m + 1 .. n) \cup {n + 1}
  OBVIOUS
<1> HIDE DEF f
<1> DEFINE S == m + 1 .. n
           x == n + 1
<1>5. IsFiniteSet(S)
  BY FS_Interval
<1>6. (\A k \in S : f[k] \in Int /\ f[k] = f[k]) /\ f[x] \in Int /\ x \notin S
  BY <1>1, <1>2, <1>3, <1>4
<1> HIDE DEF S, x
<1>7. SumFunctionOnSet(f, S \cup {x}) = SumFunctionOnSet(f, S) + f[x]
  BY <1>5, <1>6, SumAdd
<1> QED
  BY <1>1, <1>3, <1>4, <1>7 DEF Tokens, f, S, x

LEMMA NoTokens == ASSUME NEW lines PROVE Tokens(lines, {}) = 0
<1>1. IsFiniteSet({})
  BY FS_EmptySet
<1> QED
  BY <1>1, SumFirst DEF Tokens

(* The sections that end at line n at the latest.                          *)
LinesUpTo(lines, n) ==
  {h \in Headings(lines) : h <= n}
    \cup {m \in {0} : n >= 0 /\ Tokens(lines, TextUnder(lines, m)) > 0}

Finished(lines, sections, n) ==
  /\ \E T : sections \in Seq(T)
  /\ \A k \in 1 .. Len(sections) : IsSectionOf(lines, sections[k]) /\ IsSection(sections[k])
  /\ \A k, l \in 1 .. Len(sections) : k < l => sections[k].line < sections[l].line
  /\ \A k \in 1 .. Len(sections) : sections[k].line \in LinesUpTo(lines, n)
  /\ \A m \in LinesUpTo(lines, n) : \E k \in 1 .. Len(sections) : sections[k].line = m

(* The section in hand after n lines.                                      *)
InHand(lines, c, n) ==
  /\ c = [slug |-> c.slug, anchor |-> c.anchor, line |-> c.line,
          heading |-> c.heading, body |-> c.body]
  /\ c.line \in 0 .. n
  /\ c.line > 0 => lines[c.line].slug # NoSlug
  /\ \A k \in c.line + 1 .. n : lines[k].slug = NoSlug
  /\ c.slug = IF c.line = 0 THEN <<"preamble">> ELSE lines[c.line].slug
  /\ c.heading = IF c.line = 0 THEN 0 ELSE lines[c.line].tokens
  /\ c.body = Tokens(lines, c.line + 1 .. n)
  /\ c.body \in Nat

Underway(lines, g, n) ==
  /\ g = [sections |-> g.sections, current |-> g.current]
  /\ Finished(lines, g.sections, g.current.line - 1)
  /\ InHand(lines, g.current, n)

(* One element after a sequence of anything.                               *)
LEMMA After ==
  ASSUME NEW T, NEW s \in Seq(T), NEW e
  PROVE  /\ Append(s, e) \in Seq(T \cup {e})
         /\ Len(s) \in Nat /\ Len(Append(s, e)) = Len(s) + 1
         /\ Append(s, e)[Len(s) + 1] = e
         /\ \A k \in 1 .. Len(s) : Append(s, e)[k] = s[k]
<1>1. s \in Seq(T \cup {e}) /\ e \in T \cup {e}
  OBVIOUS
<1> QED
  BY <1>1

(* The text of the section in hand ends with the document or at a heading. *)
LEMMA TextEnds ==
  ASSUME NEW lines \in Seq(Line), NEW n \in 0 .. Len(lines), NEW c, InHand(lines, c, n),
         n < Len(lines) => lines[n + 1].slug # NoSlug
  PROVE  TextUnder(lines, c.line) = c.line + 1 .. n
<1>1. Len(lines) \in Nat /\ n \in Nat /\ n <= Len(lines) /\ c.line \in Nat /\ c.line <= n
  BY LineTypes DEF InHand
<1>2. \A k \in c.line + 1 .. n : lines[k].slug = NoSlug
  BY DEF InHand
<1>3. ASSUME NEW m \in c.line + 1 .. n PROVE m \in TextUnder(lines, c.line)
  <2>1. m \in c.line + 1 .. Len(lines)
    BY <1>1
  <2>2. \A k \in c.line + 1 .. m : k \in c.line + 1 .. n
    BY <1>1
  <2> QED
    BY <1>2, <2>1, <2>2 DEF TextUnder
<1>4. ASSUME NEW m \in TextUnder(lines, c.line) PROVE m \in c.line + 1 .. n
  <2>1. m \in c.line + 1 .. Len(lines) /\ \A k \in c.line + 1 .. m : lines[k].slug = NoSlug
    BY DEF TextUnder
  <2>2. CASE m > n
    <3>1. n < Len(lines) /\ n + 1 \in c.line + 1 .. m
      BY <1>1, <2>1, <2>2
    <3> QED
      BY <2>1, <3>1
  <2> QED
    BY <1>1, <2>1, <2>2
<1> QED
  BY <1>3, <1>4

(* The headings up to n are those before the one in hand, and that one.    *)
LEMMA LinesMoveOn ==
  ASSUME NEW lines \in Seq(Line), NEW n \in 0 .. Len(lines), NEW c, InHand(lines, c, n),
         n < Len(lines) => lines[n + 1].slug # NoSlug
  PROVE  LinesUpTo(lines, n) = LinesUpTo(lines, c.line - 1)
           \cup {m \in {c.line} : Kept(c)}
<1>1. /\ Len(lines) \in Nat /\ n \in Nat /\ n <= Len(lines) /\ c.line \in Nat /\ c.line <= n
      /\ DOMAIN lines = 1 .. Len(lines) /\ c.body \in Nat
  BY LineTypes DEF InHand
<1>2. c.body = Tokens(lines, TextUnder(lines, c.line))
  BY TextEnds DEF InHand
<1>3. \A h \in Headings(lines) : h \in Nat /\ h >= 1 /\ (h <= n <=> h <= c.line - 1 \/ h = c.line)
  <2> TAKE h \in Headings(lines)
  <2>1. h \in 1 .. Len(lines) /\ lines[h].slug # NoSlug
    BY <1>1 DEF Headings
  <2>2. h \notin c.line + 1 .. n
    BY <2>1 DEF InHand
  <2> QED
    BY <1>1, <2>1, <2>2
<1>4. CASE c.line = 0
  <2>1. c.heading = 0
    BY <1>4 DEF InHand
  <2>2. Kept(c) <=> c.body > 0
    BY <1>1, <2>1 DEF Kept
  <2>3. LinesUpTo(lines, c.line - 1) = {}
    BY <1>3, <1>4 DEF LinesUpTo
  <2>4. \A h \in Headings(lines) : ~(h <= n)
    BY <1>3, <1>4
  <2>5. LinesUpTo(lines, n) = {m \in {0} : Tokens(lines, TextUnder(lines, m)) > 0}
    BY <1>1, <2>4 DEF LinesUpTo
  <2>6. {m \in {0} : Tokens(lines, TextUnder(lines, m)) > 0} = {m \in {c.line} : Kept(c)}
    BY <1>2, <1>4, <2>2
  <2> QED
    BY <2>3, <2>5, <2>6
<1>5. CASE c.line > 0
  <2>1. c.line \in 1 .. Len(lines) /\ lines[c.line].slug # NoSlug
    BY <1>1, <1>5 DEF InHand
  <2>2. Kept(c)
    BY <1>5, <2>1, LineTypes DEF Kept, InHand
  <2>3. c.line \in Headings(lines)
    BY <1>1, <2>1 DEF Headings
  <2>4. {h \in Headings(lines) : h <= n} = {h \in Headings(lines) : h <= c.line - 1} \cup {c.line}
    BY <1>1, <1>3, <2>3
  <2>5. n >= 0 /\ c.line - 1 >= 0
    BY <1>1, <1>5
  <2> QED
    BY <2>2, <2>4, <2>5 DEF LinesUpTo
<1> QED
  BY <1>1, <1>4, <1>5

(* append_current ends the section in hand.                                *)
LEMMA CloseFinishes ==
  ASSUME NEW lines \in Seq(Line), NEW n \in 0 .. Len(lines), NEW s, NEW c,
         Finished(lines, s, c.line - 1), InHand(lines, c, n),
         n < Len(lines) => lines[n + 1].slug # NoSlug
  PROVE  Finished(lines, Close(s, c), n)
<1>1. LinesUpTo(lines, n) = LinesUpTo(lines, c.line - 1) \cup {m \in {c.line} : Kept(c)}
  BY LinesMoveOn
<1>2. CASE ~Kept(c)
  <2>1. Close(s, c) = s /\ LinesUpTo(lines, n) = LinesUpTo(lines, c.line - 1)
    BY <1>1, <1>2 DEF Close
  <2> QED
    BY <2>1 DEF Finished
<1>3. CASE Kept(c)
  <2> DEFINE a == Anchor(c.slug, [k \in DOMAIN s |-> s[k].slug])
             e == [c EXCEPT !.anchor = a]
             t == Append(s, e)
  <2>1. Close(s, c) = t
    BY <1>3 DEF Close
  <2> HIDE DEF a
  <2>2. /\ e.slug = c.slug /\ e.line = c.line /\ e.heading = c.heading /\ e.body = c.body
    <3> DEFINE r == [slug |-> c.slug, anchor |-> c.anchor, line |-> c.line,
                     heading |-> c.heading, body |-> c.body]
    <3>1. c = r
      BY DEF InHand
    <3>2. e = [r EXCEPT !.anchor = a]
      BY <3>1
    <3> QED
      BY <3>2
  <2> HIDE DEF e
  <2>3. PICK T : s \in Seq(T)
    BY DEF Finished
  <2>4. /\ t \in Seq(T \cup {e}) /\ Len(s) \in Nat /\ Len(t) = Len(s) + 1
        /\ t[Len(s) + 1] = e /\ \A k \in 1 .. Len(s) : t[k] = s[k]
    BY <2>3, After
  <2> HIDE DEF t
  <2>5. \A k \in 1 .. Len(t) : k \in 1 .. Len(s) \/ k = Len(s) + 1
    BY <2>4
  <2>6. /\ Len(lines) \in Nat /\ DOMAIN lines = 1 .. Len(lines)
        /\ n \in Nat /\ c.line \in Nat /\ c.line <= n /\ c.body \in Nat
    BY LineTypes DEF InHand
  <2>7. IsSectionOf(lines, e) /\ IsSection(e)
    <3>1. e.body = Tokens(lines, TextUnder(lines, e.line))
      BY <2>2, TextEnds DEF InHand
    <3>2. /\ e.slug = IF e.line = 0 THEN <<"preamble">> ELSE lines[e.line].slug
          /\ e.heading = IF e.line = 0 THEN 0 ELSE lines[e.line].tokens
      BY <2>2 DEF InHand
    <3>3. e.heading \in Nat
      <4>1. c.line = 0 \/ c.line \in 1 .. Len(lines)
        BY <2>6
      <4> QED
        BY <2>2, <3>2, <4>1, LineTypes
    <3>4. Kept(e)
      BY <1>3, <2>2 DEF Kept
    <3> QED
      BY <2>2, <2>6, <3>1, <3>2, <3>3, <3>4 DEF IsSectionOf, IsSection
  <2>8. \A m \in LinesUpTo(lines, c.line - 1) : m \in Nat /\ m < c.line
    BY <2>6 DEF LinesUpTo, Headings
  <2>9. \A k \in 1 .. Len(t) : IsSectionOf(lines, t[k]) /\ IsSection(t[k])
    BY <2>4, <2>5, <2>7 DEF Finished
  <2>10. \A k, l \in 1 .. Len(t) : k < l => t[k].line < t[l].line
    <3> TAKE k, l \in 1 .. Len(t)
    <3> HAVE k < l
    <3>1. k \in 1 .. Len(s) /\ t[k] = s[k]
      BY <2>4
    <3>2. CASE l \in 1 .. Len(s)
      BY <3>1, <3>2, <2>4 DEF Finished
    <3>3. CASE l = Len(s) + 1
      <4>1. s[k].line < c.line
        BY <3>1, <2>8 DEF Finished
      <4> QED
        BY <3>1, <3>3, <4>1, <2>2, <2>4
    <3> QED
      BY <3>2, <3>3, <2>5
  <2>11. LinesUpTo(lines, n) = LinesUpTo(lines, c.line - 1) \cup {c.line}
    BY <1>1, <1>3
  <2>12. \A k \in 1 .. Len(t) : t[k].line \in LinesUpTo(lines, n)
    BY <2>2, <2>4, <2>5, <2>11 DEF Finished
  <2>13. \A m \in LinesUpTo(lines, n) : \E k \in 1 .. Len(t) : t[k].line = m
    <3> TAKE m \in LinesUpTo(lines, n)
    <3>1. CASE m = c.line
      <4>1. Len(s) + 1 \in 1 .. Len(t)
        BY <2>4
      <4> QED
        BY <3>1, <4>1, <2>2, <2>4
    <3>2. CASE m # c.line
      <4>1. PICK k \in 1 .. Len(s) : s[k].line = m
        BY <3>2, <2>11 DEF Finished
      <4>2. k \in 1 .. Len(t)
        BY <2>4
      <4> QED
        BY <4>1, <4>2, <2>4
    <3> QED
      BY <3>1, <3>2
  <2>14. \E U : t \in Seq(U)
    BY <2>4
  <2> QED
    BY <2>1, <2>9, <2>10, <2>12, <2>13, <2>14 DEF Finished
<1> QED
  BY <1>2, <1>3

LEMMA ReadStep ==
  ASSUME NEW lines \in Seq(Line), NEW n \in Nat, n < Len(lines), NEW g, Underway(lines, g, n)
  PROVE  Underway(lines, Read(g, n + 1, lines[n + 1]), n + 1)
<1> DEFINE line == lines[n + 1]
           c == g.current
           h == Read(g, n + 1, line)
<1>1. /\ Len(lines) \in Nat /\ n + 1 \in 1 .. Len(lines) /\ n \in 0 .. Len(lines)
      /\ line.tokens \in Nat
  BY LineTypes
<1>2. /\ c.line \in Nat /\ c.line <= n /\ c.body \in Nat
      /\ Finished(lines, g.sections, c.line - 1) /\ InHand(lines, c, n)
  BY DEF Underway, InHand
<1>3. CASE line.slug = NoSlug
  <2> DEFINE d == [slug |-> c.slug, anchor |-> c.anchor, line |-> c.line,
                   heading |-> c.heading, body |-> c.body + line.tokens]
  <2>1. h = [sections |-> g.sections, current |-> d]
    <3> DEFINE r == [slug |-> c.slug, anchor |-> c.anchor, line |-> c.line,
                     heading |-> c.heading, body |-> c.body]
    <3>1. h = [g EXCEPT !.current.body = @ + line.tokens]
      BY <1>3 DEF Read
    <3>2. g = [sections |-> g.sections, current |-> c] /\ c = r
      BY DEF Underway, InHand
    <3>3. [c EXCEPT !.body = @ + line.tokens] = d
      <4> HIDE DEF c
      <4>1. [r EXCEPT !.body = @ + line.tokens] = d
        OBVIOUS
      <4> QED
        BY <3>2, <4>1
    <3>4. h = [g EXCEPT !.current = [c EXCEPT !.body = @ + line.tokens]]
      BY <3>1
    <3> QED
      BY <3>2, <3>3, <3>4
  <2> HIDE DEF h, c
  <2>2. d.body = Tokens(lines, c.line + 1 .. n + 1) /\ d.body \in Nat
    BY <1>1, <1>2, TokensGrow DEF InHand
  <2>3. \A k \in c.line + 1 .. n + 1 : lines[k].slug = NoSlug
    BY <1>2, <1>3 DEF InHand
  <2>4. InHand(lines, d, n + 1)
    BY <1>2, <2>2, <2>3 DEF InHand
  <2>5. h.sections = g.sections /\ h.current = d
    BY <2>1
  <2>6. d.line = c.line
    OBVIOUS
  <2> HIDE DEF d
  <2> QED
    BY <1>2, <2>1, <2>4, <2>5, <2>6 DEF Underway, h
<1>4. CASE line.slug # NoSlug
  <2> DEFINE d == Opened(line.slug, n + 1, line.tokens)
             s == Close(g.sections, c)
  <2>1. h = [sections |-> s, current |-> d]
    BY <1>4 DEF Read
  <2>2. Finished(lines, s, n)
    BY <1>1, <1>2, <1>4, CloseFinishes
  <2>3. d.line = n + 1 /\ d.slug = line.slug /\ d.heading = line.tokens /\ d.body = 0
    BY DEF Opened
  <2>4. d = [slug |-> d.slug, anchor |-> d.anchor, line |-> d.line,
             heading |-> d.heading, body |-> d.body]
    BY DEF Opened
  <2> HIDE DEF h, s, d
  <2>5. (n + 1) + 1 .. n + 1 = {}
    OBVIOUS
  <2>6. d.body = Tokens(lines, d.line + 1 .. n + 1)
    BY <2>3, <2>5, NoTokens
  <2>7. InHand(lines, d, n + 1)
    BY <1>4, <2>3, <2>4, <2>5, <2>6 DEF InHand
  <2>8. h.sections = s /\ h.current = d /\ d.line - 1 = n
    BY <2>1, <2>3
  <2> QED
    BY <2>1, <2>2, <2>7, <2>8 DEF Underway, h
<1> QED
  BY <1>3, <1>4

(* f reads the first n lines one after the other.                          *)
Reads(f, lines, n) ==
  f = [k \in 0 .. n |-> IF k = 0 THEN Unread ELSE Read(f[k - 1], k, lines[k])]

LEMMA ReadsExist ==
  ASSUME NEW lines, NEW n \in Nat
  PROVE  \E f : Reads(f, lines, n)
<1> DEFINE Bad == {k \in Nat : ~ \E f : Reads(f, lines, k)}
<1>1. Bad = {}
  <2> SUFFICES ASSUME Bad # {} PROVE FALSE
    OBVIOUS
  <2>1. PICK k \in Bad : \A m \in Bad : k <= m
    BY LeastOf
  <2>2. k \in Nat /\ ~ \E f : Reads(f, lines, k)
    BY <2>1
  <2>3. CASE k = 0
    <3> DEFINE f == [i \in 0 .. 0 |-> Unread]
    <3>1. \A i \in 0 .. 0 : i = 0
      OBVIOUS
    <3>2. f = [i \in 0 .. 0 |-> IF i = 0 THEN Unread ELSE Read(f[i - 1], i, lines[i])]
      BY <3>1
    <3> HIDE DEF f
    <3> QED
      BY <3>2, <2>2, <2>3 DEF Reads
  <2>4. CASE k # 0
    <3>1. k - 1 \in Nat /\ k - 1 \notin Bad
      BY <2>1, <2>4
    <3>2. PICK g : Reads(g, lines, k - 1)
      BY <3>1
    <3> DEFINE h == [i \in 0 .. k |-> IF i = 0 THEN Unread ELSE Read(g[i - 1], i, lines[i])]
    <3>3. \A i \in 0 .. k - 1 : h[i] = g[i]
      <4>1. \A i \in 0 .. k - 1 : i \in 0 .. k
        BY <2>2
      <4> QED
        BY <4>1, <3>2 DEF Reads
    <3>4. \A i \in 0 .. k : i # 0 => h[i - 1] = g[i - 1]
      <4>1. \A i \in 0 .. k : i # 0 => i - 1 \in 0 .. k - 1
        BY <2>2
      <4> HIDE DEF h
      <4> QED
        BY <3>3, <4>1
    <3>5. h = [i \in 0 .. k |-> IF i = 0 THEN Unread ELSE Read(h[i - 1], i, lines[i])]
      BY <3>4
    <3> HIDE DEF h
    <3> QED
      BY <3>5, <2>2 DEF Reads
  <2> QED
    BY <2>3, <2>4
<1> QED
  BY <1>1

LEMMA NothingRead ==
  ASSUME NEW lines \in Seq(Line)
  PROVE  Underway(lines, Unread, 0)
<1>1. /\ Unread = [sections |-> <<>>, current |-> Opened(<<"preamble">>, 0, 0)]
      /\ Unread.sections = <<>> /\ Unread.current = Opened(<<"preamble">>, 0, 0)
  BY DEF Unread
<1> DEFINE c == Opened(<<"preamble">>, 0, 0)
<1>2. /\ c = [slug |-> c.slug, anchor |-> c.anchor, line |-> c.line,
              heading |-> c.heading, body |-> c.body]
      /\ c.slug = <<"preamble">> /\ c.line = 0 /\ c.heading = 0 /\ c.body = 0
  BY DEF Opened
<1> HIDE DEF c
<1>3. 0 + 1 .. 0 = {}
  OBVIOUS
<1>4. InHand(lines, c, 0)
  BY <1>2, <1>3, NoTokens DEF InHand
<1>5. LinesUpTo(lines, c.line - 1) = {}
  <2>1. \A h \in Headings(lines) : ~(h <= c.line - 1)
    BY <1>2, LineTypes DEF Headings
  <2>2. ~(c.line - 1 >= 0)
    BY <1>2
  <2> QED
    BY <2>1, <2>2 DEF LinesUpTo
<1>6. Finished(lines, <<>>, c.line - 1)
  <2>1. <<>> \in Seq({}) /\ Len(<<>>) = 0
    OBVIOUS
  <2>2. \A k \in 1 .. Len(<<>>) : FALSE
    BY <2>1
  <2> QED
    BY <1>5, <2>1, <2>2 DEF Finished
<1>7. Unread.sections = <<>> /\ Unread.current = c
  BY <1>1 DEF c
<1>8. Unread = [sections |-> Unread.sections, current |-> Unread.current]
  BY <1>1
<1> QED
  BY <1>4, <1>6, <1>7, <1>8 DEF Underway

(* _extract_sections: every heading starts a section with the text under   *)
(* it, in order, after the text before the first.                          *)
LEMMA GatheredFinishes ==
  ASSUME NEW lines \in Seq(Line)
  PROVE  Finished(lines, Gathered(lines), Len(lines))
<1> DEFINE N == Len(lines)
           f == CHOOSE g : Reads(g, lines, N)
<1>0. N \in Nat
  BY LineTypes
<1>1. Gathered(lines) = Close(f[N].sections, f[N].current)
  BY DEF Gathered, Reads
<1>2. Reads(f, lines, N)
  BY <1>0, ReadsExist
<1> HIDE DEF f
<1>3. \A k \in 0 .. N : f[k] = IF k = 0 THEN Unread ELSE Read(f[k - 1], k, lines[k])
  BY <1>2 DEF Reads
<1> DEFINE Bad == {k \in Nat : k <= N /\ ~Underway(lines, f[k], k)}
<1>4. Bad = {}
  <2> SUFFICES ASSUME Bad # {} PROVE FALSE
    OBVIOUS
  <2>1. PICK k \in Bad : \A m \in Bad : k <= m
    BY LeastOf
  <2>2. k \in Nat /\ k <= N /\ k \in 0 .. N /\ ~Underway(lines, f[k], k)
    BY <2>1, <1>0
  <2>3. CASE k = 0
    BY <2>2, <2>3, <1>3, NothingRead
  <2>4. CASE k # 0
    <3>1. k - 1 \in Nat /\ k - 1 < N /\ k - 1 \notin Bad /\ (k - 1) + 1 = k
      BY <2>1, <2>2, <2>4, <1>0
    <3>2. Underway(lines, f[k - 1], k - 1)
      BY <3>1
    <3>3. Underway(lines, Read(f[k - 1], (k - 1) + 1, lines[(k - 1) + 1]), (k - 1) + 1)
      BY <3>1, <3>2, ReadStep
    <3> QED
      BY <3>1, <3>3, <2>2, <2>4, <1>3
  <2> QED
    BY <2>3, <2>4
<1>5. N \notin Bad
  BY <1>4
<1>6. Underway(lines, f[N], N)
  BY <1>0, <1>5
<1>7. N \in 0 .. Len(lines) /\ ~(N < Len(lines))
  BY <1>0
<1> HIDE DEF N
<1>8. Finished(lines, Close(f[N].sections, f[N].current), N)
  BY <1>6, <1>7, CloseFinishes DEF Underway
<1> QED
  BY <1>1, <1>8 DEF N

(* HeadingAwareChunker, whatever its target and overlap are: every heading *)
(* of a document starts a section with exactly the text under it, and      *)
(* unless a heading leaves no room or has no label, every token of every   *)
(* section is in the chunks, in order, in chunks within the target.        *)
THEOREM EveryBodyIsWholeOrRefused == \A document \in Seq(Line) : WholeOrRefused(document)
<1> TAKE document \in Seq(Line)
<1> DEFINE sections == Gathered(document)
           chunks == Chunk(document)
<1>1. Finished(document, sections, Len(document))
  BY GatheredFinishes
<1>2. Len(document) \in Nat /\ DOMAIN document = 1 .. Len(document)
  BY LineTypes
<1> HIDE DEF sections
<1>3. PICK T : sections \in Seq(T)
  BY <1>1 DEF Finished
<1>4. Len(sections) \in Nat /\ DOMAIN sections = 1 .. Len(sections)
  BY <1>3
<1>5. Divides(document, sections)
  <2>1. LinesUpTo(document, Len(document))
          = Headings(document) \cup {n \in {0} : Tokens(document, TextUnder(document, n)) > 0}
    <3>1. \A h \in Headings(document) : h <= Len(document)
      BY <1>2 DEF Headings
    <3>2. Len(document) >= 0
      BY <1>2
    <3> QED
      BY <3>1, <3>2 DEF LinesUpTo
  <2>2. {sections[n].line : n \in 1 .. Len(sections)} = LinesUpTo(document, Len(document))
    BY <1>1 DEF Finished
  <2>3. /\ \A n \in 1 .. Len(sections) : IsSectionOf(document, sections[n])
        /\ \A n, m \in 1 .. Len(sections) : n < m => sections[n].line < sections[m].line
    BY <1>1 DEF Finished
  <2> QED
    BY <1>4, <2>1, <2>2, <2>3 DEF Divides
<1>6. Sectioned(sections)
  BY <1>1 DEF Finished, Sectioned
<1>7. ASSUME sections # <<>>, \A n \in 1 .. Len(sections) : Chunkable(document, sections[n])
      PROVE  CoversFrom(sections, chunks, 1, Len(sections))
  <2>1. chunks = ChunksOf(sections) /\ \A n \in 1 .. Len(sections) : Fits(sections[n])
    BY <1>4, <1>7 DEF Chunk, Chunkable, sections
  <2>2. Len(sections) > 0
    BY <1>3, <1>7
  <2> QED
    BY <1>6, <1>7, <2>1, <2>2, ChunksCover
<1>8. ASSUME chunks # <<>>
      PROVE  sections # <<>> /\ \A n \in 1 .. Len(sections) : Chunkable(document, sections[n])
  <2>1. /\ chunks = ChunksOf(sections)
        /\ \A n \in 1 .. Len(sections) : Chunkable(document, sections[n])
    BY <1>4, <1>8 DEF Chunk, sections
  <2>2. CASE sections = <<>>
    <3>1. Len(sections) = 0 /\ DOMAIN sections = {}
      BY <1>4, <2>2
    <3>2. [n \in DOMAIN sections |-> ChunksOfSection(sections[n], n)] = <<>>
      BY <3>1
    <3>3. ChunksOf(sections) = <<>>
      BY <3>2 DEF ChunksOf, FlattenSeq
    <3> QED
      BY <3>3, <1>8, <2>1
  <2> QED
    BY <2>1, <2>2
<1> HIDE DEF chunks
<1>9. ASSUME CoversFrom(sections, chunks, 1, Len(sections))
      PROVE  chunks # <<>> /\ WithinTarget(chunks) /\ Covers(sections, chunks)
  <2>1. DOMAIN chunks = 1 .. Len(chunks) /\ chunks # <<>>
    BY <1>9 DEF CoversFrom
  <2> QED
    BY <1>9, <2>1 DEF CoversFrom, WithinTarget, Covers
<1> QED
  BY <1>4, <1>5, <1>7, <1>8, <1>9 DEF WholeOrRefused, sections, chunks

-----------------------------------------------------------------------------
(* The corpus.                                                             *)
Statuses == {"draft", "approved", "superseded"}
Row == [source : Source, status : Statuses, successor : {NoDocument} \cup {Id(s) : s \in Source}]
Working == {"embed", "lock", "decide", "commit"}
Locked == {"decide", "commit"}
Pcs == Working \cup {"idle", "find", "verify", "done", "failed", "outage"}

IngestTypeOK ==
  /\ documents \subseteq Row
  /\ job \in [Ingester -> [pc : Pcs, at : Nat]]
  /\ \A i \in Ingester : job[i].at \in DOMAIN Corpus[i]

(* A row is as its file says, until a successor takes its place.           *)
RowIsSound(d) ==
  /\ d.status = "superseded" => d.source.status = "approved" /\ d.successor # NoDocument
  /\ d.status # "superseded" => d.status = d.source.status /\ d.successor = NoDocument
  /\ ChunksOfSource[d.source] # <<>>

Stored(s) == \E d \in documents : d.source = s

(* What process i knows where it stands at c.                              *)
JobIsSound(i, c) ==
  LET s == Corpus[i][c.at]
  IN  /\ c.pc \in Working => Ingestible(s)
      /\ c.pc \in Working \ {"embed"} => ChunksOfSource[s] # <<>>
      /\ c.pc = "commit" => Existing(s) = {} /\ MaySupersede(s)
      /\ c.pc = "verify" => i \in Bootstrap
      /\ \A n \in DOMAIN Corpus[i] :
           n < c.at \/ (c.pc = "done" /\ i \notin Bootstrap) => Stored(Corpus[i][n])

(* Two open transactions are never about one document code.                *)
LocksExclude ==
  \A i, j \in Ingester :
    i # j /\ job[i].pc \in Locked /\ job[j].pc \in Locked => LockKey(i) # LockKey(j)

IngestInvariant ==
  /\ IngestTypeOK
  /\ \A d \in documents : RowIsSound(d)
  /\ \A i \in Ingester : JobIsSound(i, job[i])
  /\ LocksExclude
  /\ OneApprovedVersion

-----------------------------------------------------------------------------
(* The file an ingester is at.                                             *)
LEMMA CurrentIsSource ==
  ASSUME IngestTypeOK, NEW i \in Ingester
  PROVE  /\ Current(i) \in Source /\ Current(i) = Corpus[i][job[i].at]
         /\ job[i] \in [pc : Pcs, at : Nat] /\ job[i].at \in DOMAIN Corpus[i]
BY CorpusAssumption DEF IngestTypeOK, Current

(* A stored version is never taken for a missing one.                      *)
LEMMA IdIsNoNull == \A s : Id(s) # NoDocument
BY DEF Id, NoDocument

(* A corpus is a sequence of source files.                                 *)
LEMMA CorpusRange ==
  ASSUME NEW i \in Ingester
  PROVE  /\ DOMAIN Corpus[i] = 1 .. Len(Corpus[i])
         /\ Len(Corpus[i]) \in Nat /\ 1 \in DOMAIN Corpus[i]
BY CorpusAssumption

LEMMA IngestInit == Init => IngestInvariant
<1> SUFFICES ASSUME Init PROVE IngestInvariant
  OBVIOUS
<1>1. IngestTypeOK
  BY CorpusRange DEF Init, IngestTypeOK, Pcs
<1>2. \A i \in Ingester : JobIsSound(i, job[i])
  BY CorpusRange DEF Init, JobIsSound, Working
<1>3. LocksExclude
  BY DEF Init, LocksExclude, Locked
<1>4. OneApprovedVersion
  BY DEF Init, OneApprovedVersion
<1> QED
  BY <1>1, <1>2, <1>3, <1>4 DEF IngestInvariant, Init

(* A process moves on without touching the documents.                      *)
LEMMA JobMoves ==
  ASSUME IngestInvariant, NEW i \in Ingester,
         NEW c \in [pc : Pcs, at : Nat], c.at \in DOMAIN Corpus[i],
         job' = [job EXCEPT ![i] = c], UNCHANGED documents,
         JobIsSound(i, c),
         c.pc \in Locked => /\ c.at = job[i].at
                            /\ \A j \in Ingester \ {i} : job[j].pc \in Locked => LockKey(j) # LockKey(i)
  PROVE  IngestInvariant'
<1>1. job'[i] = c /\ \A j \in Ingester \ {i} : job'[j] = job[j]
  BY DEF IngestInvariant, IngestTypeOK
<1>2. IngestTypeOK'
  BY <1>1 DEF IngestInvariant, IngestTypeOK
<1>3. \A j \in Ingester : JobIsSound(j, job'[j])
  BY <1>1 DEF IngestInvariant
<1>4. \A j \in Ingester : JobIsSound(j, job[j])'
  BY <1>3 DEF JobIsSound, Stored, Existing, MaySupersede, Approved, Predecessor
<1>5. \A j \in Ingester : job'[j].pc \in Locked =>
        /\ job[j].pc \in Locked \/ j = i
        /\ LockKey(j)' = LockKey(j)
  BY <1>1 DEF LockKey, Current
<1>6. LocksExclude'
  <2> SUFFICES ASSUME NEW j \in Ingester, NEW k \in Ingester, j # k,
                      job'[j].pc \in Locked, job'[k].pc \in Locked
               PROVE  LockKey(j) # LockKey(k)
    BY <1>5 DEF LocksExclude
  <2> QED
    BY <1>1, <1>5 DEF IngestInvariant, LocksExclude
<1>7. OneApprovedVersion'
  BY DEF IngestInvariant, OneApprovedVersion, Approved
<1>8. \A d \in documents' : RowIsSound(d)
  BY DEF IngestInvariant
<1> QED
  BY <1>2, <1>4, <1>6, <1>7, <1>8 DEF IngestInvariant

(* What a process that goes on with its next file knows: the one it leaves *)
(* is stored.                                                              *)
LEMMA NextFileMoves ==
  ASSUME IngestInvariant, NEW i \in Ingester, NextFile(i), UNCHANGED documents,
         Stored(Current(i))
  PROVE  IngestInvariant'
<1> DEFINE j == job[i]
           next == [pc |-> "find", at |-> j.at + 1]
           end == [j EXCEPT !.pc = Finish(i)]
           c == IF j.at < Len(Corpus[i]) THEN next ELSE end
<1>1. j \in [pc : Pcs, at : Nat] /\ j.at \in DOMAIN Corpus[i] /\ Current(i) = Corpus[i][j.at]
  BY CurrentIsSource DEF IngestInvariant
<1>2. job' = [job EXCEPT ![i] = c]
  BY DEF NextFile
<1>3. \A n \in DOMAIN Corpus[i] : n < j.at => Stored(Corpus[i][n])
  BY DEF IngestInvariant, JobIsSound
<1>4. CASE j.at < Len(Corpus[i])
  <2>1. c = next
    BY <1>4
  <2>2. next \in [pc : Pcs, at : Nat] /\ next.at \in DOMAIN Corpus[i]
    BY <1>1, <1>4, CorpusRange DEF Pcs
  <2>3. \A n \in DOMAIN Corpus[i] : n < next.at => n < j.at \/ n = j.at
    BY <1>1, CorpusRange
  <2>4. JobIsSound(i, next)
    BY <1>1, <1>3, <2>3 DEF JobIsSound, Working
  <2> QED
    BY <1>2, <2>1, <2>2, <2>4, JobMoves DEF Locked
<1>5. CASE ~(j.at < Len(Corpus[i]))
  <2>1. c = end /\ end.at = j.at /\ end.pc = Finish(i)
    BY <1>1, <1>5
  <2>2. end \in [pc : Pcs, at : Nat] /\ end.at \in DOMAIN Corpus[i]
    BY <1>1 DEF Pcs, Finish
  <2>3. \A n \in DOMAIN Corpus[i] : n < j.at \/ n = j.at
    BY <1>1, <1>5, CorpusRange
  <2>4. end.pc \in {"verify", "done"} /\ (end.pc = "verify" => i \in Bootstrap)
    BY <2>1 DEF Finish
  <2> HIDE DEF end
  <2>5. JobIsSound(i, end)
    BY <1>1, <1>3, <2>1, <2>3, <2>4 DEF JobIsSound, Working
  <2> QED
    BY <1>2, <2>1, <2>2, <2>4, <2>5, JobMoves DEF Locked
<1> QED
  BY <1>4, <1>5

(* Every step of a process but its commit.                                 *)
LEMMA ProcessKeeps ==
  ASSUME IngestInvariant, NEW i \in Ingester,
         \/ Run(i) \/ Reject(i) \/ ResolveExisting(i) \/ FindNothing(i) \/ Embed(i)
         \/ LockDocCode(i) \/ Decide(i) \/ Verify(i) \/ Fail(i)
  PROVE  IngestInvariant'
<1> DEFINE j == job[i]
           s == Current(i)
<1>1. j \in [pc : Pcs, at : Nat] /\ j.at \in DOMAIN Corpus[i] /\ s = Corpus[i][j.at]
  BY CurrentIsSource DEF IngestInvariant
<1>2. JobIsSound(i, j)
  BY DEF IngestInvariant
<1>3. ASSUME NEW pc \in Pcs, Goto(i, pc), UNCHANGED documents,
             j.pc # "done", pc # "done" \/ i \in Bootstrap,
             pc \in Working => Ingestible(s),
             pc \in Working \ {"embed"} => ChunksOfSource[s] # <<>>,
             pc = "commit" => Existing(s) = {} /\ MaySupersede(s),
             pc # "verify",
             pc \in Locked => \A k \in Ingester \ {i} : job[k].pc \in Locked => LockKey(k) # LockKey(i)
      PROVE  IngestInvariant'
  <2> DEFINE c == [j EXCEPT !.pc = pc]
  <2>1. c \in [pc : Pcs, at : Nat] /\ c.pc = pc /\ c.at = j.at
    BY <1>1
  <2>2. job' = [job EXCEPT ![i] = c]
    BY <1>3 DEF Goto
  <2> HIDE DEF c
  <2>3. JobIsSound(i, c)
    BY <1>1, <1>2, <1>3, <2>1 DEF JobIsSound
  <2> QED
    BY <1>1, <1>3, <2>1, <2>2, <2>3, JobMoves
<1>4. {"failed", "outage", "embed", "lock", "decide", "commit", "done"} \subseteq Pcs
  BY DEF Pcs, Working
<1>5. CASE Run(i)
  <2> DEFINE c == [pc |-> IF i \in Bootstrap /\ AsExpected THEN "verify" ELSE "find", at |-> 1]
  <2>1. job' = [job EXCEPT ![i] = c] /\ UNCHANGED documents
    BY <1>5 DEF Run
  <2>2. c.pc \in {"find", "verify"} /\ (c.pc = "verify" => i \in Bootstrap) /\ c.at = 1
    OBVIOUS
  <2>3. c \in [pc : Pcs, at : Nat]
    BY <2>2 DEF Pcs
  <2> HIDE DEF c
  <2>4. JobIsSound(i, c)
    BY <2>2, CorpusRange DEF JobIsSound, Working
  <2> QED
    BY <2>1, <2>2, <2>3, <2>4, CorpusRange, JobMoves DEF Locked
<1>6. CASE Reject(i)
  BY <1>3, <1>4, <1>6 DEF Reject, At, Working, Locked
<1>7. CASE ResolveExisting(i)
  <2>1. UNCHANGED documents /\ j.pc \in {"find", "decide"} /\ Existing(s) # {}
    BY <1>7 DEF ResolveExisting, At
  <2>2. CASE SameContent(s)
    <3>1. Stored(s)
      BY <2>1, <2>2 DEF SameContent, Existing, Stored
    <3>2. NextFile(i)
      BY <1>7, <2>2 DEF ResolveExisting
    <3> QED
      BY <2>1, <3>1, <3>2, NextFileMoves
  <2>3. CASE ~SameContent(s)
    <3>1. Goto(i, "failed")
      BY <1>7, <2>3 DEF ResolveExisting
    <3> QED
      BY <1>3, <1>4, <2>1, <3>1 DEF Working, Locked
  <2> QED
    BY <2>2, <2>3
<1>8. CASE FindNothing(i)
  BY <1>3, <1>4, <1>8 DEF FindNothing, At, Working, Locked
<1>9. CASE Embed(i)
  <2>1. UNCHANGED documents /\ j.pc = "embed" /\ Ingestible(s)
    BY <1>1, <1>2, <1>9 DEF Embed, At, JobIsSound, Working
  <2>2. CASE ChunksOfSource[s] = <<>>
    <3>1. Goto(i, "failed")
      BY <1>9, <2>2 DEF Embed
    <3> QED
      BY <1>3, <1>4, <2>1, <3>1 DEF Working, Locked
  <2>3. CASE ChunksOfSource[s] # <<>>
    <3>1. Goto(i, "lock")
      BY <1>9, <2>3 DEF Embed
    <3> QED
      BY <1>3, <1>4, <2>1, <2>3, <3>1 DEF Working, Locked
  <2> QED
    BY <2>2, <2>3
<1>10. CASE LockDocCode(i)
  <2>1. UNCHANGED documents /\ j.pc = "lock" /\ Ingestible(s) /\ ChunksOfSource[s] # <<>>
        /\ Goto(i, "decide")
    BY <1>1, <1>2, <1>10 DEF LockDocCode, At, JobIsSound, Working
  <2>2. \A k \in Ingester \ {i} : job[k].pc \in Locked => LockKey(k) # LockKey(i)
    BY <1>10 DEF LockDocCode, At, Locked
  <2> QED
    BY <1>3, <1>4, <2>1, <2>2 DEF Working
<1>11. CASE Decide(i)
  <2>1. UNCHANGED documents /\ j.pc = "decide" /\ Ingestible(s) /\ ChunksOfSource[s] # <<>>
        /\ Existing(s) = {}
    BY <1>1, <1>2, <1>11 DEF Decide, At, JobIsSound, Working
  <2>2. \A k \in Ingester \ {i} : job[k].pc \in Locked => LockKey(k) # LockKey(i)
    BY <2>1 DEF IngestInvariant, LocksExclude, Locked
  <2>3. CASE MaySupersede(s)
    <3>1. Goto(i, "commit")
      BY <1>11, <2>3 DEF Decide
    <3> QED
      BY <1>3, <1>4, <2>1, <2>2, <2>3, <3>1
  <2>4. CASE ~MaySupersede(s)
    <3>1. Goto(i, "failed")
      BY <1>11, <2>4 DEF Decide
    <3> QED
      BY <1>3, <1>4, <2>1, <3>1 DEF Working, Locked
  <2> QED
    BY <2>3, <2>4
<1>12. CASE Verify(i)
  <2>1. UNCHANGED documents /\ j.pc = "verify" /\ i \in Bootstrap
    BY <1>2, <1>12 DEF Verify, At, JobIsSound
  <2>2. Goto(i, "done") \/ Goto(i, "failed")
    BY <1>12 DEF Verify
  <2> QED
    BY <1>3, <1>4, <2>1, <2>2 DEF Working, Locked
<1>13. CASE Fail(i)
  BY <1>3, <1>4, <1>13 DEF Fail, At, Working, Locked
<1> QED
  BY <1>5, <1>6, <1>7, <1>8, <1>9, <1>10, <1>11, <1>12, <1>13

-----------------------------------------------------------------------------
(* The commit.  What was decided under the lock still holds: the identity  *)
(* is new, and the predecessor, if any, is the code's one approved row.    *)
NewRow(s) == [source |-> s, status |-> s.status, successor |-> NoDocument]

(* What is known of a file when its transaction commits: it has chunks,    *)
(* nothing stored already stands for it, and the one approved version of   *)
(* its code, if there is one, is the one it names as superseded.           *)
LEMMA CommitFacts ==
  ASSUME IngestInvariant, NEW i \in Ingester, Commit(i), NEW s, s = Current(i)
  PROVE  /\ s \in Source /\ Ingestible(s) /\ ChunksOfSource[s] # <<>> /\ Existing(s) = {}
         /\ \A d \in Predecessor(s) :
              /\ d \in documents /\ d.status = "approved" /\ d.source.code = s.code
              /\ Id(d.source) = <<s.code, s.supersedes>> /\ s.status = "approved"
              /\ Predecessor(s) = {d}
         /\ s.status = "approved" => Approved(s.code) \subseteq Predecessor(s)
         /\ \A x : x \in documents' <=>
              \/ x \in documents /\ x \notin Predecessor(s)
              \/ \E d \in Predecessor(s) : x = SupersededBy(s, d)
              \/ x = NewRow(s)
         /\ NextFile(i)
<1>1. job[i].pc = "commit" /\ s = Corpus[i][job[i].at] /\ s \in Source
  BY CurrentIsSource DEF Commit, At, IngestInvariant
<1>2. /\ Ingestible(s) /\ ChunksOfSource[s] # <<>> /\ Existing(s) = {} /\ MaySupersede(s)
  BY <1>1 DEF IngestInvariant, JobIsSound, Working
<1>3. \A d, e \in documents : Id(d.source) = Id(e.source) => d = e
  BY DEF IngestInvariant, OneApprovedVersion
<1>4. \A d, e \in Predecessor(s) : d = e
  BY <1>3 DEF Predecessor
<1>5. CASE s.status # "approved"
  <2>1. Predecessor(s) = {}
    BY <1>5 DEF Predecessor
  <2> QED
    BY <1>1, <1>2, <1>5, <2>1 DEF Commit, NewRow
<1>6. CASE s.status = "approved" /\ s.supersedes = NoVersion
  <2>1. Predecessor(s) = {} /\ Approved(s.code) = {}
    BY <1>2, <1>6 DEF Predecessor, MaySupersede
  <2> QED
    BY <1>1, <1>2, <1>6, <2>1 DEF Commit, NewRow
<1>7. CASE s.status = "approved" /\ s.supersedes # NoVersion
  <2>1. PICK d \in Predecessor(s) : d.status = "approved" /\ Approved(s.code) \subseteq {d}
    BY <1>2, <1>7 DEF MaySupersede
  <2>2. Predecessor(s) = {d}
    BY <1>4, <2>1
  <2>3. d.source.code = s.code /\ Id(d.source) = <<s.code, s.supersedes>> /\ d \in documents
    BY <2>1 DEF Predecessor, Id
  <2> QED
    BY <1>1, <1>2, <1>7, <2>1, <2>2, <2>3 DEF Commit, NewRow
<1> QED
  BY <1>5, <1>6, <1>7

(* A superseded row keeps its file and names the new version.              *)
LEMMA SupersededRow ==
  ASSUME NEW d \in Row, NEW s \in Source
  PROVE  /\ SupersededBy(s, d) \in Row
         /\ SupersededBy(s, d).source = d.source
         /\ SupersededBy(s, d).status = "superseded"
         /\ SupersededBy(s, d).successor = Id(s)
BY DEF SupersededBy, Row, Statuses

(* The row a commit inserts.                                               *)
LEMMA FreshRow ==
  ASSUME NEW s \in Source
  PROVE  /\ NewRow(s) \in Row /\ NewRow(s).source = s
         /\ NewRow(s).status = s.status /\ NewRow(s).successor = NoDocument
BY SourceAssumption DEF NewRow, Row, Statuses

(* A commit keeps every stored version, and no superseded one comes back.  *)
LEMMA CommitRows ==
  ASSUME IngestInvariant, NEW i \in Ingester, Commit(i)
  PROVE  /\ documents' \subseteq Row
         /\ \A d \in documents' : RowIsSound(d)
         /\ \A d \in documents : \E e \in documents' :
              /\ e.source = d.source
              /\ d.status = "superseded" => e.status = "superseded"
         /\ \A t : Stored(t) \/ t = Current(i) => Stored(t)'
<1> DEFINE s == Current(i)
           P == Predecessor(s)
<1>1. /\ s \in Source /\ Ingestible(s) /\ ChunksOfSource[s] # <<>>
      /\ \A d \in P : d \in documents /\ d.status = "approved"
      /\ \A x : x \in documents' <=>
              \/ x \in documents /\ x \notin P
              \/ \E d \in P : x = SupersededBy(s, d)
              \/ x = NewRow(s)
  BY CommitFacts
<1>2. documents \subseteq Row /\ \A d \in documents : RowIsSound(d)
  BY DEF IngestInvariant, IngestTypeOK
<1> HIDE DEF s, P
<1>3. documents' \subseteq Row
  BY <1>1, <1>2, SupersededRow, FreshRow
<1>4. \A d \in documents' : RowIsSound(d)
  <2> SUFFICES ASSUME NEW d \in documents' PROVE RowIsSound(d)
    OBVIOUS
  <2>1. CASE d \in documents
    BY <1>2, <2>1
  <2>2. CASE \E e \in P : d = SupersededBy(s, e)
    <3>1. PICK e \in P : d = SupersededBy(s, e)
      BY <2>2
    <3>2. e \in documents /\ e \in Row /\ e.status = "approved" /\ RowIsSound(e)
      BY <1>1, <1>2
    <3>3. d.source = e.source /\ d.status = "superseded" /\ d.successor = Id(s)
      BY <1>1, <3>1, <3>2, SupersededRow
    <3> QED
      BY <3>2, <3>3, IdIsNoNull DEF RowIsSound
  <2>3. CASE d = NewRow(s)
    BY <1>1, <2>3, FreshRow DEF RowIsSound, Ingestible
  <2> QED
    BY <1>1, <2>1, <2>2, <2>3
<1>5. ASSUME NEW d \in documents
      PROVE  \E e \in documents' : /\ e.source = d.source
                                   /\ d.status = "superseded" => e.status = "superseded"
  <2>1. CASE d \in P
    BY <1>1, <1>2, <2>1, SupersededRow
  <2>2. CASE d \notin P
    BY <1>1, <2>2
  <2> QED
    BY <2>1, <2>2
<1>6. \A t : Stored(t) \/ t = s => Stored(t)'
  BY <1>1, <1>5, FreshRow DEF Stored
<1> QED
  BY <1>3, <1>4, <1>5, <1>6 DEF s

(* Rows of another document code stay as they are.                         *)
LEMMA OtherCodes ==
  ASSUME IngestInvariant, NEW i \in Ingester, Commit(i),
         NEW d, d.source.code # Current(i).code
  PROVE  d \in documents' <=> d \in documents
<1> DEFINE s == Current(i)
           P == Predecessor(s)
<1>1. /\ s \in Source
      /\ \A e \in P : e \in documents /\ e.source.code = s.code
      /\ \A x : x \in documents' <=>
              \/ x \in documents /\ x \notin P
              \/ \E e \in P : x = SupersededBy(s, e)
              \/ x = NewRow(s)
  BY CommitFacts
<1>2. documents \subseteq Row
  BY DEF IngestInvariant, IngestTypeOK
<1> HIDE DEF P
<1>3. d # NewRow(s) /\ d \notin P
  BY <1>1, FreshRow
<1>4. ASSUME NEW e \in P PROVE d # SupersededBy(s, e)
  BY <1>1, <1>2, SupersededRow
<1> QED
  BY <1>1, <1>3, <1>4

(* What was decided for a file holds while no row of its code changes.     *)
LEMMA CodeUnchanged ==
  ASSUME NEW t, \A d : d.source.code = t.code => (d \in documents' <=> d \in documents),
         Existing(t) = {}, MaySupersede(t)
  PROVE  Existing(t)' = {} /\ MaySupersede(t)'
<1>1. Existing(t)' = {}
  <2>1. \A d \in documents' : Id(d.source) # Id(t)
    BY DEF Existing, Id
  <2> QED
    BY <2>1 DEF Existing
<1>2. Approved(t.code)' = Approved(t.code)
  BY DEF Approved
<1>3. Predecessor(t)' = Predecessor(t)
  <2>1. \A d : Id(d.source) = <<t.code, t.supersedes>> => (d \in documents' <=> d \in documents)
    BY DEF Id
  <2> QED
    BY <2>1 DEF Predecessor
<1> QED
  BY <1>1, <1>2, <1>3 DEF MaySupersede

(* Every process still stands where it may, the committing one included.   *)
LEMMA CommitJobs ==
  ASSUME IngestInvariant, NEW i \in Ingester, Commit(i)
  PROVE  /\ job' \in [Ingester -> [pc : Pcs, at : Nat]]
         /\ \A k \in Ingester : job'[k].at \in DOMAIN Corpus[k] /\ JobIsSound(k, job[k])'
         /\ LocksExclude'
<1> DEFINE j == job[i]
           s == Current(i)
           next == [pc |-> "find", at |-> j.at + 1]
           end == [j EXCEPT !.pc = Finish(i)]
           c == IF j.at < Len(Corpus[i]) THEN next ELSE end
<1>1. j \in [pc : Pcs, at : Nat] /\ j.at \in DOMAIN Corpus[i] /\ s = Corpus[i][j.at]
  BY CurrentIsSource DEF IngestInvariant
<1>2. job' = [job EXCEPT ![i] = c]
  BY CommitFacts DEF NextFile
<1>3. next.at = j.at + 1 /\ next.pc = "find" /\ end.at = j.at /\ end.pc = Finish(i)
  BY <1>1
<1>4. c \in [pc : Pcs, at : Nat] /\ c.at \in DOMAIN Corpus[i]
      /\ c.pc \in {"find", "verify", "done"} /\ (c.pc = "verify" => i \in Bootstrap)
      /\ (c.pc = "done" => c.at = j.at /\ ~(j.at < Len(Corpus[i])))
      /\ (c.at = j.at \/ c.at = j.at + 1)
  <2>1. CASE j.at < Len(Corpus[i])
    BY <1>1, <2>1, CorpusRange DEF Pcs
  <2>2. CASE ~(j.at < Len(Corpus[i]))
    BY <1>1, <1>3, <2>2 DEF Pcs, Finish
  <2> QED
    BY <2>1, <2>2
<1> HIDE DEF c
<1>5. job'[i] = c /\ \A k \in Ingester \ {i} : job'[k] = job[k]
  BY <1>2 DEF IngestInvariant, IngestTypeOK
<1>6. \A t : Stored(t) \/ t = s => Stored(t)'
  BY CommitRows
<1>7. JobIsSound(i, job[i])'
  <2>1. \A n \in DOMAIN Corpus[i] : n < j.at => Stored(Corpus[i][n])
    BY DEF IngestInvariant, JobIsSound
  <2>2. \A n \in DOMAIN Corpus[i] : n < c.at \/ c.pc = "done" => n < j.at \/ n = j.at
    BY <1>1, <1>4, CorpusRange
  <2>3. \A n \in DOMAIN Corpus[i] : n < c.at \/ c.pc = "done" => Stored(Corpus[i][n])'
    BY <1>1, <1>6, <2>1, <2>2
  <2> QED
    BY <1>4, <1>5, <2>3 DEF JobIsSound, Working
<1>8. ASSUME NEW k \in Ingester \ {i}
      PROVE  JobIsSound(k, job[k])'
  <2>1. job'[k] = job[k] /\ JobIsSound(k, job[k])
    BY <1>5 DEF IngestInvariant
  <2>2. \A n \in DOMAIN Corpus[k] :
          n < job[k].at \/ (job[k].pc = "done" /\ k \notin Bootstrap) => Stored(Corpus[k][n])'
    BY <1>6, <2>1 DEF JobIsSound
  <2>3. CASE job[k].pc # "commit"
    BY <2>1, <2>2, <2>3 DEF JobIsSound
  <2>4. CASE job[k].pc = "commit"
    <3>1. PICK t \in Source : t = Corpus[k][job[k].at]
      BY CurrentIsSource DEF IngestInvariant
    <3>2. Existing(t) = {} /\ MaySupersede(t)
      BY <2>1, <2>4, <3>1 DEF JobIsSound
    <3>3. t.code # s.code
      BY <2>4, <3>1 DEF Commit, At, IngestInvariant, LocksExclude, Locked, LockKey, Current
    <3>4. \A d : d.source.code = t.code => (d \in documents' <=> d \in documents)
      BY <3>3, OtherCodes
    <3>5. Existing(t)' = {} /\ MaySupersede(t)'
      BY <3>2, <3>4, CodeUnchanged
    <3>6. t = Corpus[k][job'[k].at] /\ job'[k].pc = "commit"
      BY <2>1, <2>4, <3>1
    <3>7. Ingestible(t) /\ ChunksOfSource[t] # <<>>
      BY <2>1, <2>4, <3>1 DEF JobIsSound, Working
    <3> QED
      BY <2>2, <2>1, <3>5, <3>6, <3>7 DEF JobIsSound
  <2> QED
    BY <2>3, <2>4
<1>9. LocksExclude'
  <2> SUFFICES ASSUME NEW k \in Ingester, NEW l \in Ingester, k # l,
                      job'[k].pc \in Locked, job'[l].pc \in Locked
               PROVE  Corpus[k][job'[k].at].code # Corpus[l][job'[l].at].code
    BY DEF LocksExclude, LockKey, Current
  <2>1. k # i /\ l # i
    BY <1>4, <1>5 DEF Locked
  <2> QED
    BY <1>5, <2>1 DEF IngestInvariant, LocksExclude, LockKey, Current
<1>10. job' \in [Ingester -> [pc : Pcs, at : Nat]] /\ \A k \in Ingester : job'[k].at \in DOMAIN Corpus[k]
  BY <1>2, <1>4, <1>5 DEF IngestInvariant, IngestTypeOK
<1> QED
  BY <1>7, <1>8, <1>9, <1>10

(* Two rows differ in identity, in successor and in code or approval.      *)
Apart(d, e) ==
  /\ Id(d.source) # Id(e.source)
  /\ d.successor = e.successor => d.successor = NoDocument
  /\ ~(d.source.code = e.source.code /\ d.status = "approved" /\ e.status = "approved")

(* The chain of versions grows by one link: the new row takes the place of *)
(* its predecessor.                                                        *)
LEMMA CommitChain ==
  ASSUME IngestInvariant, NEW i \in Ingester, Commit(i)
  PROVE  OneApprovedVersion'
<1>0. PICK s \in Source : s = Current(i)
  BY CurrentIsSource DEF IngestInvariant
<1> DEFINE P == Predecessor(s)
<1>1. /\ \A d \in documents : Id(d.source) # Id(s)
      /\ \A d \in P : /\ d \in documents /\ d.status = "approved" /\ d.source.code = s.code
                      /\ Id(d.source) = <<s.code, s.supersedes>> /\ s.status = "approved"
      /\ \A d, e \in P : d = e
      /\ \A d \in documents : d.source.code = s.code /\ d.status = "approved" /\ s.status = "approved" => d \in P
      /\ s.status # "superseded"
  <2>1. Existing(s) = {} /\ Ingestible(s)
    BY <1>0, CommitFacts
  <2>2. \A d \in P : P = {d}
    BY <1>0, CommitFacts
  <2>3. s.status = "approved" => Approved(s.code) \subseteq P
    BY <1>0, CommitFacts
  <2>4. \A d \in P : /\ d \in documents /\ d.status = "approved" /\ d.source.code = s.code
                    /\ Id(d.source) = <<s.code, s.supersedes>> /\ s.status = "approved"
    BY <1>0, CommitFacts
  <2> HIDE DEF P
  <2>5. \A d \in documents : Id(d.source) # Id(s)
    BY <2>1 DEF Existing
  <2>6. \A d \in documents : d.source.code = s.code /\ d.status = "approved" /\ s.status = "approved" => d \in P
    BY <2>3 DEF Approved
  <2> QED
    BY <2>1, <2>2, <2>4, <2>5, <2>6 DEF Ingestible
<1>2. \A x : x \in documents' <=>
        \/ x \in documents /\ x \notin P
        \/ \E d \in P : x = SupersededBy(s, d)
        \/ x = NewRow(s)
  BY <1>0, CommitFacts
<1>3. documents \subseteq Row /\ \A d \in documents : RowIsSound(d)
  BY DEF IngestInvariant, IngestTypeOK
<1>4. OneApprovedVersion
  BY DEF IngestInvariant
<1> HIDE DEF P
<1>5. \A d \in documents : d.successor # Id(s)
  BY <1>1, <1>3, <1>4, IdIsNoNull DEF OneApprovedVersion, RowIsSound
<1>6. \A d \in P : /\ SupersededBy(s, d).source = d.source
                  /\ SupersededBy(s, d).status = "superseded"
                  /\ SupersededBy(s, d).successor = Id(s)
  BY <1>1, <1>3, SupersededRow
<1>7. /\ NewRow(s).source = s /\ NewRow(s).status = s.status /\ NewRow(s).successor = NoDocument
  BY FreshRow
<1>8. ASSUME NEW d \in documents', NEW e \in documents', d # e
      PROVE  Apart(d, e)
  <2>1. ASSUME NEW x \in documents, x \notin P, NEW y \in documents, y \notin P, x # y
        PROVE  Apart(x, y)
    BY <1>4, <2>1 DEF OneApprovedVersion, Apart
  <2>2. ASSUME NEW x \in documents, x \notin P, NEW p \in P
        PROVE  Apart(x, SupersededBy(s, p))
    <3>1. Id(x.source) # Id(p.source)
      BY <1>1, <1>4, <2>2 DEF OneApprovedVersion
    <3> QED
      BY <1>5, <1>6, <3>1 DEF Apart
  <2>3. ASSUME NEW x \in documents, x \notin P
        PROVE  Apart(x, NewRow(s))
    BY <1>1, <1>7, <2>3 DEF Apart
  <2>4. ASSUME NEW p \in P
        PROVE  Apart(SupersededBy(s, p), NewRow(s))
    <3>1. Id(p.source) # Id(s) /\ Id(s) # NoDocument
      BY <1>1, IdIsNoNull
    <3> QED
      BY <1>6, <1>7, <3>1 DEF Apart
  <2>5. \A x, y : Apart(x, y) => Apart(y, x)
    BY DEF Apart
  <2>6. \A p, q \in P : p = q
    BY <1>1
  <2>7. CASE d \in documents /\ d \notin P
    BY <1>2, <1>8, <2>1, <2>2, <2>3, <2>7
  <2>8. CASE e \in documents /\ e \notin P
    BY <1>2, <1>8, <2>1, <2>2, <2>3, <2>5, <2>8
  <2>9. CASE \E p \in P : d = SupersededBy(s, p)
    BY <1>2, <1>8, <2>4, <2>6, <2>8, <2>9
  <2>10. CASE d = NewRow(s)
    BY <1>2, <1>8, <2>4, <2>5, <2>8, <2>10
  <2> QED
    BY <1>2, <2>7, <2>9, <2>10
<1>9. ASSUME NEW c, NEW a \in documents, a.source.code = c, a.status = "approved"
      PROVE  \E b \in documents' : b.source.code = c /\ b.status = "approved"
  <2>1. CASE a \in P
    BY <1>1, <1>2, <1>7, <1>9, <2>1
  <2>2. CASE a \notin P
    BY <1>2, <1>9, <2>2
  <2> QED
    BY <2>1, <2>2
<1>10. ASSUME NEW d \in documents', d.status = "superseded"
       PROVE  /\ \E e \in documents' :
                   /\ Id(e.source) = d.successor
                   /\ <<e.source.code, e.source.supersedes>> = Id(d.source)
              /\ \E b \in documents' : b.source.code = d.source.code /\ b.status = "approved"
  <2>1. CASE d \in documents
    <3>1. PICK e \in documents : /\ Id(e.source) = d.successor
                                /\ <<e.source.code, e.source.supersedes>> = Id(d.source)
      BY <1>4, <1>10, <2>1 DEF OneApprovedVersion
    <3>2. PICK f \in documents' : f.source = e.source
      BY CommitRows
    <3>3. PICK a \in documents : a.source.code = d.source.code /\ a.status = "approved"
      BY <1>4, <1>10, <2>1 DEF OneApprovedVersion, Approved
    <3> QED
      BY <1>9, <3>1, <3>2, <3>3
  <2>2. CASE \E p \in P : d = SupersededBy(s, p)
    <3>1. PICK p \in P : d = SupersededBy(s, p)
      BY <2>2
    <3>2. NewRow(s) \in documents'
      BY <1>2
    <3> QED
      BY <1>1, <1>6, <1>7, <3>1, <3>2
  <2>3. CASE d = NewRow(s)
    BY <1>1, <1>7, <1>10, <2>3
  <2> QED
    BY <1>2, <2>1, <2>2, <2>3
<1> QED
  BY <1>8, <1>10 DEF OneApprovedVersion, Approved, Apart

LEMMA IngestStep == IngestInvariant /\ [Next]_vars => IngestInvariant'
<1> SUFFICES ASSUME IngestInvariant, [Next]_vars PROVE IngestInvariant'
  OBVIOUS
<1>1. ASSUME NEW i \in Ingester, Commit(i) PROVE IngestInvariant'
  <2>1. documents' \subseteq Row /\ (\A d \in documents' : RowIsSound(d))
    BY <1>1, CommitRows
  <2>2. /\ job' \in [Ingester -> [pc : Pcs, at : Nat]]
        /\ \A k \in Ingester : job'[k].at \in DOMAIN Corpus[k] /\ JobIsSound(k, job[k])'
        /\ LocksExclude'
    BY <1>1, CommitJobs
  <2>3. IngestTypeOK'
    BY <2>1, <2>2 DEF IngestTypeOK
  <2>4. OneApprovedVersion'
    BY <1>1, CommitChain
  <2> QED
    BY <2>1, <2>2, <2>3, <2>4 DEF IngestInvariant
<1>2. CASE UNCHANGED vars
  BY <1>2 DEF vars, IngestInvariant, IngestTypeOK, JobIsSound, Stored, Existing, MaySupersede,
              Approved, Predecessor, LocksExclude, LockKey, Current, OneApprovedVersion
<1>3. CASE Next
  <2>1. PICK i \in Ingester : Work(i) \/ Fail(i)
    BY <1>3 DEF Next
  <2> QED
    BY <1>1, <2>1, ProcessKeeps DEF Work
<1> QED
  BY <1>2, <1>3

-----------------------------------------------------------------------------
(* Questions.  A chunk found, and then a citation, is of a document that   *)
(* was published for the reader; documents keep their source for ever.     *)
PublishedFor(d, id, day) ==
  /\ Id(d.source) = id
  /\ d.source.status = "approved" /\ d.source.effective <= day
  /\ d.source.jurisdiction \in Jurisdictions /\ d.source.audience \cap Audiences # {}
Published(id, day) == \E d \in documents : PublishedFor(d, id, day)

Replaced(id) ==
  \E d \in documents : Id(d.source) = id /\ (d.status = "superseded" \/ d.source.expiry <= today)

IsQuestion(q) ==
  q = [pc |-> q.pc, day |-> q.day, evidence |-> q.evidence, citations |-> q.citations, page |-> q.page]

QuestionIsSound(q) ==
  /\ IsQuestion(q)
  /\ q.day \in Nat /\ q.day <= today
  /\ \A e \in q.evidence : Published(e.id, q.day)
  /\ \A c \in q.citations : Published(c.id, today)
  /\ q.page = "gone" =>
       q.pc \in {"answered", "conflicting"} /\ \A c \in q.citations : Replaced(c.id)

QueryInvariant ==
  /\ IngestInvariant
  /\ today \in Nat
  /\ DOMAIN question = Reader /\ question = [r \in Reader |-> question[r]]
  /\ \A r \in Reader : QuestionIsSound(question[r])

(* However the corpus changes, a row of it keeps its source, and one that  *)
(* is superseded stays so.                                                 *)
LEMMA RowsPersist ==
  ASSUME IngestInvariant, [Next]_vars, NEW d \in documents
  PROVE  \E e \in documents' : e.source = d.source /\ (d.status = "superseded" => e.status = "superseded")
<1>1. CASE UNCHANGED documents
  BY <1>1
<1>2. ASSUME NEW i \in Ingester, Commit(i)
      PROVE  \E e \in documents' : e.source = d.source /\ (d.status = "superseded" => e.status = "superseded")
  BY <1>2, CommitRows
<1>3. UNCHANGED documents \/ \E i \in Ingester : Commit(i)
  BY DEF vars, Next, Work, Run, Reject, ResolveExisting, FindNothing, Embed, LockDocCode, Decide,
         Verify, Fail
<1> QED
  BY <1>1, <1>2, <1>3

(* The corpus and the calendar move on under the questions.                *)
LEMMA WorldMoves ==
  ASSUME QueryInvariant, UNCHANGED question, IngestInvariant',
         today' \in Nat, today <= today',
         \A d \in documents : \E e \in documents' :
           e.source = d.source /\ (d.status = "superseded" => e.status = "superseded")
  PROVE  QueryInvariant'
<1>1. documents \subseteq Row /\ today \in Nat
  BY DEF QueryInvariant, IngestInvariant, IngestTypeOK
<1>2. \A d \in documents : d.source.effective \in Nat /\ d.source.expiry \in Nat
  BY <1>1, SourceAssumption DEF Row
<1>3. ASSUME NEW id, NEW day \in Nat, NEW later \in Nat, day <= later, Published(id, day)
      PROVE  Published(id, later)'
  <2>1. PICK d \in documents : PublishedFor(d, id, day)
    BY <1>3 DEF Published
  <2>2. PICK e \in documents' : e.source = d.source
    OBVIOUS
  <2>3. PublishedFor(e, id, later)
    BY <1>2, <1>3, <2>1, <2>2 DEF PublishedFor
  <2> QED
    BY <2>3 DEF Published
<1>4. ASSUME NEW id, Replaced(id) PROVE Replaced(id)'
  <2>1. PICK d \in documents : Id(d.source) = id /\ (d.status = "superseded" \/ d.source.expiry <= today)
    BY <1>4 DEF Replaced
  <2>2. PICK e \in documents' : e.source = d.source /\ (d.status = "superseded" => e.status = "superseded")
    OBVIOUS
  <2> QED
    BY <1>1, <1>2, <2>1, <2>2 DEF Replaced
<1>5. ASSUME NEW q, QuestionIsSound(q) PROVE QuestionIsSound(q)'
  <2>1. q.day \in Nat /\ q.day <= today'
    BY <1>1, <1>5 DEF QuestionIsSound
  <2>2. \A e \in q.evidence : Published(e.id, q.day)'
    BY <1>3, <1>5, <2>1 DEF QuestionIsSound
  <2>3. \A c \in q.citations : Published(c.id, today)'
    <3> SUFFICES ASSUME NEW c \in q.citations PROVE Published(c.id, today)'
      OBVIOUS
    <3>1. Published(c.id, today)
      BY <1>5 DEF QuestionIsSound
    <3> QED
      BY <1>1, <1>3, <3>1 DEF Published
  <2>4. q.page = "gone" =>
          q.pc \in {"answered", "conflicting"} /\ \A c \in q.citations : Replaced(c.id)'
    BY <1>4, <1>5 DEF QuestionIsSound
  <2> QED
    BY <1>5, <2>1, <2>2, <2>3, <2>4 DEF QuestionIsSound
<1>6. \A r \in Reader : QuestionIsSound(question[r])'
  <2> SUFFICES ASSUME NEW r \in Reader PROVE QuestionIsSound(question[r])'
    OBVIOUS
  <2>1. PICK q : q = question[r]
    OBVIOUS
  <2>2. QuestionIsSound(q)'
    BY <1>5, <2>1 DEF QueryInvariant
  <2> QED
    BY <2>1, <2>2 DEF QuestionIsSound, IsQuestion
<1> QED
  BY <1>6 DEF QueryInvariant

(* One reader's question moves on.                                         *)
LEMMA ReaderMoves ==
  ASSUME QueryInvariant, NEW r \in Reader, NEW q, Set(r, q), QuestionIsSound(q)
  PROVE  QueryInvariant'
<1>1. documents' = documents /\ job' = job /\ today' = today /\ question' = [question EXCEPT ![r] = q]
  BY DEF Set
<1>2. IngestInvariant'
  BY <1>1, IngestStep DEF vars, QueryInvariant
<1>3. question' = [k \in Reader |-> IF k = r THEN q ELSE question[k]]
  BY <1>1 DEF QueryInvariant
<1>4. \A k \in Reader : QuestionIsSound(question'[k])
  BY <1>3 DEF QueryInvariant
<1>5. \A k \in Reader : QuestionIsSound(question[k])'
  BY <1>1, <1>4 DEF QuestionIsSound, IsQuestion, Published, Replaced
<1>6. DOMAIN question' = Reader /\ question' = [k \in Reader |-> question'[k]]
  BY <1>3
<1> QED
  BY <1>1, <1>2, <1>5, <1>6 DEF QueryInvariant

(* An eligible row is published for the day it is eligible on.             *)
LEMMA RowIsPublished ==
  ASSUME IngestInvariant, NEW d \in documents, NEW day \in Nat, Eligible(d, day)
  PROVE  PublishedFor(d, Id(d.source), day)
<1>1. RowIsSound(d)
  BY DEF IngestInvariant
<1> QED
  BY <1>1 DEF RowIsSound, Eligible, PublishedFor

(* Each step of a question, every outcome of the model's draft included.   *)
LEMMA ReaderStep ==
  ASSUME QueryInvariant, NEW r \in Reader, Step(r)
  PROVE  QueryInvariant'
<1> DEFINE q == question[r]
<1>1. /\ IsQuestion(q) /\ q.day \in Nat /\ q.day <= today /\ today \in Nat
      /\ \A e \in q.evidence : Published(e.id, q.day)
      /\ \A c \in q.citations : Published(c.id, today)
      /\ q.page = "gone" => q.pc \in {"answered", "conflicting"} /\ \A c \in q.citations : Replaced(c.id)
      /\ IngestInvariant
  BY DEF QueryInvariant, QuestionIsSound
<1>2. documents \subseteq Row /\ \A d \in documents : d.source.effective \in Nat /\ d.source.expiry \in Nat
  BY <1>1, SourceAssumption DEF IngestInvariant, IngestTypeOK, Row
<1> HIDE DEF q
<1>3. EmbedQuery(r) \/ Search(r) \/ Generate(r) \/ QueryFails(r) => q.page # "gone"
  BY <1>1 DEF EmbedQuery, Search, Generate, QueryFails, Of, q
<1>4. OpenCitation(r) => q.pc \in {"answered", "conflicting"}
  BY DEF OpenCitation, Of, q
<1>5. CASE Ask(r)
  <2> DEFINE n == [Idle EXCEPT !.pc = "embed"]
  <2>1. n = [pc |-> "embed", day |-> 0, evidence |-> {}, citations |-> {}, page |-> "none"]
    BY DEF Idle
  <2>2. Set(r, n)
    BY <1>5 DEF Ask
  <2> HIDE DEF n
  <2>3. QuestionIsSound(n)
    BY <1>1, <2>1 DEF QuestionIsSound, IsQuestion
  <2> QED
    BY <2>2, <2>3, ReaderMoves
<1>6. CASE EmbedQuery(r)
  <2> DEFINE n == [q EXCEPT !.pc = "search", !.day = today]
  <2>1. n = [pc |-> "search", day |-> today, evidence |-> q.evidence, citations |-> q.citations, page |-> q.page]
    <3>1. PICK m : m = [q EXCEPT !.pc = "search"]
      OBVIOUS
    <3>2. m = [pc |-> "search", day |-> q.day, evidence |-> q.evidence, citations |-> q.citations, page |-> q.page]
      BY <1>1, <3>1 DEF IsQuestion
    <3>3. [m EXCEPT !.day = today] = [pc |-> "search", day |-> today, evidence |-> q.evidence, citations |-> q.citations, page |-> q.page]
      BY <3>2
    <3> QED
      BY <3>1, <3>3
  <2>2. Set(r, n)
    BY <1>6 DEF EmbedQuery, q
  <2> HIDE DEF n
  <2>3. \A e \in n.evidence : Published(e.id, n.day)
    <3> SUFFICES ASSUME NEW e \in q.evidence PROVE Published(e.id, today)
      BY <2>1
    <3>1. PICK d \in documents : PublishedFor(d, e.id, q.day)
      BY <1>1 DEF Published
    <3>2. PublishedFor(d, e.id, today)
      BY <1>1, <1>2, <3>1 DEF PublishedFor
    <3> QED
      BY <3>2 DEF Published
  <2>4. QuestionIsSound(n)
    BY <1>1, <1>6, <1>3, <2>1, <2>3 DEF QuestionIsSound, IsQuestion
  <2> QED
    BY <2>2, <2>4, ReaderMoves
<1>7. CASE Search(r)
  <2> DEFINE chunks == Chunks(q.day)
             size == IF Cardinality(chunks) < TopK THEN Cardinality(chunks) ELSE TopK
  <2>1. PICK e \in kSubset(size, chunks) :
          Set(r, [q EXCEPT !.evidence = e, !.pc = IF e = {} THEN "insufficient" ELSE "generate"])
    BY <1>7 DEF Search, q
  <2>2. e \subseteq chunks
    BY <2>1 DEF kSubset
  <2> DEFINE pc == IF e = {} THEN "insufficient" ELSE "generate"
             n == [q EXCEPT !.evidence = e, !.pc = pc]
  <2>3. n = [pc |-> pc, day |-> q.day, evidence |-> e, citations |-> q.citations, page |-> q.page]
    <3>1. PICK m : m = [q EXCEPT !.evidence = e]
      OBVIOUS
    <3>2. m = [pc |-> q.pc, day |-> q.day, evidence |-> e, citations |-> q.citations, page |-> q.page]
      BY <1>1, <3>1 DEF IsQuestion
    <3>3. [m EXCEPT !.pc = pc] = [pc |-> pc, day |-> q.day, evidence |-> e, citations |-> q.citations, page |-> q.page]
      BY <3>2
    <3> QED
      BY <3>1, <3>3
  <2>4. Set(r, n)
    BY <2>1
  <2>5. \A x \in chunks : \E d \in documents : Eligible(d, q.day) /\ x.id = Id(d.source)
    BY DEF Chunks
  <2> HIDE DEF n, pc, chunks
  <2>6. \A x \in n.evidence : Published(x.id, n.day)
    <3> SUFFICES ASSUME NEW x \in e PROVE Published(x.id, q.day)
      BY <2>3
    <3>1. PICK d \in documents : Eligible(d, q.day) /\ x.id = Id(d.source)
      BY <2>2, <2>5
    <3>2. PublishedFor(d, x.id, q.day)
      BY <1>1, <3>1, RowIsPublished
    <3> QED
      BY <3>2 DEF Published
  <2>7. QuestionIsSound(n)
    BY <1>1, <1>7, <1>3, <2>3, <2>6 DEF QuestionIsSound, IsQuestion
  <2> QED
    BY <2>4, <2>7, ReaderMoves
<1>8. CASE Generate(r)
  <2>1. PICK status \in {"answered", "insufficient", "conflicting"} : \E refs \in SUBSET q.evidence :
          Set(r, [q EXCEPT !.pc = status, !.citations = Citations(refs)])
    BY <1>8 DEF Generate, q
  <2>2. PICK refs \in SUBSET q.evidence : Set(r, [q EXCEPT !.pc = status, !.citations = Citations(refs)])
    BY <2>1
  <2> DEFINE n == [q EXCEPT !.pc = status, !.citations = Citations(refs)]
  <2>3. n = [pc |-> status, day |-> q.day, evidence |-> q.evidence, citations |-> Citations(refs), page |-> q.page]
    <3>1. PICK m : m = [q EXCEPT !.pc = status]
      OBVIOUS
    <3>2. m = [pc |-> status, day |-> q.day, evidence |-> q.evidence, citations |-> q.citations, page |-> q.page]
      BY <1>1, <3>1 DEF IsQuestion
    <3>3. [m EXCEPT !.citations = Citations(refs)] = [pc |-> status, day |-> q.day, evidence |-> q.evidence, citations |-> Citations(refs), page |-> q.page]
      BY <3>2
    <3> QED
      BY <3>1, <3>3
  <2>4. Set(r, n)
    BY <2>2
  <2> HIDE DEF n
  <2>5. \A c \in n.citations : Published(c.id, today)
    <3> SUFFICES ASSUME NEW c \in Citations(refs) PROVE Published(c.id, today)
      BY <2>3
    <3>1. PICK x \in refs : c.id = x.id
      BY DEF Citations
    <3>2. PICK d \in documents : PublishedFor(d, c.id, q.day)
      BY <1>1, <2>2, <3>1 DEF Published
    <3>3. PublishedFor(d, c.id, today)
      BY <1>1, <1>2, <3>2 DEF PublishedFor
    <3> QED
      BY <3>3 DEF Published
  <2>6. QuestionIsSound(n)
    BY <1>1, <1>8, <1>3, <2>3, <2>5 DEF QuestionIsSound, IsQuestion
  <2> QED
    BY <2>4, <2>6, ReaderMoves
<1>9. CASE QueryFails(r)
  <2> DEFINE n == [q EXCEPT !.pc = "error"]
  <2>1. n = [pc |-> "error", day |-> q.day, evidence |-> q.evidence, citations |-> q.citations, page |-> q.page]
    BY <1>1 DEF IsQuestion
  <2>2. Set(r, n)
    BY <1>9 DEF QueryFails, q
  <2> HIDE DEF n
  <2>3. QuestionIsSound(n)
    BY <1>1, <1>9, <1>3, <2>1 DEF QuestionIsSound, IsQuestion
  <2> QED
    BY <2>2, <2>3, ReaderMoves
<1>10. CASE OpenCitation(r)
  <2> DEFINE Found(c) == {d \in documents : Id(d.source) = c.id /\ Applicable(d, today)}
             Page(c) == IF Found(c) = {} THEN "gone" ELSE "found"
  <2>1. PICK c \in q.citations : Set(r, [q EXCEPT !.citations = {c}, !.page = Page(c)])
    BY <1>10 DEF OpenCitation, q
  <2> DEFINE n == [q EXCEPT !.citations = {c}, !.page = Page(c)]
  <2>2. n = [pc |-> q.pc, day |-> q.day, evidence |-> q.evidence, citations |-> {c}, page |-> Page(c)]
    <3>1. PICK m : m = [q EXCEPT !.citations = {c}]
      OBVIOUS
    <3>2. m = [pc |-> q.pc, day |-> q.day, evidence |-> q.evidence, citations |-> {c}, page |-> q.page]
      BY <1>1, <3>1 DEF IsQuestion
    <3>3. [m EXCEPT !.page = Page(c)] = [pc |-> q.pc, day |-> q.day, evidence |-> q.evidence, citations |-> {c}, page |-> Page(c)]
      BY <3>2
    <3> QED
      BY <3>1, <3>3
  <2>3. Set(r, n)
    BY <2>1
  <2>4. PICK d \in documents : PublishedFor(d, c.id, today)
    BY <1>1, <2>1 DEF Published
  <2>5. Page(c) = "gone" => Replaced(c.id)
    <3> SUFFICES ASSUME Found(c) = {} PROVE Replaced(c.id)
      OBVIOUS
    <3>1. ~Applicable(d, today) /\ Id(d.source) = c.id
      BY <2>4 DEF PublishedFor
    <3>2. RowIsSound(d)
      BY <1>1 DEF IngestInvariant
    <3>3. d.status = "superseded" \/ d.source.expiry <= today
      BY <1>1, <1>2, <2>4, <3>1, <3>2
         DEF PublishedFor, Applicable, RowIsSound, Jurisdictions, Audiences
    <3> QED
      BY <3>1, <3>3 DEF Replaced
  <2> HIDE DEF n, Page
  <2>6. QuestionIsSound(n)
    BY <1>1, <1>10, <1>4, <2>1, <2>2, <2>5 DEF QuestionIsSound, IsQuestion
  <2> QED
    BY <2>3, <2>6, ReaderMoves
<1> QED
  BY <1>5, <1>6, <1>7, <1>8, <1>9, <1>10 DEF Step

LEMMA QueryInit == QInit => QueryInvariant
<1> SUFFICES ASSUME QInit PROVE QueryInvariant
  OBVIOUS
<1>1. IngestInvariant
  BY IngestInit DEF QInit
<1>2. today = 0 /\ question = [r \in Reader |-> Idle]
  BY DEF QInit
<1>3. QuestionIsSound(Idle)
  BY <1>2 DEF QuestionIsSound, IsQuestion, Idle
<1> QED
  BY <1>1, <1>2, <1>3 DEF QueryInvariant

LEMMA QueryStep == QueryInvariant /\ [QNext]_qvars => QueryInvariant'
<1> SUFFICES ASSUME QueryInvariant, [QNext]_qvars PROVE QueryInvariant'
  OBVIOUS
<1>1. IngestInvariant /\ today \in Nat
  BY DEF QueryInvariant
<1>2. ASSUME [Next]_vars, UNCHANGED <<today, question>> PROVE QueryInvariant'
  <2>1. IngestInvariant'
    BY <1>1, <1>2, IngestStep
  <2>2. \A d \in documents : \E e \in documents' :
          e.source = d.source /\ (d.status = "superseded" => e.status = "superseded")
    BY <1>1, <1>2, RowsPersist
  <2> QED
    BY <1>1, <1>2, <2>1, <2>2, WorldMoves
<1>3. CASE NextDay
  <2>1. today' = today + 1 /\ UNCHANGED <<documents, job, question>>
    BY <1>3 DEF NextDay
  <2>2. IngestInvariant'
    BY <1>1, <2>1, IngestStep DEF vars
  <2>3. today' \in Nat /\ today <= today'
    BY <1>1, <2>1
  <2> QED
    BY <2>1, <2>2, <2>3, WorldMoves
<1>4. CASE UNCHANGED qvars
  BY <1>2, <1>4 DEF qvars, vars
<1> QED
  BY <1>2, <1>3, <1>4, ReaderStep DEF QNext

-----------------------------------------------------------------------------
(* Questions only read: with them the corpus and the processes behave as   *)
(* they do alone, so what is proved of ingestion holds under them too.     *)
THEOREM QuestionsOnlyRead == QSpec => Spec
<1>1. QInit => Init
  BY DEF QInit
<1>2. [QNext]_qvars => [Next]_vars
  BY DEF QNext, qvars, vars, Step, Ask, EmbedQuery, Search, Generate, QueryFails, OpenCitation, Set, NextDay
<1> QED
  BY <1>1, <1>2, PTL DEF QSpec, Spec

(* The superseded_by chain of every code ends in its only approved version *)
(* (resolve_existing, _validate_supersession, _persist under the advisory  *)
(* lock), however many processes load overlapping corpora.                 *)
THEOREM ChainsEndInOneVersion == Spec => []OneApprovedVersion
<1>1. Init => IngestInvariant
  BY IngestInit
<1>2. IngestInvariant /\ [Next]_vars => IngestInvariant'
  BY IngestStep
<1>3. IngestInvariant => OneApprovedVersion
  BY DEF IngestInvariant
<1> QED
  BY <1>1, <1>2, <1>3, PTL DEF Spec

(* Every file a process has passed is stored as it read it, with chunks    *)
(* that cover its text.                                                    *)
THEOREM PassedFilesStayStored == Spec => []PassedFilesAreStored
<1>1. Init => IngestInvariant
  BY IngestInit
<1>2. IngestInvariant /\ [Next]_vars => IngestInvariant'
  BY IngestStep
<1>3. IngestInvariant => PassedFilesAreStored
  <2> SUFFICES ASSUME IngestInvariant PROVE PassedFilesAreStored
    OBVIOUS
  <2>1. \A i \in Ingester : \A n \in DOMAIN Corpus[i] :
          n < job[i].at \/ (job[i].pc = "done" /\ i \notin Bootstrap) =>
            \E d \in documents : d.source = Corpus[i][n]
    BY DEF IngestInvariant, JobIsSound, Stored
  <2>2. \A d \in documents : ChunksOfSource[d.source] # <<>> /\ d.source \in Source
    BY DEF IngestInvariant, IngestTypeOK, RowIsSound, Row
  <2>3. \A s \in Source : WholeOrRefused(s.body)
    BY EveryBodyIsWholeOrRefused, SourceAssumption
  <2> QED
    BY <2>1, <2>2, <2>3 DEF PassedFilesAreStored
<1> QED
  BY <1>1, <1>2, <1>3, PTL DEF Spec

LEMMA QueryInvariantHolds == QSpec => []QueryInvariant
<1>1. QInit => QueryInvariant
  BY QueryInit
<1>2. QueryInvariant /\ [QNext]_qvars => QueryInvariant'
  BY QueryStep
<1> QED
  BY <1>1, <1>2, PTL DEF QSpec

(* Whatever is ingested between the retrieval, the model's answer and the  *)
(* reading of it, each citation is of a document that was approved, in     *)
(* effect and addressed to this employee.                                  *)
THEOREM CitationsArePublished == QSpec => []CitesPublishedPolicy
<1>1. QueryInvariant => CitesPublishedPolicy
  BY DEF QueryInvariant, QuestionIsSound, Published, PublishedFor, CitesPublishedPolicy
<1> QED
  BY <1>1, QueryInvariantHolds, PTL

(* The portal's filter and the retrieval's agree: a cited page is gone     *)
(* only after a successor or the expiry date.                              *)
THEOREM GoneMeansReplaced == QSpec => []GoneOnlyWhenReplaced
<1>1. QueryInvariant => GoneOnlyWhenReplaced
  BY DEF QueryInvariant, QuestionIsSound, Replaced, GoneOnlyWhenReplaced
<1> QED
  BY <1>1, QueryInvariantHolds, PTL

(* A policy can stop being retrievable without a successor in effect only  *)
(* in the commit of a successor that is not, or at midnight.               *)
THEOREM GapsComeFromSuccessors == QSpec => GapOnlyFromSuccessor
<1> DEFINE Gap(c) ==
      \/ today' # today
      \/ \E d \in documents' \ documents :
           d.source.code = c /\ d.status = "approved" /\ ~Eligible(d, today)
    Gaps == \A c \in {s.code : s \in Source} : Covered(c) /\ ~Covered(c)' => Gap(c)
<1>1. QueryInvariant /\ [QNext]_qvars => [Gaps]_qvars
  <2> SUFFICES ASSUME QueryInvariant, QNext, NEW c, Covered(c), ~Covered(c)', today' = today
               PROVE  \E d \in documents' \ documents :
                        d.source.code = c /\ d.status = "approved" /\ ~Eligible(d, today)
    OBVIOUS
  <2>1. PICK d \in documents : d.source.code = c /\ d.status = "approved" /\ Eligible(d, today)
    BY DEF Covered, Approved
  <2>2. \A e \in documents' : e.source.code = c /\ e.status = "approved" => ~Eligible(e, today)
    BY DEF Covered, Approved, Eligible
  <2>3. d \notin documents'
    BY <2>1, <2>2
  <2>4. IngestInvariant
    BY DEF QueryInvariant
  <2>5. PICK i \in Ingester : Commit(i)
    BY <2>3 DEF QNext, Next, Work, Run, Reject, ResolveExisting, FindNothing, Embed, LockDocCode,
               Decide, Verify, Fail, Step, Ask, EmbedQuery, Search, Generate, QueryFails,
               OpenCitation, Set, NextDay
  <2>6. PICK s \in Source : s = Current(i)
    BY <2>4, CurrentIsSource DEF IngestInvariant
  <2>7. /\ \A e \in Predecessor(s) : e.source.code = s.code /\ s.status = "approved"
        /\ \A x : x \in documents' <=>
              \/ x \in documents /\ x \notin Predecessor(s)
              \/ \E e \in Predecessor(s) : x = SupersededBy(s, e)
              \/ x = NewRow(s)
        /\ Existing(s) = {}
    BY <2>4, <2>5, <2>6, CommitFacts
  <2>8. d \in Predecessor(s) /\ NewRow(s) \in documents'
    BY <2>1, <2>3, <2>7
  <2>9. NewRow(s).source = s /\ NewRow(s).status = s.status
    BY FreshRow
  <2>10. NewRow(s) \notin documents
    BY <2>7, <2>9 DEF Existing
  <2> QED
    BY <2>1, <2>2, <2>7, <2>8, <2>9, <2>10
<1> QED
  BY <1>1, QueryInvariantHolds, PTL DEF QSpec, GapOnlyFromSuccessor
=============================================================================
