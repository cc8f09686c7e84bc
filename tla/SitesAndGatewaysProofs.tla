--------------------------- MODULE SitesAndGatewaysProofs --------------------
(***************************************************************************)
(* What a site covers, for every tree of any size: each walk ends with the *)
(* least set that holds what was asked for and is closed under its links,  *)
(* and the scopes of the page, the server and the Command Center are       *)
(* related as ScopesAgree says.                                            *)
(*                                                                         *)
(* And what the connectivity pages tell of the gateways, for any fleet,    *)
(* data and days: every figure, table, timeline, reason and file is what   *)
(* the readings of its range say, as RangesShown asks.                     *)
(***************************************************************************)
EXTENDS SiteView, MCGatewayPages, FiniteSetTheorems, WellFoundedInduction,
        SequenceTheorems, TLAPS

Below(s, S) == s \in S /\ (\A n \in S : Kids(n) \subseteq S)

\* visit: who was called is not yet seen, and was called by its parent, who
\* told it what it is drawn under.
PickerOK ==
  /\ picker.todo \cap picker.seen = {}
  /\ \A s \in picker.seen : Kids(s) \subseteq picker.seen \cup picker.todo
  /\ \A s \in picker.seen \cup picker.todo : tree[s] = None \/ tree[s] \in picker.seen
  /\ \A s \in picker.seen : \A c \in Kids(s) : picker.above[c] = Under(s)
  /\ \A c \in picker.seen \cup picker.todo : \A S \in SUBSET Site :
       picker.above[c] # None /\ Below(picker.above[c], S) => c \in S

\* A selection is made on a finished picker, and nothing is walked without one.
SelectionOK ==
  /\ site # None => picker.todo = {} /\ site \in Options
  /\ walk.by # None => site # None
  /\ walk.by = None => walk.todo = {}
  /\ walked # {} => site # None

\* The walk under way has reached only what it must, and lost nothing.
WalkOK ==
  walk.by # None =>
    /\ Asked(walk.by) \subseteq walk.out \cup walk.todo
    /\ \A s \in walk.out : Links(walk.by, s) \subseteq walk.out \cup walk.todo
    /\ \A S \in SUBSET Site :
         Asked(walk.by) \subseteq S /\ Closed(walk.by, S) => walk.out \cup walk.todo \subseteq S

TreeInv == TypeOK /\ PickerOK /\ SelectionOK /\ WalkOK /\ WalksExact

-----------------------------------------------------------------------------
LEMMA Initially == Init => TreeInv
<1> SUFFICES ASSUME Init PROVE TreeInv
  OBVIOUS
<1> USE TreeAssumption
<1>1. TypeOK
  BY DEF Init, TypeOK, Opened, Roots, Idle
<1>2. PickerOK
  BY DEF Init, PickerOK, Opened, Roots
<1>3. SelectionOK /\ WalkOK /\ WalksExact
  BY DEF Init, SelectionOK, WalkOK, WalksExact, Idle
<1> QED BY <1>1, <1>2, <1>3 DEF TreeInv

\* Opening the page and selecting leave no walk and nothing found.
LEMMA Opening == TreeInv /\ Open => TreeInv'
<1> SUFFICES ASSUME TreeInv, Open PROVE TreeInv'
  OBVIOUS
<1> USE TreeAssumption
<1>1. TypeOK'
  BY DEF TreeInv, Open, TypeOK, Opened, Roots
<1>2. PickerOK'
  BY DEF Open, PickerOK, Opened, Roots
<1>3. SelectionOK' /\ WalkOK' /\ WalksExact'
  BY DEF Open, SelectionOK, WalkOK, WalksExact, Idle
<1> QED BY <1>1, <1>2, <1>3 DEF TreeInv

LEMMA PickerKept ==
  ASSUME PickerOK, UNCHANGED <<tree, allowed, picker>>
  PROVE  PickerOK'
BY DEF PickerOK, Kids, Under, Below

LEMMA Selecting == ASSUME NEW s \in Site, TreeInv, Select(s) PROVE TreeInv'
<1> USE TreeAssumption
<1>1. TypeOK'
  BY DEF TreeInv, Select, TypeOK
<1>2. PickerOK'
  BY PickerKept DEF TreeInv, Select
<1>3. SelectionOK' /\ WalkOK' /\ WalksExact'
  BY DEF Select, SelectionOK, WalkOK, WalksExact, Idle, Options
<1> QED BY <1>1, <1>2, <1>3 DEF TreeInv

LEMMA Visiting == ASSUME NEW s \in Site, TreeInv, Visit(s) PROVE TreeInv'
<1> USE TreeAssumption
<1> DEFINE kids == Kids(s) \ (picker.seen \cup {s})
<1>1. TypeOK /\ PickerOK /\ SelectionOK
  BY DEF TreeInv
<1>2. /\ picker.todo \in SUBSET Site /\ picker.seen \in SUBSET Site
      /\ picker.above \in [Site -> Site \cup {None}]
  BY <1>1 DEF TypeOK
<1>3. /\ s \in picker.todo
      /\ picker'.todo = (picker.todo \ {s}) \cup kids
      /\ picker'.seen = picker.seen \cup {s}
      /\ picker'.above = [c \in Site |-> IF c \in kids THEN Under(s) ELSE picker.above[c]]
      /\ tree' = tree /\ allowed' = allowed /\ site' = site /\ walk' = walk
      /\ walked' = walked /\ covers' = covers
  BY DEF Visit
<1>4. s \notin picker.seen
  BY <1>1, <1>3 DEF PickerOK
<1>5. \A c \in Kids(s) : c \notin picker.seen \cup picker.todo
  BY <1>1, <1>3, <1>4 DEF PickerOK, Kids
<1>6. kids = Kids(s) /\ kids \in SUBSET Site /\ s \notin kids
  BY <1>3, <1>5 DEF Kids
<1>7. Under(s) \in Site \cup {None}
  BY <1>2 DEF Under
<1>8. TypeOK'
  <2>1. picker' = [todo |-> picker'.todo, seen |-> picker'.seen, above |-> picker'.above]
    BY DEF Visit
  <2>2. /\ picker'.todo \in SUBSET Site /\ picker'.seen \in SUBSET Site
        /\ picker'.above \in [Site -> Site \cup {None}]
    BY <1>2, <1>3, <1>6, <1>7
  <2> QED BY <1>1, <1>3, <2>1, <2>2 DEF TypeOK
<1>9. \A c \in Site : c \notin Kids(s) => picker'.above[c] = picker.above[c]
  BY <1>3, <1>6
<1>10. \A c \in Kids(s) : picker'.above[c] = Under(s)
  BY <1>3, <1>6
<1>11. \A n \in picker.seen \cup {s} : Under(n)' = Under(n)
  <2> SUFFICES ASSUME NEW n \in picker.seen \cup {s} PROVE Under(n)' = Under(n)
    OBVIOUS
  <2>1. n \in Site /\ n \notin Kids(s)
    BY <1>2, <1>3, <1>5
  <2> QED BY <2>1, <1>3, <1>9 DEF Under
<1>12. \A n : Kids(n)' = Kids(n)
  BY <1>3 DEF Kids
<1>13. PickerOK'
  <2>1. (picker.todo \cap picker.seen = {})'
    BY <1>1, <1>3, <1>5, <1>6 DEF PickerOK
  <2>2. (\A n \in picker.seen : Kids(n) \subseteq picker.seen \cup picker.todo)'
    BY <1>1, <1>3, <1>6, <1>12 DEF PickerOK
  <2>3. (\A n \in picker.seen \cup picker.todo : tree[n] = None \/ tree[n] \in picker.seen)'
    BY <1>1, <1>3, <1>6 DEF PickerOK, Kids
  <2>4. (\A n \in picker.seen : \A c \in Kids(n) : picker.above[c] = Under(n))'
    <3> SUFFICES ASSUME NEW n \in picker'.seen, NEW c \in Kids(n)'
                 PROVE  picker'.above[c] = Under(n)'
      OBVIOUS
    <3>1. c \in Kids(n) /\ c \in Site /\ Under(n)' = Under(n)
      BY <1>3, <1>11, <1>12 DEF Kids
    <3>2. CASE n = s
      BY <3>1, <3>2, <1>10
    <3>3. CASE n # s
      <4>1. n \in picker.seen /\ c \notin Kids(s)
        BY <3>1, <3>3, <1>3 DEF Kids
      <4> QED BY <4>1, <3>1, <1>1, <1>9 DEF PickerOK
    <3> QED BY <3>2, <3>3
  <2>5. (\A c \in picker.seen \cup picker.todo : \A S \in SUBSET Site :
           picker.above[c] # None /\ Below(picker.above[c], S) => c \in S)'
    <3> SUFFICES ASSUME NEW c \in picker'.seen \cup picker'.todo, NEW S \in SUBSET Site,
                        (picker.above[c] # None /\ Below(picker.above[c], S))'
                 PROVE  c \in S
      OBVIOUS
    <3>1. \A n \in S : Kids(n) \subseteq S
      BY <1>12 DEF Below
    <3>2. picker'.above[c] \in S
      BY DEF Below
    <3>3. CASE c \in Kids(s)
      <4>1. Under(s) \in S /\ Under(s) # None
        BY <3>2, <3>3, <1>10
      <4>2. CASE s \in allowed
        BY <4>1, <4>2, <3>1, <3>3 DEF Under
      <4>3. CASE s \notin allowed
        <5>1. picker.above[s] # None /\ Below(picker.above[s], S)
          BY <4>1, <4>3, <3>1 DEF Under, Below
        <5>2. s \in S
          BY <5>1, <1>1, <1>3 DEF PickerOK
        <5> QED BY <5>2, <3>1, <3>3
      <4> QED BY <4>2, <4>3
    <3>4. CASE c \notin Kids(s)
      <4>1. c \in picker.seen \cup picker.todo /\ c \in Site
        BY <3>4, <1>2, <1>3, <1>6
      <4>2. picker.above[c] # None /\ Below(picker.above[c], S)
        BY <4>1, <3>1, <3>2, <3>4, <1>9 DEF Below
      <4> QED BY <4>1, <4>2, <1>1 DEF PickerOK
    <3> QED BY <3>3, <3>4
  <2> QED BY <2>1, <2>2, <2>3, <2>4, <2>5 DEF PickerOK
<1>14. site = None /\ walk.by = None /\ walked = {}
  BY <1>1, <1>3 DEF SelectionOK
<1>15. SelectionOK' /\ WalkOK' /\ WalksExact'
  BY <1>1, <1>3, <1>14 DEF SelectionOK, WalkOK, WalksExact
<1> QED BY <1>8, <1>13, <1>15 DEF TreeInv

LEMMA LinksKept ==
  ASSUME UNCHANGED <<tree, allowed, picker>>
  PROVE  /\ \A w, s : Links(w, s)' = Links(w, s)
         /\ \A w, S : Closed(w, S)' = Closed(w, S)
<1>1. \A w, s : Links(w, s)' = Links(w, s)
  BY DEF Links, Kids, Options
<1> QED BY <1>1 DEF Closed

\* What the walks of this selection have found stays as it is.
LEMMA FoundKept ==
  ASSUME WalksExact, UNCHANGED <<tree, allowed, picker, site, walked, covers>>
  PROVE  WalksExact'
<1>1. \A w : Asked(w)' = Asked(w)
  BY DEF Asked
<1> QED BY <1>1, LinksKept DEF WalksExact

LEMMA LinksAreSites == ASSUME TypeOK, NEW w \in Walker, NEW s PROVE Links(w, s) \in SUBSET Site
<1>1. CASE w \in {"all", "server"}
  BY <1>1 DEF Links, Kids
<1>2. CASE w = "page"
  BY <1>2 DEF Links, Options, TypeOK
<1>3. CASE w = "center"
  BY <1>3 DEF Links, Kids
<1> QED BY <1>1, <1>2, <1>3 DEF Walker

LEMMA Asking == ASSUME NEW w \in Walker, TreeInv, Ask(w) PROVE TreeInv'
<1> USE TreeAssumption
<1>1. TypeOK'
  BY DEF TreeInv, Ask, TypeOK, Asked
<1>2. PickerOK'
  BY PickerKept DEF TreeInv, Ask
<1>3. SelectionOK'
  BY DEF TreeInv, Ask, SelectionOK, Options
<1>4. WalkOK'
  <2>1. \A v : Asked(v)' = Asked(v)
    BY DEF Ask, Asked
  <2>2. walk'.by = w /\ walk'.todo = Asked(w) /\ walk'.out = {}
    BY DEF Ask
  <2> QED BY <2>1, <2>2 DEF WalkOK
<1>5. WalksExact'
  BY FoundKept DEF TreeInv, Ask
<1> QED BY <1>1, <1>2, <1>3, <1>4, <1>5 DEF TreeInv

LEMMA Skipping == ASSUME NEW s \in Site, TreeInv, Skip(s) PROVE TreeInv'
<1> USE TreeAssumption
<1>1. TypeOK'
  BY DEF TreeInv, Skip, TypeOK
<1>2. PickerOK'
  BY PickerKept DEF TreeInv, Skip
<1>3. walk'.by = walk.by /\ walk'.out = walk.out /\ walk'.out \cup walk'.todo = walk.out \cup walk.todo
  BY DEF TreeInv, Skip, TypeOK
<1>4. SelectionOK'
  BY <1>3 DEF TreeInv, Skip, SelectionOK, Options
<1>5. WalkOK'
  <2>1. \A v : Asked(v)' = Asked(v)
    BY DEF Skip, Asked
  <2>2. UNCHANGED <<tree, allowed, picker>>
    BY DEF Skip
  <2> QED BY <1>3, <2>1, <2>2, LinksKept DEF TreeInv, WalkOK
<1>6. WalksExact'
  BY FoundKept DEF TreeInv, Skip
<1> QED BY <1>1, <1>2, <1>4, <1>5, <1>6 DEF TreeInv

LEMMA Taking == ASSUME NEW s \in Site, TreeInv, Take(s) PROVE TreeInv'
<1> USE TreeAssumption
<1>1. walk \in [by : Walker \cup {None}, todo : SUBSET Site, out : SUBSET Site]
  BY DEF TreeInv, TypeOK
<1>2. /\ s \in walk.todo
      /\ walk'.by = walk.by
      /\ walk'.todo = (walk.todo \ {s}) \cup Links(walk.by, s)
      /\ walk'.out = walk.out \cup {s}
      /\ UNCHANGED <<tree, allowed, picker, site, walked, covers>>
  BY <1>1 DEF Take
<1>3. CASE walk.by = None
  <2>1. walk.todo = {}
    BY <1>3 DEF TreeInv, SelectionOK
  <2> QED BY <2>1, <1>2
<1>4. CASE walk.by # None
  <2>1. walk.by \in Walker
    BY <1>1, <1>4
  <2>2. Links(walk.by, s) \in SUBSET Site
    BY <2>1, LinksAreSites DEF TreeInv
  <2>3. TypeOK'
    BY <2>2 DEF TreeInv, Take, TypeOK
  <2>4. PickerOK'
    BY <1>2, PickerKept DEF TreeInv
  <2>5. SelectionOK'
    BY <1>2 DEF TreeInv, SelectionOK, Options
  <2>6. WalkOK'
    <3>1. Asked(walk.by)' = Asked(walk.by)
      BY <1>2 DEF Asked
    <3>2. \A n : Links(walk.by, n)' = Links(walk.by, n)
      BY <1>2, LinksKept
    <3>3. \A S : Closed(walk.by, S)' = Closed(walk.by, S)
      BY <1>2, LinksKept
    <3>4. /\ Asked(walk.by) \subseteq walk.out \cup walk.todo
          /\ \A n \in walk.out : Links(walk.by, n) \subseteq walk.out \cup walk.todo
          /\ \A S \in SUBSET Site :
               Asked(walk.by) \subseteq S /\ Closed(walk.by, S) => walk.out \cup walk.todo \subseteq S
      BY <1>4 DEF TreeInv, WalkOK
    <3>5. walk'.out \cup walk'.todo = walk.out \cup walk.todo \cup Links(walk.by, s)
      BY <1>2
    <3>6. \A n \in walk'.out : Links(walk.by, n) \subseteq walk'.out \cup walk'.todo
      BY <1>2, <3>4, <3>5
    <3>7. ASSUME NEW S \in SUBSET Site, Asked(walk.by) \subseteq S, Closed(walk.by, S)
          PROVE  walk'.out \cup walk'.todo \subseteq S
      <4>1. walk.out \cup walk.todo \subseteq S
        BY <3>4, <3>7
      <4>2. Links(walk.by, s) \subseteq S
        BY <4>1, <3>7, <1>2 DEF Closed
      <4> QED BY <4>1, <4>2, <3>5
    <3>8. Asked(walk.by) \subseteq walk'.out \cup walk'.todo
      BY <3>4, <3>5
    <3> QED BY <1>2, <3>1, <3>2, <3>3, <3>6, <3>7, <3>8 DEF WalkOK
  <2>7. WalksExact'
    BY <1>2, FoundKept DEF TreeInv
  <2> QED BY <2>3, <2>4, <2>5, <2>6, <2>7 DEF TreeInv
<1> QED BY <1>3, <1>4

LEMMA Finding == ASSUME NEW w \in Walker, TreeInv, Found(w) PROVE TreeInv'
<1> USE TreeAssumption
<1>1. /\ walk \in [by : Walker \cup {None}, todo : SUBSET Site, out : SUBSET Site]
      /\ covers \in [Walker -> SUBSET Site] /\ walked \in SUBSET Walker
  BY DEF TreeInv, TypeOK
<1>2. /\ walk.by = w /\ walk.by # None /\ walk.todo = {}
      /\ covers' = [covers EXCEPT ![w] = walk.out]
      /\ walked' = walked \cup {w}
      /\ walk' = Idle
      /\ UNCHANGED <<tree, allowed, picker, site>>
  BY DEF Found
<1>3. TypeOK'
  BY <1>1, <1>2 DEF TreeInv, TypeOK, Idle
<1>4. PickerOK'
  BY <1>2, PickerKept DEF TreeInv
<1>5. SelectionOK' /\ WalkOK'
  BY <1>2 DEF TreeInv, SelectionOK, WalkOK, Idle, Options
<1>6. WalksExact'
  <2>1. \A v : Asked(v)' = Asked(v)
    BY <1>2 DEF Asked
  <2>2. \A v, S : Closed(v, S)' = Closed(v, S)
    BY <1>2, LinksKept
  <2> SUFFICES ASSUME NEW v \in walked'
               PROVE  /\ Asked(v) \subseteq covers'[v]
                      /\ Closed(v, covers'[v])
                      /\ \A S \in SUBSET Site :
                           Asked(v) \subseteq S /\ Closed(v, S) => covers'[v] \subseteq S
    BY <2>1, <2>2 DEF WalksExact
  <2>3. CASE v = w
    <3>1. covers'[w] = walk.out
      BY <1>1, <1>2
    <3>2. walk.out \cup walk.todo = walk.out
      BY <1>2
    <3>3. /\ Asked(w) \subseteq walk.out
          /\ \A s \in walk.out : Links(w, s) \subseteq walk.out
          /\ \A S \in SUBSET Site : Asked(w) \subseteq S /\ Closed(w, S) => walk.out \subseteq S
      BY <1>2, <3>2 DEF TreeInv, WalkOK
    <3> QED BY <2>3, <3>1, <3>3 DEF Closed
  <2>4. CASE v # w
    <3>1. v \in walked /\ covers'[v] = covers[v]
      BY <1>1, <1>2, <2>4
    <3> QED BY <3>1 DEF TreeInv, WalksExact
  <2> QED BY <2>3, <2>4
<1> QED BY <1>3, <1>4, <1>5, <1>6 DEF TreeInv

LEMMA Stepping == TreeInv /\ [TreeNext]_treeVars => TreeInv'
<1> SUFFICES ASSUME TreeInv, [TreeNext]_treeVars PROVE TreeInv'
  OBVIOUS
<1>1. CASE Open
  BY <1>1, Opening
<1>2. ASSUME NEW s \in Site, Visit(s) \/ Select(s) \/ Skip(s) \/ Take(s) PROVE TreeInv'
  BY <1>2, Visiting, Selecting, Skipping, Taking
<1>3. ASSUME NEW w \in Walker, Ask(w) \/ Found(w) PROVE TreeInv'
  BY <1>3, Asking, Finding
<1>4. CASE UNCHANGED treeVars
  <2>1. /\ UNCHANGED <<tree, allowed, picker, site, walked, covers>>
        /\ UNCHANGED walk
    BY <1>4 DEF treeVars
  <2>2. TypeOK'
    BY <2>1 DEF TreeInv, TypeOK
  <2>3. PickerOK'
    BY <2>1, PickerKept DEF TreeInv
  <2>4. SelectionOK'
    BY <2>1 DEF TreeInv, SelectionOK, Options
  <2>5. WalkOK'
    <3>1. \A v : Asked(v)' = Asked(v)
      BY <2>1 DEF Asked
    <3> QED BY <2>1, <3>1, LinksKept DEF TreeInv, WalkOK
  <2>6. WalksExact'
    BY <2>1, FoundKept DEF TreeInv
  <2> QED BY <2>2, <2>3, <2>4, <2>5, <2>6 DEF TreeInv
<1> QED BY <1>1, <1>2, <1>3, <1>4 DEF TreeNext

-----------------------------------------------------------------------------
(***************************************************************************)
(* The relation of the scopes follows from what each walk finds and from   *)
(* what visit left behind.                                                 *)
(***************************************************************************)
LEMMA Agreement == TreeInv => ScopesAgree
<1> SUFFICES ASSUME TreeInv, {"server", "page", "center"} \subseteq walked
             PROVE  /\ covers["page"] = covers["center"] \cap allowed
                    /\ covers["server"] \subseteq covers["page"]
                    /\ WholeBranches => covers["server"] = covers["center"]
  BY DEF ScopesAgree
<1> USE TreeAssumption
<1> DEFINE P == covers["page"]  C == covers["center"]  V == covers["server"]
<1>1. /\ picker.todo = {} /\ site \in Options /\ site # None
      /\ picker.seen \in SUBSET Site /\ allowed \in SUBSET Site
      /\ P \in SUBSET Site /\ C \in SUBSET Site /\ V \in SUBSET Site
  BY DEF TreeInv, SelectionOK, TypeOK, Walker
<1>2. site \in Site /\ site \in allowed /\ site \in picker.seen /\ Options \in SUBSET Site
  BY <1>1 DEF Options
<1>3. Asked("page") = {site} /\ Asked("center") = {site} /\ Asked("server") = {site}
  BY <1>2 DEF Asked
<1>4. /\ \A s : Links("server", s) = Kids(s) \cap allowed
      /\ \A s : Links("page", s) = {c \in Options : picker.above[c] = s}
      /\ \A s : Links("center", s) = Kids(s)
  BY DEF Links
<1>5. /\ site \in P /\ \A s \in P : Links("page", s) \subseteq P
      /\ \A S \in SUBSET Site : site \in S /\ (\A s \in S : Links("page", s) \subseteq S) => P \subseteq S
  BY <1>3 DEF TreeInv, WalksExact, Closed
<1>6. /\ site \in C /\ \A s \in C : Kids(s) \subseteq C
      /\ \A S \in SUBSET Site : site \in S /\ (\A s \in S : Kids(s) \subseteq S) => C \subseteq S
  BY <1>3, <1>4 DEF TreeInv, WalksExact, Closed
<1>7. /\ site \in V /\ \A s \in V : Kids(s) \cap allowed \subseteq V
      /\ \A S \in SUBSET Site : site \in S /\ (\A s \in S : Kids(s) \cap allowed \subseteq S) => V \subseteq S
  BY <1>3, <1>4 DEF TreeInv, WalksExact, Closed
<1>8. /\ \A s \in picker.seen : Kids(s) \subseteq picker.seen
      /\ \A s \in picker.seen : \A c \in Kids(s) : picker.above[c] = Under(s)
      /\ \A c \in picker.seen : \A S \in SUBSET Site :
           picker.above[c] # None /\ Below(picker.above[c], S) => c \in S
  BY <1>1 DEF TreeInv, PickerOK
<1> HIDE DEF P, C, V
<1>9. P \subseteq Options
  BY <1>1, <1>2, <1>4, <1>5
<1>10. V \subseteq P
  <2>1. ASSUME NEW s \in P, NEW c \in Kids(s) \cap allowed PROVE c \in P
    <3>1. s \in picker.seen /\ s \in allowed
      BY <1>9 DEF Options
    <3>2. c \in Options /\ picker.above[c] = s
      BY <2>1, <3>1, <1>8 DEF Options, Under
    <3> QED BY <3>2, <1>4, <1>5
  <2> QED BY <2>1, <1>1, <1>5, <1>7
<1>11. P \subseteq C
  <2>1. ASSUME NEW s \in C, NEW c \in Options, picker.above[c] = s PROVE c \in C
    <3>1. Below(s, C) /\ s # None
      BY <2>1, <1>1, <1>6 DEF Below
    <3> QED BY <2>1, <3>1, <1>1, <1>8 DEF Options
  <2> QED BY <2>1, <1>1, <1>4, <1>5, <1>6
<1>12. C \cap allowed \subseteq P
  <2> DEFINE X == {n \in Site : n \in picker.seen /\ Under(n) \in P}
  <2>1. site \in X
    BY <1>2, <1>5 DEF Under
  <2>2. ASSUME NEW n \in X, NEW c \in Kids(n) PROVE c \in X
    <3>1. c \in Site /\ c \in picker.seen /\ picker.above[c] = Under(n)
      BY <2>2, <1>8 DEF Kids
    <3>2. CASE c \in allowed
      <4>1. c \in Links("page", Under(n))
        BY <3>1, <3>2, <1>4 DEF Options
      <4>2. c \in P
        BY <4>1, <1>5
      <4> QED BY <3>1, <3>2, <4>2 DEF Under
    <3>3. CASE c \notin allowed
      BY <3>1, <3>3 DEF Under
    <3> QED BY <3>2, <3>3
  <2>3. C \subseteq X
    BY <2>1, <2>2, <1>6
  <2> QED BY <2>3 DEF Under
<1>13. ASSUME WholeBranches PROVE V = C
  <2>1. ASSUME NEW s \in V PROVE Kids(s) \subseteq V
    <3>1. s \in allowed
      BY <1>9, <1>10 DEF Options
    <3> QED BY <3>1, <1>7, <1>13 DEF WholeBranches
  <2>2. C \subseteq V
    BY <2>1, <1>1, <1>6, <1>7
  <2> QED BY <2>2, <1>10, <1>11
<1>14. P = C \cap allowed
  BY <1>9, <1>11, <1>12 DEF Options
<1> QED BY <1>10, <1>13, <1>14 DEF P, C, V

-----------------------------------------------------------------------------
\* The tree's variables move only by the tree's steps: loading the answers
\* leaves them alone.
LEMMA TreeKept == Spec => TreeSpec
<1>1. ViewInit => Init
  BY DEF ViewInit
<1>2. [Next]_vars => [TreeNext]_treeVars
  BY DEF Next, Load, Again, vars
<1> QED BY <1>1, <1>2, PTL DEF Spec, TreeSpec

LEMMA TreeSafe == Spec => []TreeInv
<1>1. TreeSpec => []TreeInv
  BY Initially, Stepping, PTL DEF TreeSpec
<1> QED BY <1>1, TreeKept, PTL

\* The variables of the picker and of the walks keep their types.
THEOREM TreeTypes == Spec => []TypeOK
<1>1. TreeInv => TypeOK
  BY DEF TreeInv
<1> QED BY <1>1, TreeSafe, PTL

\* withDescendants, siteWithDescendants and subtreeSiteIds return the least set
\* that holds what they were asked for and is closed under their links.
THEOREM WalksComplete == Spec => []WalksExact
<1>1. TreeInv => WalksExact
  BY DEF TreeInv
<1> QED BY <1>1, TreeSafe, PTL

\* What a site covers for the page, for the server and for the Command Center.
THEOREM ScopesRelated == Spec => []ScopesAgree
BY Agreement, TreeSafe, PTL

-----------------------------------------------------------------------------
(***************************************************************************)
(* The page's view.  It is compared with the server's answers row by row:  *)
(* every row of either is the row of one gateway, and says of it what its  *)
(* meters say.                                                             *)
(***************************************************************************)
Shown(S, place) == {g \in Kept(S) : fences[g].place \in place}

LoadedOK == loaded => walked = Walker

LEMMA ServedRows ==
  ASSUME NEW S
  PROVE  /\ Gateways(S).gateways = {Row(g, Heard(g, In(S))) : g \in Shown(S, {"drawn"})}
         /\ Gateways(S).unplaced =
              {Row(g, Heard(g, In(S))) : g \in Shown(S, {"no-coordinates", "no-geofence"})}
BY DEF Gateways, Shown

\* The meters the page has of a site, and the rows it makes of them.
Points(A, P) == {m \in In(A) : meters[m].at /\ meters[m].site \in P}
Mine(g, A, P) == Heard(g, Points(A, P))
PageRow(r, A, P) ==
  [id |-> r.id, status |-> statusFor(r.status, Stats(Mine(r.id, A, P))),
   stats |-> Stats(Mine(r.id, A, P))]

LEMMA DerivedRows ==
  ASSUME NEW A, NEW P
  PROVE  LET v == Derived(Gateways(A), MeterMap(A), P) IN
         /\ v.points = Points(A, P)
         /\ v.gateways = {PageRow(r, A, P) : r \in {x \in Gateways(A).gateways :
              Mine(x.id, A, P) # {} \/ fences[x.id].site \in P}}
         /\ v.unplaced = {PageRow(r, A, P) : r \in {x \in Gateways(A).unplaced :
              Mine(x.id, A, P) # {}}}
<1>1. MeterMap(A).points = {m \in In(A) : meters[m].at}
  BY DEF MeterMap
<1>2. {m \in MeterMap(A).points : meters[m].site \in P} = Points(A, P)
  BY <1>1 DEF Points
<1> HIDE DEF Points
<1> QED BY <1>2 DEF Derived, Mine, PageRow

LEMMA RowOf ==
  ASSUME NEW S, NEW r \in Gateways(S).gateways \cup Gateways(S).unplaced
  PROVE  /\ r.id \in Kept(S)
         /\ r = Row(r.id, Heard(r.id, In(S)))
         /\ r \in Gateways(S).gateways => fences[r.id].place = "drawn"
         /\ r \in Gateways(S).unplaced => fences[r.id].place \in {"no-coordinates", "no-geofence"}
<1>1. ASSUME NEW place, NEW q \in {Row(g, Heard(g, In(S))) : g \in Shown(S, place)}
      PROVE  q.id \in Kept(S) /\ fences[q.id].place \in place /\ q = Row(q.id, Heard(q.id, In(S)))
  <2>1. PICK g \in Shown(S, place) : q = Row(g, Heard(g, In(S)))
    OBVIOUS
  <2>2. q.id = g
    BY <2>1 DEF Row
  <2> QED BY <2>1, <2>2 DEF Shown
<1>2. ASSUME r \in Gateways(S).gateways
      PROVE  r.id \in Kept(S) /\ fences[r.id].place \in {"drawn"} /\ r = Row(r.id, Heard(r.id, In(S)))
  <2>1. r \in {Row(g, Heard(g, In(S))) : g \in Shown(S, {"drawn"})}
    BY <1>2, ServedRows
  <2> QED BY <2>1, <1>1
<1>3. ASSUME r \in Gateways(S).unplaced
      PROVE  /\ r.id \in Kept(S) /\ r = Row(r.id, Heard(r.id, In(S)))
             /\ fences[r.id].place \in {"no-coordinates", "no-geofence"}
  <2>1. r \in {Row(g, Heard(g, In(S))) : g \in Shown(S, {"no-coordinates", "no-geofence"})}
    BY <1>3, ServedRows
  <2> QED BY <2>1, <1>1
<1> QED BY <1>2, <1>3

\* The selected site's sites are among those of "ALL".
LEMMA PageWithinAll ==
  ASSUME TreeInv, walked = Walker
  PROVE  /\ covers["page"] \subseteq covers["all"]
         /\ covers["page"] \in SUBSET Site
<1>1. picker.seen \in SUBSET Site /\ covers["page"] \in SUBSET Site /\ site # None /\ site \in Options
  BY TreeAssumption DEF TreeInv, TypeOK, SelectionOK, Walker
<1>2. Options \in SUBSET Site /\ Asked("page") \subseteq Options
  BY <1>1 DEF Options, Asked
<1>3. Closed("page", Options)
  BY DEF Closed, Links
<1>4. covers["page"] \subseteq Options
  BY <1>2, <1>3 DEF TreeInv, WalksExact, Walker
<1>5. allowed \subseteq covers["all"]
  BY DEF TreeInv, WalksExact, Walker, Asked
<1> QED BY <1>1, <1>4, <1>5 DEF Options

LEMMA MineOf ==
  ASSUME NEW A, NEW P \in SUBSET A, NEW g
  PROVE  Mine(g, A, P) = {m \in Heard(g, In(P)) : meters[m].at}
BY DEF Mine, Points, In, Heard

LEMMA NumbersOf ==
  ASSUME NEW M \in SUBSET Meter
  PROVE  /\ Stats(M).metersHeard = Cardinality(M)
         /\ Cardinality(M) \in Nat
         /\ Cardinality(M) = 0 <=> M = {}
<1>1. IsFiniteSet(M)
  BY FS_Subset, ViewAssumption
<1> QED BY <1>1, FS_CardinalityType, FS_EmptySet DEF Stats

\* A row of the page is of a gateway the server would show in the same list.
LEMMA PageRows ==
  ASSUME NEW A, NEW P \in SUBSET A, NEW g \in Gateway,
         Mine(g, A, P) # {} \/ (g \in Known /\ fences[g].site \in P)
  PROVE  /\ fences[g].place = "drawn" =>
              Row(g, Heard(g, In(P))) \in Gateways(P).gateways
         /\ fences[g].place \in {"no-coordinates", "no-geofence"} =>
              Row(g, Heard(g, In(P))) \in Gateways(P).unplaced
<1>1. g \in Kept(P)
  BY MineOf DEF Kept
<1> QED BY <1>1, ServedRows DEF Shown

LEMMA ViewRow ==
  ASSUME NEW A, NEW P \in SUBSET A,
         NEW x \in Derived(Gateways(A), MeterMap(A), P).gateways
                     \cup Derived(Gateways(A), MeterMap(A), P).unplaced
  PROVE  /\ x.id \in Gateway
         /\ \E r \in Gateways(A).gateways \cup Gateways(A).unplaced :
              r.id = x.id /\ x = PageRow(r, A, P)
         /\ x \in Derived(Gateways(A), MeterMap(A), P).gateways =>
              Row(x.id, Heard(x.id, In(P))) \in Gateways(P).gateways
         /\ x \in Derived(Gateways(A), MeterMap(A), P).unplaced =>
              Row(x.id, Heard(x.id, In(P))) \in Gateways(P).unplaced
<1>1. ASSUME NEW y \in Derived(Gateways(A), MeterMap(A), P).gateways
      PROVE  \E r \in Gateways(A).gateways :
               /\ y = PageRow(r, A, P) /\ r.id = y.id /\ y.id \in Gateway
               /\ Row(y.id, Heard(y.id, In(P))) \in Gateways(P).gateways
  <2>1. PICK r \in Gateways(A).gateways :
          /\ Mine(r.id, A, P) # {} \/ fences[r.id].site \in P
          /\ y = PageRow(r, A, P)
    BY DerivedRows
  <2>2. y.id = r.id
    BY <2>1 DEF PageRow
  <2>3. r.id \in Gateway /\ fences[r.id].place = "drawn"
    BY RowOf DEF Kept
  <2>4. r.id \in Known
    BY <2>3 DEF Known
  <2>5. Row(r.id, Heard(r.id, In(P))) \in Gateways(P).gateways
    <3> DEFINE g == r.id
    <3>1. g \in Gateway /\ fences[g].place = "drawn"
      BY <2>3
    <3>2. Mine(g, A, P) # {} \/ (g \in Known /\ fences[g].site \in P)
      BY <2>1, <2>4
    <3> HIDE DEF g
    <3>3. Row(g, Heard(g, In(P))) \in Gateways(P).gateways
      BY <3>1, <3>2, PageRows
    <3> QED BY <3>3 DEF g
  <2> QED BY <2>1, <2>2, <2>3, <2>5
<1>2. ASSUME NEW y \in Derived(Gateways(A), MeterMap(A), P).unplaced
      PROVE  \E r \in Gateways(A).unplaced :
               /\ y = PageRow(r, A, P) /\ r.id = y.id /\ y.id \in Gateway
               /\ Row(y.id, Heard(y.id, In(P))) \in Gateways(P).unplaced
  <2>1. PICK r \in Gateways(A).unplaced : Mine(r.id, A, P) # {} /\ y = PageRow(r, A, P)
    BY DerivedRows
  <2>2. y.id = r.id
    BY <2>1 DEF PageRow
  <2>3. r.id \in Gateway /\ fences[r.id].place \in {"no-coordinates", "no-geofence"}
    BY RowOf DEF Kept
  <2>4. Row(r.id, Heard(r.id, In(P))) \in Gateways(P).unplaced
    <3> DEFINE g == r.id
    <3>1. g \in Gateway /\ fences[g].place \in {"no-coordinates", "no-geofence"}
      BY <2>3
    <3>2. Mine(g, A, P) # {}
      BY <2>1
    <3> HIDE DEF g
    <3>3. Mine(g, A, P) # {} \/ (g \in Known /\ fences[g].site \in P)
      BY <3>2
    <3>4. Row(g, Heard(g, In(P))) \in Gateways(P).unplaced
      BY <3>1, <3>3, PageRows
    <3> QED BY <3>4 DEF g
  <2> QED BY <2>1, <2>2, <2>3, <2>4
<1> QED BY <1>1, <1>2

LEMMA Statuses ==
  ASSUME TreeInv, LoadedOK
  PROVE  DerivedStatus
<1> DEFINE A == covers["all"]  P == covers["page"]
<1> DEFINE served == Gateways(P)  all == Gateways(A)
<1> DEFINE Of(answer, g) == (CHOOSE r \in answer.gateways \cup answer.unplaced : r.id = g).status
<1> SUFFICES ASSUME loaded, NEW x \in View.gateways \cup View.unplaced,
                    \A m \in Heard(x.id, In(P)) : meters[m].at
             PROVE  \/ x.status = Of(served, x.id)
                    \/ /\ Of(served, x.id) = "stale"
                       /\ Of(all, x.id) # "stale"
                       /\ x.status # "no-traffic"
  BY DEF DerivedStatus
<1>1. P \subseteq A /\ P \in SUBSET Site
  BY PageWithinAll DEF LoadedOK
<1> DEFINE g == x.id  H == Heard(g, In(P))  HA == Heard(g, In(A))
<1>2. View = Derived(Gateways(A), MeterMap(A), P)
  BY DEF View
<1> HIDE DEF A, P
<1>3. /\ g \in Gateway
      /\ \E r \in all.gateways \cup all.unplaced : r.id = g /\ x = PageRow(r, A, P)
      /\ Row(g, H) \in served.gateways \cup served.unplaced
  BY <1>1, <1>2, ViewRow
<1>4. PICK r \in all.gateways \cup all.unplaced : r.id = g /\ x = PageRow(r, A, P)
  BY <1>3
<1>5. ASSUME NEW S, NEW q \in Gateways(S).gateways \cup Gateways(S).unplaced, q.id = g
      PROVE  Of(Gateways(S), g) = gatewayStatus(Heard(g, In(S)))
  <2> DEFINE c == CHOOSE y \in Gateways(S).gateways \cup Gateways(S).unplaced : y.id = g
  <2>1. c \in Gateways(S).gateways \cup Gateways(S).unplaced /\ c.id = g
    BY <1>5
  <2> HIDE DEF c
  <2>2. c = Row(c.id, Heard(c.id, In(S)))
    BY <2>1, RowOf
  <2>3. c.status = gatewayStatus(Heard(g, In(S)))
    BY <2>1, <2>2 DEF Row
  <2> QED BY <2>3 DEF c
<1>6. Of(served, g) = gatewayStatus(H)
  <2>1. Row(g, H).id = g
    BY DEF Row
  <2> QED BY <1>3, <1>5, <2>1
<1>7. Of(all, g) = gatewayStatus(HA) /\ r.status = gatewayStatus(HA)
  <2>1. r = Row(r.id, Heard(r.id, In(A)))
    BY <1>4, RowOf
  <2>2. r.status = gatewayStatus(HA)
    BY <1>4, <2>1 DEF Row
  <2> QED BY <1>4, <1>5, <2>2
<1>8. Mine(g, A, P) = H
  <2>1. Mine(g, A, P) = {m \in H : meters[m].at}
    BY <1>1, MineOf
  <2> QED BY <2>1
<1>9. x.status = statusFor(gatewayStatus(HA), Stats(H))
  BY <1>4, <1>7, <1>8 DEF PageRow
<1>10. H \in SUBSET Meter /\ H \subseteq HA
  BY <1>1 DEF Heard, In
<1> HIDE DEF Of, g, H, HA
<1>11. Stats(H).metersHeard = Cardinality(H) /\ Cardinality(H) \in Nat /\ (Cardinality(H) = 0 <=> H = {})
  BY <1>10, NumbersOf
<1>12. CASE H = {}
  <2>1. x.status = "no-traffic"
    BY <1>9, <1>11, <1>12 DEF statusFor
  <2>2. gatewayStatus(H) = "no-traffic"
    BY <1>12 DEF gatewayStatus
  <2> QED BY <2>1, <2>2, <1>6 DEF g
<1>13. CASE H # {}
  <2>1. HA # {} /\ Stats(H).metersHeard # 0 /\ Stats(H).metersHeard > 0
    BY <1>10, <1>11, <1>13
  <2>2. CASE gatewayStatus(HA) = "stale"
    <3>1. x.status = "stale"
      BY <1>9, <2>1, <2>2 DEF statusFor
    <3>2. \A m \in HA : \A f \in meters[m].frame : f.age # "day"
      BY <2>1, <2>2 DEF gatewayStatus
    <3>3. gatewayStatus(H) = "stale"
      BY <3>2, <1>10, <1>13 DEF gatewayStatus
    <3> QED BY <3>1, <3>3, <1>6 DEF g
  <2>3. CASE gatewayStatus(HA) # "stale"
    <3>1. x.status = IF Weak(Stats(H)) THEN "degraded" ELSE "reporting"
      BY <1>9, <2>1, <2>3 DEF statusFor
    <3>2. x.status # "no-traffic"
      BY <3>1
    <3>3. CASE \A m \in H : \A f \in meters[m].frame : f.age # "day"
      <4>1. gatewayStatus(H) = "stale"
        BY <3>3, <1>13 DEF gatewayStatus
      <4> QED BY <4>1, <3>2, <2>3, <1>6, <1>7 DEF g
    <3>4. CASE ~ \A m \in H : \A f \in meters[m].frame : f.age # "day"
      <4>1. gatewayStatus(H) = IF Weak(Stats(H)) THEN "degraded" ELSE "reporting"
        BY <3>4, <1>13 DEF gatewayStatus
      <4> QED BY <4>1, <3>1, <1>6 DEF g
    <3> QED BY <3>3, <3>4
  <2> QED BY <2>2, <2>3
<1> QED BY <1>12, <1>13

\* The page counts the meters the server counts, or fewer of a gateway that
\* hears a meter without a position.
LEMMA Counts ==
  ASSUME NEW A, NEW P \in SUBSET A, NEW g
  PROVE  LET H == Heard(g, In(P)) IN
         \/ Stats(Mine(g, A, P)) = Stats(H)
         \/ /\ \E m \in H : ~ meters[m].at
            /\ Stats(Mine(g, A, P)).metersHeard < Stats(H).metersHeard
<1> DEFINE H == Heard(g, In(P))  N == Mine(g, A, P)
<1>1. N = {m \in H : meters[m].at}
  BY MineOf
<1>2. H \in SUBSET Meter /\ N \in SUBSET H
  BY <1>1 DEF Heard, In
<1> HIDE DEF H, N
<1>3. CASE N = H
  BY <1>3 DEF H, N
<1>4. CASE N # H
  <2>1. \E m \in H : ~ meters[m].at
    BY <1>1, <1>4
  <2>2. IsFiniteSet(H)
    BY <1>2, FS_Subset, ViewAssumption
  <2>3. Cardinality(N) <= Cardinality(H) /\ Cardinality(N) # Cardinality(H)
    BY <2>2, <1>2, <1>4, FS_Subset
  <2>4. Cardinality(N) \in Nat /\ Cardinality(H) \in Nat
    BY <1>2, NumbersOf
  <2>5. Cardinality(N) < Cardinality(H)
    BY <2>3, <2>4
  <2>6. Stats(N).metersHeard < Stats(H).metersHeard
    BY <2>5, <1>2, NumbersOf
  <2> QED BY <2>1, <2>6 DEF H, N
<1> QED BY <1>3, <1>4

\* What the server shows of the page's sites it shows of "ALL".
LEMMA KeptWithin ==
  ASSUME NEW A, NEW P \in SUBSET A, NEW g \in Kept(P)
  PROVE  /\ g \in Kept(A)
         /\ fences[g].place = "drawn" => Row(g, Heard(g, In(A))) \in Gateways(A).gateways
         /\ fences[g].place \in {"no-coordinates", "no-geofence"} =>
              Row(g, Heard(g, In(A))) \in Gateways(A).unplaced
<1>1. g \in Kept(A)
  BY DEF Kept, Heard, In
<1> QED BY <1>1, ServedRows DEF Shown

LEMMA Lists ==
  ASSUME TreeInv, LoadedOK
  PROVE  DerivedGateways
<1> DEFINE A == covers["all"]  P == covers["page"]  served == Gateways(P)
<1> DEFINE Lost(g) == \E m \in Heard(g, In(P)) : ~ meters[m].at
<1> DEFINE Fewer(x, r) == Lost(r.id) /\ x.stats.metersHeard < r.stats.metersHeard
<1> SUFFICES ASSUME loaded
             PROVE  /\ \A x \in View.gateways : \E r \in served.gateways :
                         x.id = r.id /\ (x.stats = r.stats \/ Fewer(x, r))
                    /\ \A x \in View.unplaced : \E r \in served.unplaced :
                         x.id = r.id /\ (x.stats = r.stats \/ Fewer(x, r))
                    /\ \A r \in served.gateways : Lost(r.id) \/ \E x \in View.gateways : x.id = r.id
                    /\ \A r \in served.unplaced : \/ Lost(r.id)
                                                  \/ r.stats.metersHeard = 0
                                                  \/ \E x \in View.unplaced : x.id = r.id
  BY DEF DerivedGateways
<1>1. P \in SUBSET A
  BY PageWithinAll DEF LoadedOK
<1>2. View = Derived(Gateways(A), MeterMap(A), P)
  BY DEF View
<1> HIDE DEF A, P
<1>3. ASSUME NEW x \in View.gateways \cup View.unplaced
      PROVE  LET r == Row(x.id, Heard(x.id, In(P))) IN
             x.id = r.id /\ (x.stats = r.stats \/ Fewer(x, r))
  <2> DEFINE g == x.id  H == Heard(g, In(P))  r == Row(g, H)
  <2>1. r.id = g /\ r.stats = Stats(H)
    BY DEF Row
  <2>2. x.stats = Stats(Mine(g, A, P))
    <3>1. PICK q \in Gateways(A).gateways \cup Gateways(A).unplaced : q.id = x.id /\ x = PageRow(q, A, P)
      BY <1>1, <1>2, ViewRow
    <3> QED BY <3>1 DEF PageRow
  <2>3. \/ Stats(Mine(g, A, P)) = Stats(H)
        \/ (\E m \in H : ~ meters[m].at) /\ Stats(Mine(g, A, P)).metersHeard < Stats(H).metersHeard
    <3> HIDE DEF g
    <3> QED BY <1>1, Counts
  <2> QED BY <2>1, <2>2, <2>3
<1>4. \A x \in View.gateways : Row(x.id, Heard(x.id, In(P))) \in served.gateways
  BY <1>1, <1>2, ViewRow
<1>5. \A x \in View.unplaced : Row(x.id, Heard(x.id, In(P))) \in served.unplaced
  BY <1>1, <1>2, ViewRow
<1>6. ASSUME NEW r \in served.gateways, ~ Lost(r.id)
      PROVE  \E x \in View.gateways : x.id = r.id
  <2> DEFINE g == r.id  q == Row(g, Heard(g, In(A)))
  <2>1. g \in Kept(P) /\ fences[g].place = "drawn"
    BY <1>6, RowOf
  <2>2. q \in Gateways(A).gateways
    <3> HIDE DEF g
    <3> QED BY <2>1, <1>1, KeptWithin
  <2>3. Mine(g, A, P) # {} \/ fences[g].site \in P
    <3>1. Mine(g, A, P) = {m \in Heard(g, In(P)) : meters[m].at}
      BY <1>1, MineOf
    <3> QED BY <3>1, <2>1, <1>6 DEF Kept
  <2>4. q.id = g
    BY DEF Row
  <2>5. PageRow(q, A, P) \in View.gateways
    <3> HIDE DEF q, g
    <3>1. q \in {y \in Gateways(A).gateways : Mine(y.id, A, P) # {} \/ fences[y.id].site \in P}
      BY <2>2, <2>3, <2>4
    <3> QED BY <3>1, <1>2, DerivedRows
  <2>6. PageRow(q, A, P).id = g
    BY <2>4 DEF PageRow
  <2> QED BY <2>5, <2>6
<1>7. ASSUME NEW r \in served.unplaced, ~ Lost(r.id), r.stats.metersHeard # 0
      PROVE  \E x \in View.unplaced : x.id = r.id
  <2> DEFINE g == r.id  q == Row(g, Heard(g, In(A)))  H == Heard(g, In(P))
  <2>1. g \in Kept(P) /\ fences[g].place \in {"no-coordinates", "no-geofence"} /\ r = Row(g, H)
    BY <1>7, RowOf
  <2>2. q \in Gateways(A).unplaced
    <3> HIDE DEF g
    <3> QED BY <2>1, <1>1, KeptWithin
  <2>3. Mine(g, A, P) # {}
    <3>1. Mine(g, A, P) = {m \in H : meters[m].at}
      BY <1>1, MineOf
    <3>2. r.stats = Stats(H)
      BY <2>1 DEF Row
    <3>3. H \in SUBSET Meter
      BY DEF Heard, In
    <3>4. H # {}
      BY <3>2, <3>3, <1>7, NumbersOf
    <3> QED BY <3>1, <3>4, <1>7
  <2>4. q.id = g
    BY DEF Row
  <2>5. PageRow(q, A, P) \in View.unplaced
    <3> HIDE DEF q, g
    <3>1. q \in {y \in Gateways(A).unplaced : Mine(y.id, A, P) # {}}
      BY <2>2, <2>3, <2>4
    <3> QED BY <3>1, <1>2, DerivedRows
  <2>6. PageRow(q, A, P).id = g
    BY <2>4 DEF PageRow
  <2> QED BY <2>5, <2>6
<1> QED BY <1>3, <1>4, <1>5, <1>6, <1>7

-----------------------------------------------------------------------------
(* Sums over sites: how many of a finite set lie in the parts of it.         *)

\* A set of subsets that is not empty has one that contains no other.
LEMMA SmallestSubset ==
  ASSUME NEW S, IsFiniteSet(S), NEW F \in SUBSET (SUBSET S), F # {}
  PROVE  \E A \in F : \A B \in F : B \subseteq A => B = A
<1>1. IsWellFoundedOn(StrictSubsetOrdering(S), SUBSET S)
  BY FS_StrictSubsetOrderingWellFounded, FS_FiniteSubsetsOfFinite
<1> HIDE DEF StrictSubsetOrdering
<1>2. PICK A \in F : \A B \in F : ~ (<<B, A>> \in StrictSubsetOrdering(S))
  BY <1>1, WFMin
<1>3. ASSUME NEW B \in F, B \subseteq A
      PROVE  B = A
  BY <1>2, <1>3 DEF StrictSubsetOrdering
<1> QED BY <1>2, <1>3

\* What is in one of the parts T of N.
Parted(N, part, T) == {m \in N : part[m] \in T}

\* What the sum adds up from, one part after the other.
SumsUp(f, S, g) ==
  g = [T \in SUBSET S |->
         IF T = {} THEN 0 ELSE LET x == CHOOSE x \in T : TRUE IN f[x] + g[T \ {x}]]

LEMMA PartsAdd ==
  ASSUME NEW N, IsFiniteSet(N), NEW part, NEW T, NEW x \in T
  PROVE  Cardinality(Parted(N, part, T)) =
           Cardinality(Parted(N, part, {x})) + Cardinality(Parted(N, part, T \ {x}))
<1> DEFINE A == Parted(N, part, {x})  B == Parted(N, part, T \ {x})  C == Parted(N, part, T)
<1>1. C = A \cup B /\ A \cap B = {}
  BY DEF Parted
<1>2. IsFiniteSet(A) /\ IsFiniteSet(B)
  BY FS_Subset DEF Parted
<1> HIDE DEF A, B, C
<1>3. Cardinality(A) \in Nat /\ Cardinality(B) \in Nat
  BY <1>2, FS_CardinalityType
<1>4. Cardinality(A \cup B) = Cardinality(A) + Cardinality(B) - Cardinality(A \cap B)
  BY <1>2, FS_Union
<1>5. Cardinality(A \cap B) = 0
  BY <1>1, FS_EmptySet
<1>6. Cardinality(C) = Cardinality(A) + Cardinality(B)
  BY <1>1, <1>3, <1>4, <1>5
<1> QED BY <1>6 DEF A, B, C

\* f says of each part in S how many of N are in it.
Tells(f, S, N, part) ==
  /\ IsFiniteSet(S)
  /\ IsFiniteSet(N)
  /\ \A s \in S : f[s] = Cardinality(Parted(N, part, {s}))

LEMMA PartsSum ==
  ASSUME NEW S, NEW N, NEW part, NEW f, Tells(f, S, N, part)
  PROVE  SumFunctionOnSet(f, S) = Cardinality(Parted(N, part, S))
<1> DEFINE it == CHOOSE g : SumsUp(f, S, g)
           G  == [T \in SUBSET S |-> Cardinality(Parted(N, part, T))]
<1> USE DEF Tells
<1>1. SumFunctionOnSet(f, S) = it[S]
  BY DEF SumFunctionOnSet, FoldFunctionOnSet, MapThenFoldSet, SumsUp
<1>2. SumsUp(f, S, G)
  <2>1. ASSUME NEW T \in SUBSET S
        PROVE  G[T] = IF T = {} THEN 0 ELSE LET x == CHOOSE x \in T : TRUE IN f[x] + G[T \ {x}]
    <3>1. CASE T = {}
      <4>1. Parted(N, part, T) = {}
        BY <3>1 DEF Parted
      <4> QED BY <3>1, <4>1, FS_EmptySet
    <3>2. CASE T # {}
      <4> DEFINE x == CHOOSE x \in T : TRUE
      <4>1. x \in T
        BY <3>2
      <4>2. T \ {x} \in SUBSET S
        OBVIOUS
      <4>3. f[x] = Cardinality(Parted(N, part, {x}))
        BY <4>1
      <4> HIDE DEF x
      <4>4. G[T] = f[x] + G[T \ {x}]
        BY <4>1, <4>2, <4>3, PartsAdd
      <4> QED BY <3>2, <4>4 DEF x
    <3> QED BY <3>1, <3>2
  <2> QED BY <2>1 DEF SumsUp
<1>3. SumsUp(f, S, it)
  BY <1>2
<1> HIDE DEF it, G
<1>4. ASSUME NEW T \in SUBSET S PROVE it[T] = G[T]
  <2> DEFINE Wrong == {X \in SUBSET S : it[X] # G[X]}
  <2> SUFFICES ASSUME Wrong # {} PROVE FALSE
    OBVIOUS
  <2>1. PICK A \in Wrong : \A B \in Wrong : B \subseteq A => B = A
    <3> HIDE DEF Wrong
    <3>1. Wrong \in SUBSET (SUBSET S)
      BY DEF Wrong
    <3> QED BY <3>1, SmallestSubset
  <2>2. it[A] = IF A = {} THEN 0 ELSE LET x == CHOOSE x \in A : TRUE IN f[x] + it[A \ {x}]
    BY <1>3 DEF SumsUp
  <2>3. G[A] = IF A = {} THEN 0 ELSE LET x == CHOOSE x \in A : TRUE IN f[x] + G[A \ {x}]
    BY <1>2 DEF SumsUp
  <2>4. A # {}
    BY <2>1, <2>2, <2>3
  <2> DEFINE x == CHOOSE x \in A : TRUE
  <2>5. x \in A
    BY <2>4
  <2> HIDE DEF x
  <2>6. A \ {x} \notin Wrong
    BY <2>1, <2>5
  <2>7. it[A \ {x}] = G[A \ {x}]
    BY <2>6
  <2> QED BY <2>1, <2>2, <2>3, <2>4, <2>7 DEF x
<1>5. it[S] = G[S]
  BY <1>4
<1> QED BY <1>1, <1>5 DEF G

\* The status of a meter is one of the three.
LEMMA StatusKnown == ASSUME NEW m PROVE StatusOf(m) \in Status
BY DEF StatusOf, Status

SiteOf   == [m \in Meter |-> meters[m].site]
StatusBy == [m \in Meter |-> StatusOf(m)]

\* The meters of sites without a position, and those of one status.
Lacking(S)    == {m \in In(S) : ~ meters[m].at}
Missed(S, st) == {m \in Lacking(S) : StatusOf(m) = st}

\* What the page adds up of the cells for "ALL": the meters of a status it has
\* no position of, and all of them.
LEMMA Totals ==
  ASSUME NEW A, NEW P \in SUBSET Site, P \subseteq A
  PROVE  LET w == [st \in Status |-> SumFunction([s \in P |-> MeterMap(A).unpositioned[<<s, st>>]])]
         IN /\ \A st \in Status : w[st] = Cardinality(Missed(P, st))
            /\ SumFunction(w) = Cardinality(Lacking(P))
<1> DEFINE f(st) == [s \in P |-> MeterMap(A).unpositioned[<<s, st>>]]
           w == [st \in Status |-> SumFunction(f(st))]
<1>1. IsFiniteSet(P) /\ IsFiniteSet(Lacking(P))
  BY FS_Subset, ViewAssumption DEF Lacking, In
<1>2. ASSUME NEW st \in Status
      PROVE  SumFunction(f(st)) = Cardinality(Missed(P, st))
  <2> DEFINE N == Missed(P, st)  F == f(st)
  <2>1. IsFiniteSet(N)
    BY <1>1, FS_Subset DEF Missed
  <2>2. ASSUME NEW s \in P PROVE F[s] = Cardinality(Parted(N, SiteOf, {s}))
    <3>1. MeterMap(A).unpositioned[<<s, st>>] =
            Cardinality({m \in In(A) \ {m \in In(A) : meters[m].at} : meters[m].site = s /\ StatusOf(m) = st})
      BY DEF MeterMap
    <3>2. {m \in In(A) \ {m \in In(A) : meters[m].at} : meters[m].site = s /\ StatusOf(m) = st}
            = Parted(N, SiteOf, {s})
      BY DEF Parted, Missed, Lacking, In, SiteOf
    <3> QED BY <3>1, <3>2
  <2>3. Parted(N, SiteOf, P) = N
    BY DEF Parted, Missed, Lacking, In, SiteOf
  <2>4. DOMAIN F = P
    OBVIOUS
  <2> HIDE DEF F, N
  <2>5. Tells(F, P, N, SiteOf)
    BY <1>1, <2>1, <2>2 DEF Tells
  <2>6. SumFunctionOnSet(F, P) = Cardinality(N)
    BY <2>3, <2>5, PartsSum
  <2> QED BY <2>4, <2>6 DEF SumFunction, F, N
<1>3. SumFunction(w) = Cardinality(Lacking(P))
  <2>1. IsFiniteSet(Status)
    <3>1. Status = {"connected"} \cup {"disconnected"} \cup {"never"}
      BY DEF Status
    <3> QED BY <3>1, FS_Singleton, FS_Union
  <2>2. ASSUME NEW st \in Status PROVE w[st] = Cardinality(Parted(Lacking(P), StatusBy, {st}))
    <3>1. Missed(P, st) = Parted(Lacking(P), StatusBy, {st})
      BY DEF Missed, Parted, StatusBy, Lacking, In
    <3> QED BY <1>2, <3>1
  <2>3. Parted(Lacking(P), StatusBy, Status) = Lacking(P)
    BY StatusKnown DEF Parted, StatusBy, Lacking, In
  <2>4. DOMAIN w = Status
    OBVIOUS
  <2> HIDE DEF w
  <2>5. Tells(w, Status, Lacking(P), StatusBy)
    BY <1>1, <2>1, <2>2 DEF Tells
  <2>6. SumFunctionOnSet(w, Status) = Cardinality(Lacking(P))
    BY <2>3, <2>5, PartsSum
  <2> QED BY <2>4, <2>6 DEF SumFunction
<1> QED BY <1>2, <1>3

LEMMA Meters ==
  ASSUME TreeInv, LoadedOK
  PROVE  DerivedMeters
<1> DEFINE A == covers["all"]  P == covers["page"]
<1> SUFFICES ASSUME loaded
             PROVE  /\ View.points = MeterMap(P).points
                    /\ View.summary = MeterMap(P).summary
  BY DEF DerivedMeters
<1>1. P \subseteq A /\ P \in SUBSET Site
  BY PageWithinAll DEF LoadedOK
<1>2. View = Derived(Gateways(A), MeterMap(A), P)
  BY DEF View
<1> HIDE DEF A, P
<1> DEFINE points == Points(A, P)
           w == [st \in Status |-> SumFunction([s \in P |-> MeterMap(A).unpositioned[<<s, st>>]])]
           there(st) == {m \in points : StatusOf(m) = st}
           count == [st \in Status |-> Cardinality(there(st)) + w[st]]
           all == [st \in Status |-> Cardinality({m \in In(P) : StatusOf(m) = st})]
<1>3. points = {m \in In(P) : meters[m].at}
  BY <1>1 DEF Points, In
<1>4. View.points = points
  BY <1>2, DerivedRows
<1>5. View.summary = Summary(count, Cardinality(points), SumFunction(w))
  <2>1. {m \in MeterMap(A).points : meters[m].site \in P} = points
    BY DEF MeterMap, Points
  <2> HIDE DEF points
  <2> QED BY <1>2, <2>1 DEF Derived
<1>6. /\ MeterMap(P).points = points
      /\ MeterMap(P).summary = Summary(all, Cardinality(points), Cardinality(In(P) \ points))
  BY <1>3 DEF MeterMap
<1>7. In(P) \ points = Lacking(P)
  BY <1>3 DEF Lacking
<1>8. (\A st \in Status : w[st] = Cardinality(Missed(P, st))) /\ SumFunction(w) = Cardinality(Lacking(P))
  BY <1>1, Totals
<1>9. ASSUME NEW st \in Status PROVE count[st] = all[st]
  <2> DEFINE T == there(st)  L == Missed(P, st)  both == {m \in In(P) : StatusOf(m) = st}
  <2>1. both = T \cup L /\ T \cap L = {}
    BY <1>3 DEF Missed, Lacking
  <2>2. IsFiniteSet(T) /\ IsFiniteSet(L)
    BY <1>3, FS_Subset, ViewAssumption DEF Missed, Lacking, In
  <2>3. count[st] = Cardinality(T) + Cardinality(L) /\ all[st] = Cardinality(both)
    <3> HIDE DEF w, points
    <3> QED BY <1>8
  <2> HIDE DEF T, L, both
  <2>4. Cardinality(T \cup L) = Cardinality(T) + Cardinality(L) - Cardinality(T \cap L)
    BY <2>2, FS_Union
  <2>5. Cardinality(T \cap L) = 0 /\ Cardinality(T) \in Nat /\ Cardinality(L) \in Nat
    BY <2>1, <2>2, FS_EmptySet, FS_CardinalityType
  <2>6. Cardinality(both) = Cardinality(T) + Cardinality(L)
    BY <2>1, <2>4, <2>5
  <2> HIDE DEF count, all
  <2> QED BY <2>3, <2>6
<1>10. count = all
  <2>1. DOMAIN count = Status /\ DOMAIN all = Status
    OBVIOUS
  <2>2. count = [st \in Status |-> count[st]] /\ all = [st \in Status |-> all[st]]
    OBVIOUS
  <2> HIDE DEF count, all
  <2> QED BY <1>9, <2>2
<1> HIDE DEF points, w, count, all
<1> QED BY <1>4, <1>5, <1>6, <1>7, <1>8, <1>10

-----------------------------------------------------------------------------
LEMMA LoadedSafe == Spec => []LoadedOK
<1>1. ViewInit => LoadedOK
  BY DEF ViewInit, LoadedOK
<1>2. LoadedOK /\ [Next]_vars => LoadedOK'
  BY DEF LoadedOK, Next, Load, Again, vars, treeVars
<1> QED BY <1>1, <1>2, PTL DEF Spec

\* The gateways and the numbers the page works out against the server's.
THEOREM GatewaysServed == Spec => []DerivedGateways
BY Lists, TreeSafe, LoadedSafe, PTL

\* The statuses the page works out against the server's.
THEOREM StatusesServed == Spec => []DerivedStatus
BY Statuses, TreeSafe, LoadedSafe, PTL

\* The meters the page draws of a site, and its totals, are the server's: what
\* it adds up of the cells for "ALL" is what the server counts.
THEOREM MetersServed == Spec => []DerivedMeters
BY Meters, TreeSafe, LoadedSafe, PTL


-----------------------------------------------------------------------------
(* The largest and the smallest of numbers, and what stands in an order.   *)

LEMMA MaxTwo ==
  ASSUME NEW a \in Int, NEW b \in Int
  PROVE  Max({a, b}) = IF a >= b THEN a ELSE b
<1> DEFINE m == IF a >= b THEN a ELSE b
<1>1. m \in {a, b} /\ \A y \in {a, b} : m >= y
  OBVIOUS
<1>2. \A x \in {a, b} : (\A y \in {a, b} : x >= y) => x = m
  OBVIOUS
<1> QED BY <1>1, <1>2 DEF Max

LEMMA MinTwo ==
  ASSUME NEW a \in Int, NEW b \in Int
  PROVE  Min({a, b}) = IF a <= b THEN a ELSE b
<1> DEFINE m == IF a <= b THEN a ELSE b
<1>1. m \in {a, b} /\ \A y \in {a, b} : m <= y
  OBVIOUS
<1>2. \A x \in {a, b} : (\A y \in {a, b} : x <= y) => x = m
  OBVIOUS
<1> QED BY <1>1, <1>2 DEF Min

\* Of finitely many sets of a finite set, one is a part of no other.
LEMMA LeastOf ==
  ASSUME NEW S, IsFiniteSet(S), S # {}, NEW G \in [S -> SUBSET S]
  PROVE  \E x \in S : \A y \in S : G[y] \subseteq G[x] => G[y] = G[x]
<1> DEFINE F == {G[x] : x \in S}
<1>0. IsFiniteSet(S)
  OBVIOUS
<1>1. F \in SUBSET (SUBSET S)
  OBVIOUS
<1>2. F # {}
  OBVIOUS
<1> HIDE DEF F
<1>3. \E A \in F : \A B \in F : B \subseteq A => B = A
  BY <1>0, <1>1, <1>2, SmallestSubset
<1> QED BY <1>3 DEF F

LEMMA MaxFound ==
  ASSUME NEW S, \A x \in S : x \in Int, IsFiniteSet(S), S # {}
  PROVE  Max(S) \in S /\ \A y \in S : y <= Max(S)
<1> DEFINE G == [x \in S |-> {y \in S : y >= x}]
<1>1. PICK x \in S : \A y \in S : G[y] \subseteq G[x] => G[y] = G[x]
  <2>1. G \in [S -> SUBSET S]
    OBVIOUS
  <2> HIDE DEF G
  <2> QED BY <2>1, LeastOf
<1>2. ASSUME NEW y \in S PROVE x >= y
  <2> SUFFICES ASSUME y > x PROVE FALSE
    OBVIOUS
  <2>1. \A z \in S : z >= y => z >= x
    OBVIOUS
  <2>2. x \in G[x] /\ x \notin G[y]
    OBVIOUS
  <2>3. G[y] \subseteq G[x]
    BY <2>1
  <2> QED BY <1>1, <2>2, <2>3
<1> QED BY <1>2 DEF Max

LEMMA MinFound ==
  ASSUME NEW S, \A x \in S : x \in Int, IsFiniteSet(S), S # {}
  PROVE  Min(S) \in S /\ \A y \in S : Min(S) <= y
<1> DEFINE G == [x \in S |-> {y \in S : y <= x}]
<1>1. PICK x \in S : \A y \in S : G[y] \subseteq G[x] => G[y] = G[x]
  <2>1. G \in [S -> SUBSET S]
    OBVIOUS
  <2> HIDE DEF G
  <2> QED BY <2>1, LeastOf
<1>2. ASSUME NEW y \in S PROVE x <= y
  <2> SUFFICES ASSUME y < x PROVE FALSE
    OBVIOUS
  <2>1. \A z \in S : z <= y => z <= x
    OBVIOUS
  <2>2. x \in G[x] /\ x \notin G[y]
    OBVIOUS
  <2>3. G[y] \subseteq G[x]
    BY <2>1
  <2> QED BY <1>1, <2>2, <2>3
<1> QED BY <1>2 DEF Min

\* B says of any two of S which one stands before the other.
Orders(B, S) ==
  /\ \A x \in S : <<x, x>> \notin B
  /\ \A x, y \in S : x # y => <<x, y>> \in B \/ <<y, x>> \in B
  /\ \A x, y, z \in S : <<x, y>> \in B /\ <<y, z>> \in B => <<x, z>> \in B

Ahead(S, B, x) == {y \in S : <<y, x>> \in B}

LEMMA RankedApart ==
  ASSUME NEW S, IsFiniteSet(S), NEW B, Orders(B, S)
  PROVE  /\ Cardinality(S) \in Nat
         /\ \A x \in S : Cardinality(Ahead(S, B, x)) \in 0 .. (Cardinality(S) - 1)
         /\ \A x, y \in S : <<x, y>> \in B => Cardinality(Ahead(S, B, x)) < Cardinality(Ahead(S, B, y))
         /\ \A k \in 1 .. Cardinality(S) : \E x \in S : Cardinality(Ahead(S, B, x)) = k - 1
<1> DEFINE m == Cardinality(S)
           r(x) == Cardinality(Ahead(S, B, x))
<1>1. m \in Nat
  BY FS_CardinalityType
<1>2. ASSUME NEW x \in S
      PROVE  IsFiniteSet(Ahead(S, B, x)) /\ r(x) \in Nat /\ r(x) < m
  <2> DEFINE a == Ahead(S, B, x)
  <2>1. a \in SUBSET S /\ x \notin a
    BY DEF Ahead, Orders
  <2> HIDE DEF a
  <2>2. IsFiniteSet(a) /\ Cardinality(a) <= m /\ Cardinality(a) # m
    BY <2>1, FS_Subset
  <2>3. Cardinality(a) \in Nat
    BY <2>2, FS_CardinalityType
  <2> QED BY <1>1, <2>2, <2>3 DEF a
<1>3. ASSUME NEW x \in S, NEW y \in S, <<x, y>> \in B
      PROVE  r(x) < r(y)
  <2> DEFINE a == Ahead(S, B, x)
             b == Ahead(S, B, y)
  <2>1. a \in SUBSET b
    BY <1>3 DEF Ahead, Orders
  <2>2. x \in b /\ x \notin a
    BY <1>3 DEF Ahead, Orders
  <2>3. IsFiniteSet(b) /\ Cardinality(b) \in Nat /\ Cardinality(a) \in Nat
    BY <1>2
  <2> HIDE DEF a, b
  <2>4. Cardinality(a) <= Cardinality(b) /\ Cardinality(a) # Cardinality(b)
    BY <2>1, <2>2, <2>3, FS_Subset
  <2>5. Cardinality(a) < Cardinality(b)
    BY <2>3, <2>4
  <2> QED BY <2>5 DEF a, b
<1> DEFINE f == [x \in S |-> r(x)]
<1>4. f \in [S -> 0 .. (m - 1)] /\ \A x \in S : f[x] = r(x)
  BY <1>1, <1>2
<1>5. ASSUME NEW x \in S, NEW y \in S, r(x) = r(y)
      PROVE  x = y
  <2>1. ~ (r(x) < r(y)) /\ ~ (r(y) < r(x))
    BY <1>2, <1>5
  <2> HIDE DEF r
  <2> QED BY <1>3, <2>1 DEF Orders
<1> HIDE DEF f, r, m
<1>6. f \in Injection(S, 0 .. (m - 1))
  BY <1>4, <1>5 DEF Injection, IsInjective
<1>7. IsFiniteSet(0 .. (m - 1)) /\ Cardinality(0 .. (m - 1)) = m
  BY <1>1, FS_Interval
<1>8. f \in Surjection(S, 0 .. (m - 1))
  BY <1>6, <1>7, FS_Injection DEF m
<1>9. ASSUME NEW k \in 1 .. m
      PROVE  \E x \in S : r(x) = k - 1
  <2>1. k - 1 \in 0 .. (m - 1)
    BY <1>1
  <2> QED BY <1>4, <1>8, <2>1 DEF Surjection
<1>10. \A x \in S : r(x) \in 0 .. (m - 1)
  BY <1>4
<1> QED BY <1>1, <1>3, <1>9, <1>10 DEF r, m

LEMMA InOrder ==
  ASSUME NEW S, IsFiniteSet(S), NEW B, Orders(B, S)
  PROVE  /\ Len(OrderedBy(S, B)) = Cardinality(S) /\ Cardinality(S) \in Nat
         /\ DOMAIN OrderedBy(S, B) = 1 .. Cardinality(S)
         /\ OrderedBy(S, B) \in Seq(S)
         /\ {OrderedBy(S, B)[i] : i \in DOMAIN OrderedBy(S, B)} = S
         /\ \A i, j \in DOMAIN OrderedBy(S, B) :
              i < j => <<OrderedBy(S, B)[i], OrderedBy(S, B)[j]>> \in B
<1> DEFINE m == Cardinality(S)
           r(x) == Cardinality(Ahead(S, B, x))
           q == OrderedBy(S, B)
<1>1. /\ m \in Nat
      /\ \A x \in S : r(x) \in 0 .. (m - 1)
      /\ \A x, y \in S : <<x, y>> \in B => r(x) < r(y)
      /\ \A k \in 1 .. m : \E x \in S : r(x) = k - 1
  BY RankedApart
<1>2. q = [k \in 1 .. m |-> CHOOSE x \in S : r(x) = k - 1]
  BY DEF OrderedBy, Ahead
<1> HIDE DEF r, q
<1>3. \A k \in 1 .. m : q[k] \in S /\ r(q[k]) = k - 1
  BY <1>1, <1>2
<1> HIDE DEF m
<1>4. DOMAIN q = 1 .. m /\ q \in [1 .. m -> S]
  BY <1>2, <1>3
<1>5. Len(q) = m /\ q \in Seq(S)
  BY <1>1, <1>4
<1>6. ASSUME NEW i \in 1 .. m, NEW j \in 1 .. m, i < j
      PROVE  <<q[i], q[j]>> \in B
  <2>1. r(q[i]) = i - 1 /\ r(q[j]) = j - 1 /\ q[i] \in S /\ q[j] \in S
    BY <1>3
  <2>2. ~ (r(q[j]) < r(q[i])) /\ q[i] # q[j]
    BY <1>1, <1>6, <2>1
  <2> QED BY <1>1, <2>1, <2>2 DEF Orders
<1>7. ASSUME NEW x \in S
      PROVE  \E k \in 1 .. m : q[k] = x
  <2> DEFINE k == r(x) + 1
  <2>1. k \in 1 .. m /\ r(x) = k - 1
    BY <1>1
  <2>2. q[k] \in S /\ r(q[k]) = r(x)
    BY <1>3, <2>1
  <2>3. q[k] = x
    <3> SUFFICES ASSUME q[k] # x PROVE FALSE
      OBVIOUS
    <3>1. <<q[k], x>> \in B \/ <<x, q[k]>> \in B
      BY <2>2 DEF Orders
    <3>2. r(q[k]) < r(x) \/ r(x) < r(q[k])
      BY <1>1, <2>2, <3>1
    <3>3. r(x) \in Int
      BY <1>1
    <3> QED BY <2>2, <3>2, <3>3
  <2> QED BY <2>1, <2>3
<1> QED BY <1>1, <1>3, <1>4, <1>5, <1>6, <1>7 DEF m, q

\* What a function makes of a finite set.
LEMMA ImageIs ==
  ASSUME NEW S, IsFiniteSet(S), NEW f, DOMAIN f = S, f = [x \in S |-> f[x]]
  PROVE  /\ IsFiniteSet({f[x] : x \in S}) /\ Cardinality({f[x] : x \in S}) <= Cardinality(S)
         /\ Cardinality({f[x] : x \in S}) = Cardinality(S)
              <=> \A x, y \in S : f[x] = f[y] => x = y
<1> DEFINE T == {f[x] : x \in S}
<1>1. f \in [S -> T]
  OBVIOUS
<1>2. \A y \in T : \E x \in S : f[x] = y
  OBVIOUS
<1>3. f \in Surjection(S, T)
  <2> HIDE DEF T
  <2> QED BY <1>1, <1>2 DEF Surjection
<1> HIDE DEF T
<1>4. /\ IsFiniteSet(T) /\ Cardinality(T) <= Cardinality(S)
      /\ Cardinality(T) = Cardinality(S) <=> f \in Injection(S, T)
  BY <1>3, FS_Surjection
<1>5. f \in Injection(S, T) <=> \A x, y \in S : f[x] = f[y] => x = y
  BY <1>1 DEF Injection, IsInjective
<1> QED BY <1>4, <1>5 DEF T

-----------------------------------------------------------------------------
(* Moments and days.                                                       *)

LEMMA TicksGrow ==
  ASSUME NEW a \in Int, NEW b \in Int, a <= b
  PROVE  a * TicksPerDay \in Int /\ b * TicksPerDay \in Int /\ a * TicksPerDay <= b * TicksPerDay
<1>1. PICK k \in Nat : b = a + k
  <2>1. b - a \in Nat /\ b = a + (b - a)
    OBVIOUS
  <2> QED BY <2>1
<1>2. TicksPerDay \in Nat
  BY ConnectivityAssumption
<1>3. (a + k) * TicksPerDay = a * TicksPerDay + k * TicksPerDay
  BY <1>2
<1>4. k * TicksPerDay \in Nat /\ a * TicksPerDay \in Int
  BY <1>2
<1> QED BY <1>1, <1>3, <1>4

LEMMA DayIs ==
  ASSUME NEW t \in Nat \ {0}, NEW d \in Int
  PROVE  /\ DayOf(t) \in Nat \ {0} /\ LastTick(d) \in Int
         /\ DayOf(t) <= d <=> t <= LastTick(d)
<1> DEFINE q == (t - 1) \div TicksPerDay
<1>1. TicksPerDay \in Nat \ {0}
  BY ConnectivityAssumption
<1>2. q \in Nat /\ q * TicksPerDay <= t - 1 /\ t - 1 < q * TicksPerDay + TicksPerDay
  BY <1>1
<1>3. DayOf(t) = q + 1 /\ LastTick(d) = d * TicksPerDay
  BY DEF DayOf, LastTick
<1> HIDE DEF q
<1>4. (q + 1) * TicksPerDay = q * TicksPerDay + TicksPerDay
  BY <1>1, <1>2
<1>5. ASSUME q + 1 <= d PROVE t <= d * TicksPerDay
  <2>1. (q + 1) * TicksPerDay <= d * TicksPerDay /\ d * TicksPerDay \in Int
    BY <1>2, <1>5, TicksGrow
  <2> QED BY <1>1, <1>2, <1>4, <2>1
<1>6. ASSUME ~ (q + 1 <= d) PROVE ~ (t <= d * TicksPerDay)
  <2>1. d <= q
    BY <1>2, <1>6
  <2>2. d * TicksPerDay <= q * TicksPerDay /\ d * TicksPerDay \in Int /\ q * TicksPerDay \in Int
    BY <1>2, <2>1, TicksGrow
  <2> QED BY <1>2, <2>2
<1>7. d * TicksPerDay \in Int
  BY <1>1
<1> QED BY <1>2, <1>3, <1>5, <1>6, <1>7

LEMMA DaysGrow ==
  ASSUME NEW a \in Nat \ {0}, NEW b \in Nat \ {0}, a <= b
  PROVE  DayOf(a) <= DayOf(b)
<1>1. DayOf(b) \in Nat /\ DayOf(a) \in Nat /\ LastTick(DayOf(b)) \in Int
  BY DayIs
<1>2. b <= LastTick(DayOf(b))
  BY <1>1, DayIs
<1> QED BY <1>1, <1>2, DayIs

LEMMA DaysApart ==
  ASSUME NEW a \in Int, NEW b \in Int
  PROVE  LastTick(a) \in Int /\ LastTick(b) \in Int /\ (a <= b => LastTick(a) <= LastTick(b))
         /\ (a < b => LastTick(a) < LastTick(b))
<1>1. TicksPerDay \in Nat \ {0}
  BY ConnectivityAssumption
<1>2. ASSUME a < b PROVE a * TicksPerDay < b * TicksPerDay
  <2>1. (a + 1) * TicksPerDay <= b * TicksPerDay /\ b * TicksPerDay \in Int
    BY <1>2, TicksGrow
  <2>2. (a + 1) * TicksPerDay = a * TicksPerDay + TicksPerDay /\ a * TicksPerDay \in Int
    BY <1>1
  <2> QED BY <1>1, <2>1, <2>2
<1> QED BY <1>2, TicksGrow DEF LastTick

\* The days of a range.
AnyRange == [from : Int, to : Int]

LEMMA WithinIs ==
  ASSUME NEW t \in Nat \ {0}, NEW r \in AnyRange
  PROVE  /\ FirstTick(r) \in Int /\ LastTick(r.to) \in Int
         /\ Within(DayOf(t), r) <=> FirstTick(r) <= t /\ t <= LastTick(r.to)
<1>1. r.from \in Int /\ r.to \in Int /\ r.from - 1 \in Int
  BY DEF AnyRange
<1>2. /\ DayOf(t) \in Nat \ {0} /\ LastTick(r.to) \in Int /\ LastTick(r.from - 1) \in Int
      /\ DayOf(t) <= r.to <=> t <= LastTick(r.to)
      /\ DayOf(t) <= r.from - 1 <=> t <= LastTick(r.from - 1)
  BY <1>1, DayIs
<1> QED BY <1>1, <1>2 DEF Within, FirstTick

-----------------------------------------------------------------------------
(* Ranges that the server answers.                                         *)

LEMMA ConstantsAre ==
  /\ TicksPerDay \in Nat \ {0} /\ DataFrom \in Nat \ {0} /\ MaxRangeDays \in Nat \ {0}
  /\ LastMoment \in Nat /\ LastMoment > LastTick(DataFrom - 1)
  /\ 1 \in Preset /\ \A p \in Preset : PresetDays[p] \in 1 .. MaxRangeDays
BY ConnectivityAssumption DEF LastTick, Preset

Answered(r) == r \in AnyRange /\ Accepted(r)

LEMMA PresetAnswered ==
  ASSUME NEW p \in Preset, NEW day \in Int, day >= DataFrom
  PROVE  Answered(PresetRange(p, day)) /\ PresetRange(p, day).to = day
         /\ PresetRange(p, day).from = IF DataFrom >= day + 1 - PresetDays[p] THEN DataFrom
                                       ELSE day + 1 - PresetDays[p]
<1>1. PresetDays[p] \in 1 .. MaxRangeDays /\ DataFrom \in Nat \ {0} /\ MaxRangeDays \in Nat
  BY ConstantsAre
<1> DEFINE a == day + 1 - PresetDays[p]
<1>2. a \in Int /\ Max({DataFrom, a}) = IF DataFrom >= a THEN DataFrom ELSE a
  BY <1>1, MaxTwo
<1>3. PresetRange(p, day) = [from |-> Max({DataFrom, a}), to |-> day]
  BY DEF PresetRange
<1> HIDE DEF a
<1>4. PresetRange(p, day) = [from |-> IF DataFrom >= a THEN DataFrom ELSE a, to |-> day]
  BY <1>2, <1>3
<1>5. a <= day /\ day - a + 1 <= MaxRangeDays
  BY <1>1 DEF a
<1> QED BY <1>1, <1>2, <1>4, <1>5 DEF Answered, AnyRange, Accepted, DaysIn, a

AnyUrl == {PresetUrl(p) : p \in Preset} \cup AnyRange

LEMMA UrlAny == Url \subseteq AnyUrl
BY FleetAssumption DEF Url, AnyUrl, AnyRange, Days

LEMMA UrlAnswered ==
  ASSUME NEW u \in AnyUrl, NEW day \in Int, day >= DataFrom
  PROVE  Answered(RangeFromParams(u, day))
<1>0. Answered(PresetRange(1, day))
  BY PresetAnswered, ConstantsAre
<1>1. CASE u \in AnyRange
  <2>1. u.from \in Int /\ u.to \in Int /\ "preset" \notin DOMAIN u
    BY <1>1 DEF AnyRange
  <2>2. CASE Usable(u)
    <3> DEFINE m == Max({u.from, DataFrom})
    <3>1. m = IF u.from >= DataFrom THEN u.from ELSE DataFrom
      BY <2>1, ConstantsAre, MaxTwo
    <3>2. RangeFromParams(u, day) = [u EXCEPT !.from = m]
      BY <2>1, <2>2 DEF RangeFromParams
    <3> HIDE DEF m
    <3>3. [u EXCEPT !.from = m] = [from |-> m, to |-> u.to]
      BY <1>1 DEF AnyRange
    <3> QED BY <2>1, <2>2, <3>1, <3>2, <3>3, ConstantsAre DEF Usable, Answered, AnyRange, Accepted, DaysIn
  <2>3. CASE ~Usable(u)
    BY <1>0, <2>1, <2>3 DEF RangeFromParams
  <2> QED BY <2>2, <2>3
<1>2. ASSUME NEW p \in Preset, u = PresetUrl(p)
      PROVE  Answered(RangeFromParams(u, day))
  <2>1. "preset" \in DOMAIN u /\ u.preset = p
    BY <1>2 DEF PresetUrl
  <2> QED BY <2>1, PresetAnswered DEF RangeFromParams
<1> QED BY <1>1, <1>2 DEF AnyUrl

LEMMA PresetsFinite ==
  ASSUME NEW r, NEW day
  PROVE  IsFiniteSet(Presets(r, day)) /\ Presets(r, day) \subseteq Preset /\ \A p \in Presets(r, day) : p \in Int
<1>1. Preset = 1 .. Len(PresetDays) /\ Len(PresetDays) \in Nat
  BY ConnectivityAssumption DEF Preset
<1>2. IsFiniteSet(Preset)
  BY <1>1, FS_Interval
<1>3. Presets(r, day) \in SUBSET Preset
  BY DEF Presets
<1> QED BY <1>1, <1>2, <1>3, FS_Subset

LEMMA PresetsMade ==
  ASSUME NEW day
  PROVE  IsFiniteSet({PresetRange(p, day) : p \in Preset})
<1> DEFINE P == {PresetRange(p, day) : p \in Preset}
           f == [p \in Preset |-> PresetRange(p, day)]
<1>1. Preset = 1 .. Len(PresetDays) /\ Len(PresetDays) \in Nat
  BY ConnectivityAssumption DEF Preset
<1>2. IsFiniteSet(Preset)
  BY <1>1, FS_Interval
<1>3. DOMAIN f = Preset /\ f = [p \in Preset |-> f[p]] /\ P = {f[p] : p \in Preset}
  OBVIOUS
<1> HIDE DEF f, P
<1>4. IsFiniteSet(P)
  BY <1>2, <1>3, ImageIs
<1> QED BY <1>4 DEF P

LEMMA PresetOfIs ==
  ASSUME NEW r, NEW day, Presets(r, day) # {}
  PROVE  PresetOf(r, day) \in Preset /\ PresetRange(PresetOf(r, day), day) = r
<1>1. Min(Presets(r, day)) \in Presets(r, day)
  BY PresetsFinite, MinFound
<1> QED BY <1>1 DEF PresetOf, Presets

LEMMA ParamsAny ==
  ASSUME NEW r \in AnyRange, NEW day
  PROVE  RangeToParams(r, day) \in AnyUrl
BY PresetOfIs DEF RangeToParams, AnyUrl

-----------------------------------------------------------------------------
(* A load that keeps itself fresh.                                         *)
KeptLoad(K) == [key : K, data : {NoData} \cup Moment, error : BOOLEAN]
FreshLoad(K) ==
  [on : BOOLEAN, key : K, out : SUBSET Moment, refreshing : BOOLEAN, kept : KeptLoad(K)]

LEMMA LoadingIs ==
  ASSUME NEW K, NEW key \in K, time \in Moment
  PROVE  Loading(key) \in FreshLoad(K) /\ Loading(key).key = key /\ Loading(key).on
<1>1. [key |-> key, data |-> NoData, error |-> FALSE] \in KeptLoad(K)
  BY DEF KeptLoad
<1>2. {time} \in SUBSET Moment
  OBVIOUS
<1> QED BY <1>1, <1>2 DEF Loading, FreshLoad

SwitchedOff(key) == [Loading(key) EXCEPT !.on = FALSE, !.out = {}, !.refreshing = FALSE]

LEMMA SwitchedOffIs ==
  ASSUME NEW K, NEW key \in K, time \in Moment
  PROVE  SwitchedOff(key) \in FreshLoad(K) /\ SwitchedOff(key).key = key /\ SwitchedOff(key).on = FALSE
<1> DEFINE h == Loading(key)
<1>1. h \in FreshLoad(K) /\ h.key = key
  BY LoadingIs
<1> HIDE DEF h
<1>2. {} \in SUBSET Moment /\ FALSE \in BOOLEAN
  OBVIOUS
<1>3. SwitchedOff(key) = [h EXCEPT !.on = FALSE, !.out = {}, !.refreshing = FALSE]
  BY DEF SwitchedOff, h
<1>4. SwitchedOff(key) \in FreshLoad(K)
  BY <1>1, <1>2, <1>3 DEF FreshLoad
<1>5. SwitchedOff(key).key = key
  BY <1>1, <1>3 DEF FreshLoad
<1>6. SwitchedOff(key).on = FALSE
  BY <1>1, <1>3 DEF FreshLoad
<1> QED BY <1>4, <1>5, <1>6

LEMMA RequestedIs ==
  ASSUME NEW K, NEW h \in FreshLoad(K), time \in Moment
  PROVE  /\ Requested(h) \in FreshLoad(K) /\ Requested(h).key = h.key /\ Requested(h).on = h.on
         /\ Requested(h).kept = h.kept
<1>1. h.out \cup {time} \in SUBSET Moment /\ TRUE \in BOOLEAN
  BY DEF FreshLoad
<1>2. Requested(h) \in FreshLoad(K)
  BY <1>1 DEF Requested, FreshLoad
<1>3. Requested(h).key = h.key
  BY DEF Requested, FreshLoad
<1>4. Requested(h).on = h.on
  BY DEF Requested, FreshLoad
<1>5. Requested(h).kept = h.kept
  BY DEF Requested, FreshLoad
<1> QED BY <1>2, <1>3, <1>4, <1>5

LEMMA EffectIs ==
  ASSUME NEW K, NEW h \in FreshLoad(K), NEW key \in K, NEW on \in BOOLEAN, time \in Moment
  PROVE  /\ Effect(h, key, on) \in FreshLoad(K)
         /\ Effect(h, key, on).key = key /\ Effect(h, key, on).on = on
         /\ Effect(h, key, on).kept = h.kept
<1> DEFINE ended == [h EXCEPT !.key = key, !.on = on, !.out = {}]
<1>0. {} \in SUBSET Moment
  OBVIOUS
<1>1. ended \in FreshLoad(K)
  BY <1>0 DEF FreshLoad
<1>2. ended.key = key
  BY DEF FreshLoad
<1>3. ended.on = on
  BY DEF FreshLoad
<1>4. ended.kept = h.kept
  BY DEF FreshLoad
<1>5. Effect(h, key, on) = IF h.key = key /\ h.on = on THEN h
                           ELSE IF on THEN Requested(ended) ELSE ended
  BY DEF Effect
<1> HIDE DEF ended
<1>6. /\ Requested(ended) \in FreshLoad(K) /\ Requested(ended).key = key /\ Requested(ended).on = on
      /\ Requested(ended).kept = h.kept
  BY <1>1, <1>2, <1>3, <1>4, RequestedIs
<1>7. CASE h.key = key /\ h.on = on
  BY <1>5, <1>7
<1>8. CASE ~ (h.key = key /\ h.on = on) /\ on
  BY <1>5, <1>6, <1>8
<1>9. CASE ~ (h.key = key /\ h.on = on) /\ ~on
  BY <1>5, <1>1, <1>2, <1>3, <1>4, <1>9
<1> QED BY <1>7, <1>8, <1>9

LEMMA LandedIs ==
  ASSUME NEW K, NEW h \in FreshLoad(K), NEW asked, NEW at \in Moment
  PROVE  /\ Landed(h, asked, at) \in FreshLoad(K)
         /\ Landed(h, asked, at).key = h.key /\ Landed(h, asked, at).on = h.on
         /\ Landed(h, asked, at).kept.data = at
<1> DEFINE k == [key |-> h.key, data |-> at, error |-> FALSE]
<1>1. k \in KeptLoad(K) /\ k.data = at
  BY DEF KeptLoad, FreshLoad
<1>2. h.out \ {asked} \in SUBSET Moment
  BY DEF FreshLoad
<1>3. Landed(h, asked, at) = [h EXCEPT !.out = @ \ {asked}, !.refreshing = FALSE, !.kept = k]
  BY DEF Landed
<1> HIDE DEF k
<1>4. Landed(h, asked, at) \in FreshLoad(K)
  BY <1>1, <1>2, <1>3 DEF FreshLoad
<1>5. Landed(h, asked, at).key = h.key
  BY <1>3 DEF FreshLoad
<1>6. Landed(h, asked, at).on = h.on
  BY <1>3 DEF FreshLoad
<1>7. Landed(h, asked, at).kept = k
  BY <1>3 DEF FreshLoad
<1> QED BY <1>1, <1>4, <1>5, <1>6, <1>7

LEMMA FailedIs ==
  ASSUME NEW K, NEW h \in FreshLoad(K), NEW asked
  PROVE  /\ StatusFailed(h, asked) \in FreshLoad(K)
         /\ StatusFailed(h, asked).key = h.key /\ StatusFailed(h, asked).on = h.on
<1> DEFINE k == [key |-> h.key, error |-> TRUE,
                 data |-> IF h.kept.key = h.key THEN h.kept.data ELSE NoData]
<1>0. h.key \in K /\ h.kept \in KeptLoad(K)
  BY DEF FreshLoad
<1>1. k \in KeptLoad(K)
  BY <1>0 DEF KeptLoad
<1>2. h.out \ {asked} \in SUBSET Moment
  BY DEF FreshLoad
<1>3. StatusFailed(h, asked) = [h EXCEPT !.out = @ \ {asked}, !.refreshing = FALSE, !.kept = k]
  BY DEF StatusFailed
<1> HIDE DEF k
<1>4. StatusFailed(h, asked) \in FreshLoad(K)
  BY <1>1, <1>2, <1>3 DEF FreshLoad
<1>5. StatusFailed(h, asked).key = h.key
  BY <1>3 DEF FreshLoad
<1>6. StatusFailed(h, asked).on = h.on
  BY <1>3 DEF FreshLoad
<1> QED BY <1>4, <1>5, <1>6

LEMMA AskAgainIs ==
  ASSUME NEW K, NEW h \in FreshLoad(K), time \in Moment
  PROVE  AskAgain(h) \in FreshLoad(K) /\ AskAgain(h).key = h.key /\ AskAgain(h).on = h.on
<1> DEFINE e == [h EXCEPT !.out = {}]
<1>0. {} \in SUBSET Moment
  OBVIOUS
<1>1. e \in FreshLoad(K)
  BY <1>0 DEF FreshLoad
<1>2. e.key = h.key
  BY DEF FreshLoad
<1>3. e.on = h.on
  BY DEF FreshLoad
<1>4. AskAgain(h) = IF h.on THEN Requested(e) ELSE h
  BY DEF AskAgain
<1> HIDE DEF e
<1>5. Requested(e) \in FreshLoad(K) /\ Requested(e).key = h.key /\ Requested(e).on = h.on
  BY <1>1, <1>2, <1>3, RequestedIs
<1> QED BY <1>4, <1>5

LEMMA AnswersInTime ==
  ASSUME NEW K, NEW h \in FreshLoad(K), NEW asked \in h.out, time \in Moment, NEW at \in asked .. time
  PROVE  at \in Moment
<1>1. asked \in Moment
  BY DEF FreshLoad
<1>2. LastMoment \in Nat
  BY ConstantsAre
<1> QED BY <1>1, <1>2 DEF Moment

-----------------------------------------------------------------------------
(* The page of the status.                                                 *)

\* The clock shows a day of the data.
ClockInv == time \in Moment /\ time > LastTick(DataFrom - 1)

StatusInv ==
  /\ ClockInv
  /\ Answered(range)
  /\ today \in Int /\ today >= DataFrom
  /\ bundle \in FreshLoad(Int) /\ bundle.on = TRUE /\ bundle.key = today
  /\ custom \in FreshLoad(AnyRange) /\ custom.key = range
  /\ custom.on = (Presets(range, today) = {})

LEMMA ClockDay ==
  ASSUME ClockInv
  PROVE  time \in Nat \ {0} /\ DayOf(time) \in Int /\ DayOf(time) >= DataFrom
<1>1. time \in Nat \ {0} /\ DataFrom \in Nat /\ DataFrom - 1 \in Int
  BY ConstantsAre DEF ClockInv, Moment
<1>2. /\ DayOf(time) \in Nat \ {0} /\ LastTick(DataFrom - 1) \in Int
      /\ DayOf(time) <= DataFrom - 1 <=> time <= LastTick(DataFrom - 1)
  BY <1>1, DayIs
<1> QED BY <1>1, <1>2 DEF ClockInv

LEMMA ClockFirst ==
  ASSUME time = LastTick(DataFrom - 1) + 1
  PROVE  ClockInv
<1>1. LastTick(DataFrom - 1) \in Nat
  <2>1. DataFrom - 1 \in Nat /\ TicksPerDay \in Nat
    BY ConstantsAre
  <2> QED BY <2>1 DEF LastTick
<1> QED BY <1>1, ConstantsAre DEF ClockInv, Moment

LEMMA ClockKept ==
  ASSUME ClockInv, time' = time \/ (time < LastMoment /\ time' = time + 1)
  PROVE  ClockInv'
<1>1. time \in Nat \ {0} /\ time <= LastMoment /\ LastMoment \in Nat /\ LastTick(DataFrom - 1) \in Int
  <2>1. DataFrom - 1 \in Int
    BY ConstantsAre
  <2> QED BY <2>1, ClockDay, DaysApart, ConstantsAre DEF ClockInv, Moment
<1> QED BY <1>1 DEF ClockInv, Moment

LEMMA RenderKeeps ==
  ASSUME ClockInv, time' = time, NEW r, Answered(r),
         NEW b \in FreshLoad(Int), NEW c \in FreshLoad(AnyRange), Render(r, b, c)
  PROVE  StatusInv'
<1> DEFINE day == DayOf(time)
           on == Presets(r, day) = {}
           yes == TRUE
           Date == Int
<1>1. day \in Int /\ day >= DataFrom
  BY ClockDay
<1>2. range' = r /\ today' = day /\ bundle' = Effect(b, day, yes) /\ custom' = Effect(c, r, on)
  BY DEF Render
<1>10. yes \in BOOLEAN /\ b \in FreshLoad(Date)
  OBVIOUS
<1>12. yes = TRUE
  OBVIOUS
<1>11. day \in Date
  BY <1>1
<1>3. time \in Moment /\ r \in AnyRange /\ on \in BOOLEAN
  BY DEF ClockInv, Answered
<1>5. on = (Presets(range', today') = {})
  BY <1>2
<1> HIDE DEF day, on, yes, Date
<1>9. /\ Effect(b, day, yes) \in FreshLoad(Date) /\ Effect(b, day, yes).key = day
      /\ Effect(b, day, yes).on = yes
  BY <1>3, <1>10, <1>11, EffectIs
<1>4. bundle' \in FreshLoad(Int) /\ bundle'.on = TRUE /\ bundle'.key = today'
  BY <1>2, <1>9, <1>12 DEF Date
<1>6. custom' \in FreshLoad(AnyRange) /\ custom'.key = range' /\ custom'.on = on
  BY <1>2, <1>3, EffectIs
<1>7. ClockInv'
  BY DEF ClockInv
<1>8. Answered(range') /\ today' \in Int /\ today' >= DataFrom
  BY <1>1, <1>2
<1> QED BY <1>4, <1>5, <1>6, <1>7, <1>8 DEF StatusInv

LEMMA StatusInitially == StatusInit => StatusInv
<1> SUFFICES ASSUME StatusInit PROVE StatusInv
  OBVIOUS
<1>1. ClockInv
  BY ClockFirst DEF StatusInit
<1>2. DayOf(time) \in Int /\ DayOf(time) >= DataFrom /\ today = DayOf(time) /\ time \in Moment
  BY <1>1, ClockDay DEF StatusInit, ClockInv
<1>3. Answered(range)
  BY <1>2, UrlAny, UrlAnswered DEF StatusInit
<1>4. bundle \in FreshLoad(Int) /\ bundle.on = TRUE /\ bundle.key = today
  <2>1. bundle = Loading(today) /\ Loading(today) \in FreshLoad(Int) /\ Loading(today).key = today
    BY <1>2, LoadingIs DEF StatusInit
  <2>2. Loading(today).on = TRUE
    BY DEF Loading
  <2> QED BY <2>1, <2>2
<1>5. CASE Presets(range, today) = {}
  <2>1. range \in AnyRange
    BY <1>3 DEF Answered
  <2>2. custom = Loading(range) /\ Loading(range) \in FreshLoad(AnyRange) /\ Loading(range).key = range
    BY <1>2, <1>5, <2>1, LoadingIs DEF StatusInit
  <2>3. Loading(range).on = TRUE
    BY DEF Loading
  <2>4. custom.on = (Presets(range, today) = {})
    BY <1>5, <2>2, <2>3
  <2> QED BY <1>1, <1>2, <1>3, <1>4, <2>2, <2>4 DEF StatusInv
<1>6. CASE Presets(range, today) # {}
  <2>1. range \in AnyRange
    BY <1>3 DEF Answered
  <2>2. custom = SwitchedOff(range)
    BY <1>6 DEF StatusInit, SwitchedOff
  <2>3. custom \in FreshLoad(AnyRange) /\ custom.key = range /\ custom.on = FALSE
    BY <1>2, <2>1, <2>2, SwitchedOffIs
  <2>4. custom.on = (Presets(range, today) = {})
    BY <1>6, <2>3
  <2> QED BY <1>1, <1>2, <1>3, <1>4, <2>3, <2>4 DEF StatusInv
<1> QED BY <1>5, <1>6

LEMMA RefreshesKeep ==
  ASSUME StatusInv, RefreshBundle \/ RefreshCustom
  PROVE  StatusInv'
<1>1. /\ ClockInv /\ time \in Moment /\ Answered(range)
      /\ bundle \in FreshLoad(Int) /\ custom \in FreshLoad(AnyRange)
      /\ time' = time
  BY DEF StatusInv, ClockInv, RefreshBundle, RefreshCustom
<1>2. /\ Requested(bundle) \in FreshLoad(Int) /\ Requested(bundle).key = bundle.key
      /\ Requested(bundle).on = bundle.on
      /\ Requested(custom) \in FreshLoad(AnyRange) /\ Requested(custom).key = custom.key
      /\ Requested(custom).on = custom.on
  BY <1>1, RequestedIs
<1>3. CASE Render(range, Requested(bundle), custom) \/ Render(range, bundle, Requested(custom))
  BY <1>1, <1>2, <1>3, RenderKeeps
<1>4. CASE /\ bundle' \in {bundle, Requested(bundle)} /\ custom' \in {custom, Requested(custom)}
           /\ UNCHANGED <<time, range, today>>
  <2>1. bundle' \in FreshLoad(Int) /\ bundle'.key = bundle.key /\ bundle'.on = bundle.on
    BY <1>1, <1>2, <1>4
  <2>2. custom' \in FreshLoad(AnyRange) /\ custom'.key = custom.key /\ custom'.on = custom.on
    BY <1>1, <1>2, <1>4
  <2>3. ClockInv' /\ range' = range /\ today' = today
    BY <1>1, <1>4 DEF ClockInv
  <2> QED BY <2>1, <2>2, <2>3 DEF StatusInv
<1> QED BY <1>3, <1>4 DEF RefreshBundle, RefreshCustom

LEMMA AnswersKeep ==
  ASSUME StatusInv, AnswerBundle \/ AnswerCustom
  PROVE  StatusInv'
<1>1. /\ ClockInv /\ time \in Moment /\ Answered(range)
      /\ bundle \in FreshLoad(Int) /\ custom \in FreshLoad(AnyRange)
      /\ time' = time
  BY DEF StatusInv, ClockInv, AnswerBundle, AnswerCustom
<1>2. ASSUME NEW asked \in bundle.out, NEW at \in asked .. time, Render(range, Landed(bundle, asked, at), custom)
      PROVE  StatusInv'
  BY <1>1, <1>2, AnswersInTime, LandedIs, RenderKeeps
<1>3. ASSUME NEW asked \in bundle.out, Render(range, StatusFailed(bundle, asked), custom)
      PROVE  StatusInv'
  BY <1>1, <1>3, FailedIs, RenderKeeps
<1>4. ASSUME NEW asked \in custom.out, NEW at \in asked .. time, Render(range, bundle, Landed(custom, asked, at))
      PROVE  StatusInv'
  BY <1>1, <1>4, AnswersInTime, LandedIs, RenderKeeps
<1>5. ASSUME NEW asked \in custom.out, Render(range, bundle, StatusFailed(custom, asked))
      PROVE  StatusInv'
  BY <1>1, <1>5, FailedIs, RenderKeeps
<1> QED BY <1>2, <1>3, <1>4, <1>5 DEF AnswerBundle, AnswerCustom

LEMMA GoingKeeps ==
  ASSUME StatusInv, NEW u \in AnyUrl, GoTo(u)
  PROVE  StatusInv'
<1>1. /\ ClockInv /\ Answered(range) /\ bundle \in FreshLoad(Int) /\ custom \in FreshLoad(AnyRange)
      /\ time' = time
  BY DEF StatusInv, GoTo
<1> DEFINE r == IF u = url THEN range ELSE RangeFromParams(u, DayOf(time))
<1>2. Answered(RangeFromParams(u, DayOf(time)))
  BY <1>1, ClockDay, UrlAnswered
<1>3. Answered(r) /\ Render(r, bundle, custom)
  BY <1>1, <1>2 DEF GoTo
<1> HIDE DEF r
<1> QED BY <1>1, <1>3, RenderKeeps

LEMMA PickKeeps ==
  ASSUME StatusInv, NEW r \in AnyRange, Pick(r)
  PROVE  StatusInv'
<1>1. RangeToParams(r, DayOf(time)) \in AnyUrl
  BY ParamsAny
<1> QED BY <1>1, GoingKeeps DEF Pick

LEMMA StatusKept ==
  ASSUME StatusInv, [StatusNext]_statusVars
  PROVE  StatusInv'
<1>1. CASE TimePasses
  <2>1. ClockInv' /\ UNCHANGED <<range, today, bundle, custom>>
    BY <1>1, ClockKept DEF TimePasses, StatusInv
  <2> QED BY <2>1 DEF StatusInv
<1>2. CASE RefreshBundle \/ RefreshCustom
  BY <1>2, RefreshesKeep
<1>3. CASE AnswerBundle \/ AnswerCustom
  BY <1>3, AnswersKeep
<1>4. CASE Reload
  <2>1. /\ ClockInv /\ time \in Moment /\ Answered(range) /\ bundle \in FreshLoad(Int)
        /\ custom \in FreshLoad(AnyRange) /\ time' = time
    BY <1>4 DEF StatusInv, ClockInv, Reload
  <2>2. AskAgain(bundle) \in FreshLoad(Int) /\ AskAgain(custom) \in FreshLoad(AnyRange)
    BY <2>1, AskAgainIs
  <2> QED BY <1>4, <2>1, <2>2, RenderKeeps DEF Reload
<1>5. ASSUME NEW u \in Url, Follow(u)
      PROVE  StatusInv'
  BY <1>5, UrlAny, GoingKeeps DEF Follow
<1>6. ASSUME NEW p \in Preset, ClickPreset(p)
      PROVE  StatusInv'
  <2>1. Answered(PresetRange(p, today))
    BY PresetAnswered DEF StatusInv
  <2> QED BY <1>6, <2>1, PickKeeps DEF ClickPreset, Answered
<1>7. ASSUME NEW f \in 1 .. DayOf(LastMoment), NEW t \in 1 .. DayOf(LastMoment), Apply(f, t)
      PROVE  StatusInv'
  <2>1. Days(f, t) \in AnyRange
    BY DEF Days, AnyRange
  <2> QED BY <1>7, <2>1, PickKeeps DEF Apply
<1>8. CASE UNCHANGED statusVars
  BY <1>8 DEF statusVars, StatusInv, ClockInv
<1> QED BY <1>1, <1>2, <1>3, <1>4, <1>5, <1>6, <1>7, <1>8 DEF StatusNext

-----------------------------------------------------------------------------
(* Stretches of one state.                                                 *)

\* The stretches of L lie apart and hold the moments of N, each with what the
\* gateway was.
Holds(t, l) == l.first <= t /\ t <= l.last
Tiles(L, N, g) ==
  /\ IsFiniteSet(N) /\ \A t \in N : t \in Int
  /\ \A l \in L : /\ l.first \in Int /\ l.last \in Int /\ l.first <= l.last
                  /\ l.status \in {"online", "offline"}
                  /\ \A t \in Int : Holds(t, l) => t \in N /\ g[t] = l.status
  /\ \A t \in N : \E l \in L : Holds(t, l)
  /\ \A l, m \in L : \A t \in N : Holds(t, l) /\ Holds(t, m) => l = m

Tile(L, t) == CHOOSE l \in L : Holds(t, l)
TileOf(L, N) == [t \in N |-> Tile(L, t)]

LEMMA TileIs ==
  ASSUME NEW L, NEW N, NEW g, Tiles(L, N, g)
  PROVE  /\ \A t \in N : TileOf(L, N)[t] \in L /\ Holds(t, TileOf(L, N)[t])
         /\ \A t \in N : \A l \in L : Holds(t, l) => TileOf(L, N)[t] = l
         /\ \A l \in L : Parted(N, TileOf(L, N), {l}) = l.first .. l.last
         /\ IsFiniteSet(L)
<1> DEFINE p == TileOf(L, N)
<1>1. ASSUME NEW t \in N
      PROVE  p[t] \in L /\ Holds(t, p[t]) /\ \A l \in L : Holds(t, l) => p[t] = l
  <2>1. \E l \in L : Holds(t, l)
    BY DEF Tiles
  <2>2. p[t] \in L /\ Holds(t, p[t])
    BY <2>1 DEF TileOf, Tile
  <2> HIDE DEF p
  <2> QED BY <2>2 DEF Tiles
<1> HIDE DEF p
<1>2. ASSUME NEW l \in L
      PROVE  Parted(N, p, {l}) = l.first .. l.last
  <2>1. l.first \in Int /\ l.last \in Int /\ \A t \in Int : Holds(t, l) => t \in N
    BY DEF Tiles
  <2>2. ASSUME NEW t \in l.first .. l.last
        PROVE  t \in N /\ p[t] = l
    <3>1. t \in Int /\ Holds(t, l)
      BY <2>1 DEF Holds
    <3> QED BY <1>1, <2>1, <3>1
  <2>3. ASSUME NEW t \in N, p[t] = l
        PROVE  t \in l.first .. l.last
    <3>1. t \in Int
      BY DEF Tiles
    <3>2. Holds(t, l)
      BY <1>1, <2>3
    <3> QED BY <2>1, <3>1, <3>2 DEF Holds
  <2> QED BY <2>2, <2>3 DEF Parted
<1>3. IsFiniteSet(L)
  <2> DEFINE R == {p[t] : t \in N}
  <2>1. IsFiniteSet(R)
    <3>1. IsFiniteSet(N)
      BY DEF Tiles
    <3>2. DOMAIN p = N /\ p = [t \in N |-> p[t]]
      BY DEF p, TileOf
    <3> QED BY <3>1, <3>2, ImageIs
  <2>2. ASSUME NEW l \in L PROVE l \in R
    <3>1. l.first \in N /\ Holds(l.first, l)
      BY DEF Tiles, Holds
    <3> QED BY <1>1, <3>1
  <2>3. L \in SUBSET R
    BY <2>2
  <2> HIDE DEF R
  <2> QED BY <2>1, <2>3, FS_Subset
<1> QED BY <1>1, <1>2, <1>3 DEF p

LEMMA IntervalCount ==
  ASSUME NEW a \in Int, NEW b \in Int, a <= b
  PROVE  IsFiniteSet(a .. b) /\ Cardinality(a .. b) = b - a + 1
BY FS_Interval

\* The moments in some of the stretches are as many as they are long.
LEMMA TilesSum ==
  ASSUME NEW L, NEW N, NEW g, Tiles(L, N, g), NEW K \in SUBSET L,
         NEW f, \A l \in L : f[l] = l.last - l.first + 1
  PROVE  Total(f, K) = Cardinality({t \in N : \E l \in K : Holds(t, l)})
<1> DEFINE p == TileOf(L, N)
<1>1. /\ \A t \in N : p[t] \in L /\ Holds(t, p[t]) /\ \A l \in L : Holds(t, l) => p[t] = l
      /\ \A l \in L : Parted(N, p, {l}) = l.first .. l.last
      /\ IsFiniteSet(L)
  BY TileIs
<1> HIDE DEF p
<1>2. ASSUME NEW l \in K PROVE f[l] = Cardinality(Parted(N, p, {l}))
  <2>1. l \in L /\ l.first \in Int /\ l.last \in Int /\ l.first <= l.last
    BY DEF Tiles
  <2>2. Cardinality(l.first .. l.last) = l.last - l.first + 1
    BY <2>1, IntervalCount
  <2> QED BY <1>1, <2>1, <2>2
<1>3. IsFiniteSet(K) /\ IsFiniteSet(N)
  BY <1>1, FS_Subset DEF Tiles
<1>4. Tells(f, K, N, p)
  BY <1>2, <1>3 DEF Tells
<1>5. SumFunctionOnSet(f, K) = Cardinality(Parted(N, p, K))
  BY <1>4, PartsSum
<1>6. Parted(N, p, K) = {t \in N : \E l \in K : Holds(t, l)}
  BY <1>1 DEF Parted
<1> QED BY <1>5, <1>6 DEF Total

\* The figures that computeTimelineStats adds up.
LEMMA StatsAre ==
  ASSUME NEW L, NEW N, NEW g, Tiles(L, N, g)
  PROVE  /\ TimelineStats(L).online = Cardinality({t \in N : g[t] = "online"})
         /\ TimelineStats(L).observed = Cardinality(N)
         /\ TimelineStats(L).periods = Cardinality({l \in L : l.status = "offline"})
<1> DEFINE f == [l \in L |-> l.last - l.first + 1]
           down == {l \in L : l.status = "offline"}
           up == L \ down
<1>1. TimelineStats(L).online = Total(f, up) /\ TimelineStats(L).observed = Total(f, L)
      /\ TimelineStats(L).periods = Cardinality(down)
  BY DEF TimelineStats
<1>2. \A l \in L : f[l] = l.last - l.first + 1
  OBVIOUS
<1>3. up \in SUBSET L /\ L \in SUBSET L
  OBVIOUS
<1>4. {t \in N : \E l \in up : Holds(t, l)} = {t \in N : g[t] = "online"}
  BY DEF Tiles
<1>5. {t \in N : \E l \in L : Holds(t, l)} = N
  BY DEF Tiles
<1> HIDE DEF f, up
<1>6. Total(f, up) = Cardinality({t \in N : \E l \in up : Holds(t, l)})
  BY <1>2, <1>3, TilesSum
<1>7. Total(f, L) = Cardinality({t \in N : \E l \in L : Holds(t, l)})
  BY <1>2, <1>3, TilesSum
<1> QED BY <1>1, <1>4, <1>5, <1>6, <1>7

-----------------------------------------------------------------------------
(* What the upstream tells of a gateway.                                   *)

LEMMA GatewayWas ==
  ASSUME NEW g \in Fleet, NEW t \in Moment
  PROVE  g[t] \in {"online", "offline", "no-data"}
BY FleetAssumption

LEMMA SeenSome ==
  ASSUME NEW g \in Fleet, NEW r, NEW at \in Moment
  PROVE  /\ IsFiniteSet(Watched(g, r, at))
         /\ \A t \in Watched(g, r, at) :
              t \in Int /\ t >= 1 /\ t <= at /\ t \in Moment /\ g[t] \in {"online", "offline"}
<1>1. at \in Nat /\ at <= LastMoment /\ LastMoment \in Nat
  BY ConstantsAre DEF Moment
<1>2. Watched(g, r, at) \in SUBSET (1 .. at)
  BY DEF Watched
<1>3. IsFiniteSet(1 .. at)
  BY <1>1, FS_Interval
<1>4. IsFiniteSet(Watched(g, r, at))
  BY <1>2, <1>3, FS_Subset
<1>5. ASSUME NEW t \in Watched(g, r, at)
      PROVE  t \in Int /\ t >= 1 /\ t <= at /\ t \in Moment /\ g[t] \in {"online", "offline"}
  <2>1. t \in Int /\ t >= 1 /\ t <= at /\ t \in Moment
    BY <1>1, <1>2 DEF Moment
  <2>2. g[t] # "no-data"
    BY DEF Watched
  <2> QED BY <2>1, <2>2, GatewayWas
<1> QED BY <1>4, <1>5

\* Where the stretch that a moment is in begins and ends.
LEMMA RunBegins ==
  ASSUME NEW g \in Fleet, NEW r, NEW at \in Moment, NEW t \in Watched(g, r, at)
  PROVE  \E f \in Watched(g, r, at) :
           /\ f <= t
           /\ \A u \in Int : f <= u /\ u <= t => u \in Watched(g, r, at) /\ g[u] = g[t]
           /\ ~ (f - 1 \in Watched(g, r, at) /\ g[f - 1] = g[t])
<1> DEFINE W == Watched(g, r, at)
           F == {f \in W : f <= t /\ \A u \in Int : f <= u /\ u <= t => u \in W /\ g[u] = g[t]}
           f == Min(F)
<1>1. /\ IsFiniteSet(W) /\ t \in Int /\ t \in W
      /\ \A x \in W : x \in Int
  BY SeenSome
<1> HIDE DEF W
<1>2. t \in F /\ F \in SUBSET W
  BY <1>1
<1>3. IsFiniteSet(F) /\ F # {} /\ \A x \in F : x \in Int
  BY <1>1, <1>2, FS_Subset
<1>4. f \in F /\ \A y \in F : f <= y
  <2> HIDE DEF F
  <2> QED BY <1>3, MinFound
<1> HIDE DEF f
<1>5. f \in W /\ f \in Int /\ f <= t /\ \A u \in Int : f <= u /\ u <= t => u \in W /\ g[u] = g[t]
  BY <1>1, <1>4
<1>6. ASSUME f - 1 \in W, g[f - 1] = g[t]
      PROVE  FALSE
  <2>1. \A u \in Int : f - 1 <= u /\ u <= t => u = f - 1 \/ (f <= u /\ u <= t)
    BY <1>5
  <2>2. f - 1 <= t /\ f - 1 \in Int
    BY <1>1, <1>5
  <2>3. f - 1 \in F
    BY <1>5, <1>6, <2>1, <2>2
  <2> QED BY <1>4, <1>5, <2>3
<1> QED BY <1>5, <1>6 DEF W

LEMMA RunEnds ==
  ASSUME NEW g \in Fleet, NEW r, NEW at \in Moment, NEW t \in Watched(g, r, at)
  PROVE  \E e \in Watched(g, r, at) :
           /\ t <= e
           /\ \A u \in Int : t <= u /\ u <= e => u \in Watched(g, r, at) /\ g[u] = g[t]
           /\ ~ (e + 1 \in Watched(g, r, at) /\ g[e + 1] = g[t])
<1> DEFINE W == Watched(g, r, at)
           F == {f \in W : t <= f /\ \A u \in Int : t <= u /\ u <= f => u \in W /\ g[u] = g[t]}
           f == Max(F)
<1>1. /\ IsFiniteSet(W) /\ t \in Int /\ t \in W
      /\ \A x \in W : x \in Int
  BY SeenSome
<1> HIDE DEF W
<1>2. t \in F /\ F \in SUBSET W
  BY <1>1
<1>3. IsFiniteSet(F) /\ F # {} /\ \A x \in F : x \in Int
  BY <1>1, <1>2, FS_Subset
<1>4. f \in F /\ \A y \in F : y <= f
  <2> HIDE DEF F
  <2> QED BY <1>3, MaxFound
<1> HIDE DEF f
<1>5. f \in W /\ f \in Int /\ t <= f /\ \A u \in Int : t <= u /\ u <= f => u \in W /\ g[u] = g[t]
  BY <1>1, <1>4
<1>6. ASSUME f + 1 \in W, g[f + 1] = g[t]
      PROVE  FALSE
  <2>1. \A u \in Int : t <= u /\ u <= f + 1 => u = f + 1 \/ (t <= u /\ u <= f)
    BY <1>5
  <2>2. t <= f + 1 /\ f + 1 \in Int
    BY <1>1, <1>5
  <2>3. f + 1 \in F
    BY <1>5, <1>6, <2>1, <2>2
  <2> QED BY <1>4, <1>5, <2>3
<1> QED BY <1>5, <1>6 DEF W

LEMMA SegmentIs ==
  ASSUME NEW g \in Fleet, NEW r, NEW at \in Moment, NEW s \in Segments(g, r, at)
  PROVE  /\ s = [status |-> s.status, first |-> s.first, last |-> s.last]
         /\ s.status \in {"online", "offline"}
         /\ s.first \in Watched(g, r, at) /\ s.last \in Watched(g, r, at)
         /\ s.first \in Int /\ s.last \in Int /\ s.first <= s.last
         /\ \A t \in Int : Holds(t, s) => t \in Watched(g, r, at) /\ g[t] = s.status
         /\ ~ (s.first - 1 \in Watched(g, r, at) /\ g[s.first - 1] = s.status)
         /\ ~ (s.last + 1 \in Watched(g, r, at) /\ g[s.last + 1] = s.status)
<1> DEFINE W == Watched(g, r, at)
<1>1. /\ s \in [status : {"online", "offline"}, first : W, last : W]
      /\ s.first <= s.last
      /\ \A t \in s.first .. s.last : t \in W /\ g[t] = s.status
      /\ ~ (s.first - 1 \in W /\ g[s.first - 1] = s.status)
      /\ ~ (s.last + 1 \in W /\ g[s.last + 1] = s.status)
  BY DEF Segments
<1>2. \A t \in W : t \in Int
  BY SeenSome
<1> HIDE DEF W
<1>3. s.first \in W /\ s.last \in W /\ s.first \in Int /\ s.last \in Int
  BY <1>1, <1>2
<1>4. \A t \in Int : Holds(t, s) => t \in W /\ g[t] = s.status
  BY <1>1, <1>3 DEF Holds
<1> QED BY <1>1, <1>3, <1>4 DEF W

LEMMA SegmentFound ==
  ASSUME NEW g \in Fleet, NEW r, NEW at \in Moment, NEW t \in Watched(g, r, at)
  PROVE  \E s \in Segments(g, r, at) : Holds(t, s)
<1> DEFINE W == Watched(g, r, at)
<1>1. \A x \in W : x \in Int /\ g[x] \in {"online", "offline"}
  BY SeenSome
<1>2. PICK f \in W : /\ f <= t
                     /\ \A u \in Int : f <= u /\ u <= t => u \in W /\ g[u] = g[t]
                     /\ ~ (f - 1 \in W /\ g[f - 1] = g[t])
  BY RunBegins
<1>3. PICK e \in W : /\ t <= e
                     /\ \A u \in Int : t <= u /\ u <= e => u \in W /\ g[u] = g[t]
                     /\ ~ (e + 1 \in W /\ g[e + 1] = g[t])
  BY RunEnds
<1> DEFINE s == [status |-> g[t], first |-> f, last |-> e]
<1>4. Segments(g, r, at) =
        {x \in [status : {"online", "offline"}, first : W, last : W] :
           /\ x.first <= x.last
           /\ \A u \in x.first .. x.last : u \in W /\ g[u] = x.status
           /\ ~ (x.first - 1 \in W /\ g[x.first - 1] = x.status)
           /\ ~ (x.last + 1 \in W /\ g[x.last + 1] = x.status)}
  BY DEF Segments
<1> HIDE DEF W
<1>5. t \in W
  BY DEF W
<1>6. t \in Int /\ f \in Int /\ e \in Int /\ f <= e
  BY <1>1, <1>2, <1>3, <1>5
<1>7. \A u \in f .. e : u \in W /\ g[u] = g[t]
  BY <1>2, <1>3, <1>6
<1>8. s \in [status : {"online", "offline"}, first : W, last : W]
  BY <1>1, <1>5
<1>9. s.first = f /\ s.last = e /\ s.status = g[t]
  OBVIOUS
<1> HIDE DEF s
<1>10. s \in Segments(g, r, at)
  BY <1>2, <1>3, <1>4, <1>6, <1>7, <1>8, <1>9
<1>11. Holds(t, s)
  BY <1>2, <1>3, <1>9 DEF Holds
<1> QED BY <1>10, <1>11

LEMMA SegmentsApart ==
  ASSUME NEW g \in Fleet, NEW r, NEW at \in Moment,
         NEW s \in Segments(g, r, at), NEW x \in Segments(g, r, at), NEW t \in Int, Holds(t, s), Holds(t, x)
  PROVE  s = x
<1>1. /\ s = [status |-> s.status, first |-> s.first, last |-> s.last]
      /\ s.first \in Int /\ s.last \in Int
      /\ \A u \in Int : Holds(u, s) => u \in Watched(g, r, at) /\ g[u] = s.status
      /\ ~ (s.first - 1 \in Watched(g, r, at) /\ g[s.first - 1] = s.status)
      /\ ~ (s.last + 1 \in Watched(g, r, at) /\ g[s.last + 1] = s.status)
  BY SegmentIs
<1>2. /\ x = [status |-> x.status, first |-> x.first, last |-> x.last]
      /\ x.first \in Int /\ x.last \in Int
      /\ \A u \in Int : Holds(u, x) => u \in Watched(g, r, at) /\ g[u] = x.status
      /\ ~ (x.first - 1 \in Watched(g, r, at) /\ g[x.first - 1] = x.status)
      /\ ~ (x.last + 1 \in Watched(g, r, at) /\ g[x.last + 1] = x.status)
  BY SegmentIs
<1>3. s.status = x.status
  BY <1>1, <1>2
<1>4. /\ s.first < x.first => Holds(x.first - 1, s)
      /\ x.first < s.first => Holds(s.first - 1, x)
      /\ s.last < x.last => Holds(s.last + 1, x)
      /\ x.last < s.last => Holds(x.last + 1, s)
  BY <1>1, <1>2 DEF Holds
<1>5. s.first - 1 \in Int /\ x.first - 1 \in Int /\ s.last + 1 \in Int /\ x.last + 1 \in Int
  BY <1>1, <1>2
<1>6. ~ (s.first < x.first) /\ ~ (x.first < s.first) /\ ~ (s.last < x.last) /\ ~ (x.last < s.last)
  BY <1>1, <1>2, <1>3, <1>4, <1>5
<1>7. s.first = x.first /\ s.last = x.last
  BY <1>1, <1>2, <1>6
<1> QED BY <1>1, <1>2, <1>3, <1>7

-----------------------------------------------------------------------------
(* One answer, many ranges.                                                *)

\* The days asked for hold those of the range, a day more in front unless there
\* is no data, and go on to today at least.
CoversRange(base, r, at) ==
  /\ base \in AnyRange /\ r \in AnyRange
  /\ DataFrom <= base.from /\ base.from <= r.from /\ r.from <= r.to
  /\ base.from = r.from => r.from = DataFrom
  /\ DayOf(at) <= base.to

LEMMA BaseCovers ==
  ASSUME NEW R, IsFiniteSet(R), \A x \in R : Answered(x), NEW r \in R, NEW at \in Moment
  PROVE  CoversRange(BaseRangeFor(R, DayOf(at)), r, at)
<1> DEFINE F == {x.from : x \in R}
           L == {x.to : x \in R}
           T == L \cup {DayOf(at)}
           m == Min(F)
           n == Max(T)
           from == IF m - 1 >= DataFrom THEN m - 1 ELSE m
<1>1. DayOf(at) \in Int
  <2>1. at \in Nat \ {0} /\ 1 \in Int
    BY ConstantsAre DEF Moment
  <2> QED BY <2>1, DayIs
<1>2. \A x \in R : /\ x.from \in Int /\ x.to \in Int /\ x.from >= DataFrom /\ x.from <= x.to
                   /\ x \in AnyRange
  BY DEF Answered, AnyRange, Accepted
<1>3. IsFiniteSet(F) /\ IsFiniteSet(L)
  <2> DEFINE f == [x \in R |-> x.from]
             h == [x \in R |-> x.to]
  <2>1. DOMAIN f = R /\ f = [x \in R |-> f[x]] /\ DOMAIN h = R /\ h = [x \in R |-> h[x]]
        /\ F = {f[x] : x \in R} /\ L = {h[x] : x \in R}
    OBVIOUS
  <2> HIDE DEF f, h, F, L
  <2> QED BY <2>1, ImageIs
<1>4. r.from \in F /\ r.to \in L /\ \A y \in F : y \in Int /\ y >= DataFrom
  BY <1>2
<1>5. \A y \in T : y \in Int
  BY <1>1, <1>2
<1>6. IsFiniteSet(T) /\ r.to \in T /\ DayOf(at) \in T
  BY <1>3, <1>4, FS_AddElement
<1>7. BaseRangeFor(R, DayOf(at)) = [from |-> from, to |-> n]
  BY DEF BaseRangeFor, Lead
<1> HIDE DEF F, L, T
<1>8. m \in F /\ m <= r.from
  BY <1>3, <1>4, MinFound
<1>9. n \in T /\ DayOf(at) <= n
  BY <1>5, <1>6, MaxFound
<1> HIDE DEF m, n
<1>10. m \in Int /\ n \in Int /\ m >= DataFrom /\ DataFrom \in Int
  BY <1>4, <1>5, <1>8, <1>9, ConstantsAre
<1>11. from \in Int /\ DataFrom <= from /\ from <= r.from /\ (from = r.from => r.from = DataFrom)
  BY <1>2, <1>8, <1>10
<1> HIDE DEF from
<1> DEFINE base == [from |-> from, to |-> n]
<1>12. base \in AnyRange /\ base.from = from /\ base.to = n
  BY <1>10, <1>11 DEF AnyRange
<1> HIDE DEF base
<1>13. CoversRange(base, r, at)
  BY <1>2, <1>9, <1>11, <1>12 DEF CoversRange
<1> QED BY <1>7, <1>13 DEF base

\* In moments.
LEMMA CoversIs ==
  ASSUME NEW base, NEW r, NEW at \in Moment, CoversRange(base, r, at), NEW g \in Fleet
  PROVE  /\ at \in Nat \ {0}
         /\ FirstTick(base) \in Int /\ FirstTick(r) \in Int /\ LastTick(r.to) \in Int
         /\ 1 <= FirstTick(base) /\ FirstTick(base) <= FirstTick(r) /\ FirstTick(r) <= LastTick(r.to)
         /\ at <= LastTick(base.to) /\ LastTick(base.to) \in Int
         /\ \A t \in 1 .. at : t \in Watched(g, base, at) <=> FirstTick(base) <= t /\ g[t] # "no-data"
         /\ \A t \in 1 .. at : t \in Moments(r, at) <=> FirstTick(r) <= t /\ t <= LastTick(r.to)
         /\ \A t \in 1 .. at : FirstTick(r) <= t + 1 /\ t < FirstTick(base) => g[t] = "no-data"
<1>1. /\ base \in AnyRange /\ r \in AnyRange
      /\ base.from \in Int /\ base.to \in Int /\ r.from \in Int /\ r.to \in Int
      /\ DataFrom \in Int /\ DataFrom >= 1
      /\ DataFrom <= base.from /\ base.from <= r.from /\ r.from <= r.to
      /\ base.from = r.from => r.from = DataFrom
      /\ DayOf(at) <= base.to
  BY ConstantsAre DEF CoversRange, AnyRange
<1>2. at \in Nat \ {0} /\ at <= LastMoment /\ LastMoment \in Nat
  BY ConstantsAre DEF Moment
<1>3. /\ LastTick(base.from - 1) \in Int /\ LastTick(r.from - 1) \in Int
      /\ LastTick(base.from - 1) <= LastTick(r.from - 1)
      /\ base.from < r.from => LastTick(base.from - 1) < LastTick(r.from - 1)
  <2>1. base.from - 1 \in Int /\ r.from - 1 \in Int /\ base.from - 1 <= r.from - 1
        /\ (base.from < r.from => base.from - 1 < r.from - 1)
    BY <1>1
  <2> QED BY <2>1, DaysApart
<1>4. LastTick(r.from - 1) < LastTick(r.to) /\ LastTick(r.to) \in Int
  <2>1. r.from - 1 \in Int /\ r.from - 1 < r.to
    BY <1>1
  <2> QED BY <1>1, <2>1, DaysApart
<1>5. 0 <= LastTick(base.from - 1)
  <2>1. 0 \in Int /\ base.from - 1 \in Int /\ 0 <= base.from - 1
    BY <1>1
  <2>2. LastTick(0) <= LastTick(base.from - 1) /\ LastTick(0) = 0
    BY <2>1, DaysApart, ConstantsAre DEF LastTick
  <2> QED BY <2>2
<1>6. at <= LastTick(base.to) /\ LastTick(base.to) \in Int
  BY <1>1, <1>2, DayIs
<1>7. ASSUME NEW t \in 1 .. at
      PROVE  /\ t \in Watched(g, base, at) <=> FirstTick(base) <= t /\ g[t] # "no-data"
             /\ t \in Moments(r, at) <=> FirstTick(r) <= t /\ t <= LastTick(r.to)
             /\ FirstTick(r) <= t + 1 /\ t < FirstTick(base) => g[t] = "no-data"
  <2>1. t \in Nat \ {0} /\ t <= at /\ t <= LastTick(base.to)
    BY <1>2, <1>6
  <2>2. /\ Within(DayOf(t), base) <=> FirstTick(base) <= t /\ t <= LastTick(base.to)
        /\ Within(DayOf(t), r) <=> FirstTick(r) <= t /\ t <= LastTick(r.to)
    BY <1>1, <2>1, WithinIs
  <2>3. ASSUME FirstTick(r) <= t + 1, t < FirstTick(base)
        PROVE  g[t] = "no-data"
    <3>1. ~ (LastTick(base.from - 1) < LastTick(r.from - 1)) /\ t <= LastTick(base.from - 1)
      BY <1>3, <2>1, <2>3 DEF FirstTick
    <3>2. base.from = DataFrom
      BY <1>1, <1>3, <3>1
    <3>3. base.from - 1 \in Int
      BY <1>1
    <3>4. DayOf(t) <= base.from - 1 /\ DayOf(t) \in Nat
      BY <2>1, <3>1, <3>3, DayIs
    <3>5. DayOf(t) < DataFrom /\ t \in Moment
      BY <1>1, <1>2, <2>1, <3>2, <3>4 DEF Moment
    <3> QED BY <3>5, FleetAssumption
  <2> QED BY <2>1, <2>2, <2>3 DEF Watched, Moments
<1> QED BY <1>2, <1>3, <1>4, <1>5, <1>6, <1>7 DEF FirstTick

\* The moments of the range that were watched.
LEMMA SeenInRange ==
  ASSUME NEW base, NEW r, NEW at \in Moment, CoversRange(base, r, at), NEW g \in Fleet
  PROVE  /\ {t \in Watched(g, base, at) : t \in Moments(r, at)} = {t \in Moments(r, at) : g[t] # "no-data"}
         /\ IsFiniteSet(Moments(r, at)) /\ \A t \in Moments(r, at) : t \in 1 .. at /\ t \in Moment
<1>1. Moments(r, at) \in SUBSET (1 .. at)
  BY DEF Moments
<1>2. at \in Nat \ {0} /\ at <= LastMoment /\ LastMoment \in Nat
  BY ConstantsAre DEF Moment
<1>3. IsFiniteSet(Moments(r, at))
  BY <1>1, <1>2, FS_Interval, FS_Subset
<1>4. \A t \in Moments(r, at) : t \in Watched(g, base, at) <=> g[t] # "no-data"
  <2> TAKE t \in Moments(r, at)
  <2>1. t \in 1 .. at
    BY <1>1
  <2> QED BY <1>2, <2>1, CoversIs
<1>5. \A t \in Moments(r, at) : t \in 1 .. at /\ t \in Moment
  BY <1>1, <1>2 DEF Moment
<1> QED BY <1>3, <1>4, <1>5

\* The figures of the days, added up.
ReportDays(g, base, at) == {DayOf(t) : t \in Watched(g, base, at)}
OfDay(g, base, at, d) == {t \in Watched(g, base, at) : DayOf(t) = d}
DaysCut(g, base, r, at) == {d \in ReportDays(g, base, at) : Within(d, r)}

DaysTold(g, base, at, days) ==
  /\ DOMAIN days = ReportDays(g, base, at)
  /\ \A d \in ReportDays(g, base, at) :
       /\ days[d].online = Cardinality(OnlineOf(g, OfDay(g, base, at, d)))
       /\ days[d].watched = Cardinality(OfDay(g, base, at, d))
       /\ days[d].outages = Cardinality(OutageStarts(g, base, OfDay(g, base, at, d)))

LEMMA ReportIs ==
  ASSUME NEW g, NEW base, NEW at
  PROVE  /\ Report(g, base, at).status = g[Min({at, LastTick(base.to)})]
         /\ DaysTold(g, base, at, Report(g, base, at).days)
<1> DEFINE f == [d \in ReportDays(g, base, at) |->
                   [online |-> Cardinality(OnlineOf(g, OfDay(g, base, at, d))),
                    watched |-> Cardinality(OfDay(g, base, at, d)),
                    outages |-> Cardinality(OutageStarts(g, base, OfDay(g, base, at, d)))]]
<1>1. Report(g, base, at) = [status |-> g[Min({at, LastTick(base.to)})], days |-> f]
  BY DEF Report, ReportDays, OfDay
<1>2. DaysTold(g, base, at, f)
  BY DEF DaysTold
<1> HIDE DEF f
<1> QED BY <1>1, <1>2

OnThatDay(A, d) == {t \in A : DayOf(t) = d}

\* A figure that counts, day by day, the members of A, counts them all.
LEMMA DaysSum ==
  ASSUME NEW g \in Fleet, NEW base, NEW r, NEW at \in Moment, CoversRange(base, r, at),
         NEW A \in SUBSET Watched(g, base, at),
         NEW f, \A d \in DaysCut(g, base, r, at) : f[d] = Cardinality(OnThatDay(A, d))
  PROVE  Total(f, DaysCut(g, base, r, at)) = Cardinality({t \in A : t \in Moments(r, at)})
<1> DEFINE D == DaysCut(g, base, r, at)
           p == [t \in A |-> DayOf(t)]
<1>1. /\ IsFiniteSet(Watched(g, base, at))
      /\ \A t \in A : t \in Watched(g, base, at) /\ t \in 1 .. at
  BY SeenSome DEF Watched
<1>2. IsFiniteSet(A)
  BY <1>1, FS_Subset
<1>3. IsFiniteSet(ReportDays(g, base, at))
  <2> DEFINE W == Watched(g, base, at)
             q == [t \in W |-> DayOf(t)]
  <2>1. DOMAIN q = W /\ q = [t \in W |-> q[t]] /\ ReportDays(g, base, at) = {q[t] : t \in W}
    BY DEF ReportDays
  <2> HIDE DEF q, W
  <2> QED BY <1>1, <2>1, ImageIs DEF W
<1>4. IsFiniteSet(D)
  <2>1. D \in SUBSET ReportDays(g, base, at)
    BY DEF DaysCut
  <2> HIDE DEF D
  <2> QED BY <1>3, <2>1, FS_Subset
<1>5. \A d \in D : f[d] = Cardinality(Parted(A, p, {d}))
  <2> TAKE d \in D
  <2>1. Parted(A, p, {d}) = OnThatDay(A, d)
    BY DEF Parted, OnThatDay
  <2> QED BY <2>1
<1>6. Parted(A, p, D) = {t \in A : t \in Moments(r, at)}
  <2>1. ASSUME NEW t \in A
        PROVE  p[t] = DayOf(t) /\ (DayOf(t) \in D <=> t \in Moments(r, at))
    BY <1>1 DEF DaysCut, ReportDays, Moments
  <2> HIDE DEF p, D
  <2> QED BY <2>1 DEF Parted
<1>7. Tells(f, D, A, p)
  BY <1>2, <1>4, <1>5 DEF Tells
<1> HIDE DEF p, D
<1>8. SumFunctionOnSet(f, D) = Cardinality(Parted(A, p, D))
  BY <1>7, PartsSum
<1> QED BY <1>6, <1>8 DEF Total, D

\* Where an outage begins on a day of the range, as the upstream counts.
StartsOf(g, base, at) == OutageStarts(g, base, Watched(g, base, at))

LEMMA StartsBegan ==
  ASSUME NEW g \in Fleet, NEW base, NEW r, NEW at \in Moment, CoversRange(base, r, at)
  PROVE  {t \in StartsOf(g, base, at) : t \in Moments(r, at)} = Began(g, Moments(r, at))
<1>1. /\ FirstTick(base) \in Int /\ 1 <= FirstTick(base) /\ FirstTick(base) <= FirstTick(r)
      /\ FirstTick(r) \in Int /\ LastTick(r.to) \in Int /\ at \in Nat \ {0}
  BY CoversIs
<1>2. ASSUME NEW t \in Moments(r, at)
      PROVE  t \in StartsOf(g, base, at) <=> t \in Began(g, Moments(r, at))
  <2>1. t \in 1 .. at /\ t \in Int /\ 1 <= t /\ t <= at
    BY <1>1, SeenInRange
  <2>2. FirstTick(r) <= t /\ (t \in Watched(g, base, at) <=> FirstTick(base) <= t /\ g[t] # "no-data")
    BY <2>1, CoversIs
  <2>3. ASSUME t # 1
        PROVE  t <= FirstTick(base) => g[t - 1] = "no-data"
    <3>1. t - 1 \in 1 .. at
      BY <1>1, <2>1, <2>3
    <3>2. t <= FirstTick(base) => FirstTick(r) <= (t - 1) + 1 /\ t - 1 < FirstTick(base)
      BY <1>1, <2>1, <2>2
    <3> QED BY <3>1, <3>2, CoversIs
  <2>4. t \in StartsOf(g, base, at) <=>
          g[t] = "offline" /\ (t <= FirstTick(base) \/ g[t - 1] # "offline")
    BY <1>1, <2>1, <2>2 DEF StartsOf, OutageStarts
  <2>5. t \in Began(g, Moments(r, at)) <=> g[t] = "offline" /\ (t = 1 \/ g[t - 1] # "offline")
    BY <2>1 DEF Began, IsDown
  <2> QED BY <1>1, <2>1, <2>3, <2>4, <2>5
<1>3. Began(g, Moments(r, at)) \subseteq Moments(r, at)
  BY DEF Began
<1> QED BY <1>2, <1>3

LEMMA CutIs ==
  ASSUME NEW g \in Fleet, NEW base, NEW r, NEW at \in Moment, CoversRange(base, r, at)
  PROVE  Figures(g, r, at, SliceGateway(Report(g, base, at), r))
<1> DEFINE D == DaysCut(g, base, r, at)
           T == Moments(r, at)
           W == Watched(g, base, at)
           report == Report(g, base, at)
           days == report.days
           on == [d \in D |-> days[d].online]
           watched == [d \in D |-> days[d].watched]
           outs == [d \in D |-> days[d].outages]
           cut == SliceGateway(Report(g, base, at), r)
<1>0. report.status = g[Min({at, LastTick(base.to)})] /\ DaysTold(g, base, at, days)
  BY ReportIs
<1>2. D = {d \in DOMAIN days : Within(d, r)}
  BY <1>0 DEF DaysCut, DaysTold
<1>3. /\ cut.status = Report(g, base, at).status
      /\ cut.online = Total(on, D) /\ cut.observed = Total(watched, D) /\ cut.events = Total(outs, D)
  BY <1>2 DEF SliceGateway
<1>4. cut.status = g[at]
  <2>1. at \in Int /\ LastTick(base.to) \in Int /\ at <= LastTick(base.to)
    BY CoversIs
  <2>2. Min({at, LastTick(base.to)}) = at
    BY <2>1, MinTwo
  <2> QED BY <1>0, <1>3, <2>2
<1> HIDE DEF days, cut
<1>1. \A d \in ReportDays(g, base, at) :
        /\ days[d].online = Cardinality(OnlineOf(g, OfDay(g, base, at, d)))
        /\ days[d].watched = Cardinality(OfDay(g, base, at, d))
        /\ days[d].outages = Cardinality(OutageStarts(g, base, OfDay(g, base, at, d)))
  BY <1>0 DEF DaysTold
<1>5. \A d \in D : d \in ReportDays(g, base, at)
  BY DEF DaysCut
<1> DEFINE up == OnlineOf(g, W)
           starts == StartsOf(g, base, at)
<1>6. up \in SUBSET W /\ W \in SUBSET W /\ starts \in SUBSET W
  BY DEF OnlineOf, StartsOf, OutageStarts
<1>7. \A d \in D : on[d] = Cardinality(OnThatDay(up, d))
  <2> TAKE d \in D
  <2>1. OnlineOf(g, OfDay(g, base, at, d)) = OnThatDay(up, d)
    BY DEF OnlineOf, OfDay, OnThatDay
  <2> QED BY <1>1, <1>5, <2>1
<1>8. \A d \in D : watched[d] = Cardinality(OnThatDay(W, d))
  BY <1>1, <1>5 DEF OfDay, OnThatDay
<1>9. \A d \in D : outs[d] = Cardinality(OnThatDay(starts, d))
  <2> TAKE d \in D
  <2>1. OutageStarts(g, base, OfDay(g, base, at, d)) = OnThatDay(starts, d)
    BY DEF OutageStarts, OfDay, StartsOf, OnThatDay
  <2> QED BY <1>1, <1>5, <2>1
<1> HIDE DEF on, watched, outs, up, starts, D, W
<1>10. /\ Total(on, D) = Cardinality({t \in up : t \in T})
       /\ Total(watched, D) = Cardinality({t \in W : t \in T})
       /\ Total(outs, D) = Cardinality({t \in starts : t \in T})
  <2> HIDE DEF T
  <2>1. Total(on, D) = Cardinality({t \in up : t \in T})
    BY <1>6, <1>7, DaysSum DEF D, T, W
  <2>2. Total(watched, D) = Cardinality({t \in W : t \in T})
    BY <1>6, <1>8, DaysSum DEF D, T, W
  <2>3. Total(outs, D) = Cardinality({t \in starts : t \in T})
    BY <1>6, <1>9, DaysSum DEF D, T, W
  <2> QED BY <2>1, <2>2, <2>3
<1>11. {t \in W : t \in T} = {t \in T : g[t] # "no-data"}
  BY SeenInRange DEF W
<1>12. {t \in up : t \in T} = OnlineOf(g, T)
  <2>1. up = {t \in W : g[t] = "online"}
    BY DEF up, OnlineOf
  <2>2. \A t \in T : g[t] = "online" => t \in W
    <3> HIDE DEF T
    <3> QED BY <1>11
  <2> QED BY <2>1, <2>2 DEF OnlineOf
<1>13. {t \in starts : t \in T} = Began(g, T)
  BY StartsBegan DEF starts
<1> QED BY <1>3, <1>4, <1>10, <1>11, <1>12, <1>13 DEF Figures, cut

-----------------------------------------------------------------------------
(* The timeline cut from the same answer.                                  *)
Touches(s, r) == s.last >= FirstTick(r) /\ s.first <= LastTick(r.to)
CutAt(s, r) ==
  [s EXCEPT !.first = Max({s.first, FirstTick(r)}), !.last = Min({s.last, LastTick(r.to)})]

\* The line that is drawn of a gateway.
LineOf(g, base, r, at) == SliceTimeline(Segments(g, base, at), r)

LEMMA LineIs ==
  ASSUME NEW g, NEW base, NEW r, NEW at
  PROVE  LineOf(g, base, r, at) = {CutAt(s, r) : s \in {x \in Segments(g, base, at) : Touches(x, r)}}
BY DEF LineOf, SliceTimeline, Touches, CutAt

CutTo(s, f, l) == [s EXCEPT !.first = f, !.last = l]

LEMMA Recut ==
  ASSUME NEW s, NEW x, NEW y, NEW f, NEW l, NEW st, s = [first |-> x, last |-> y, status |-> st]
  PROVE  CutTo(s, f, l) = [first |-> f, last |-> l, status |-> st]
<1> DEFINE m == [s EXCEPT !.first = f]
<1>1. m = [first |-> f, last |-> y, status |-> st]
  OBVIOUS
<1>2. CutTo(s, f, l) = [m EXCEPT !.last = l]
  BY DEF CutTo
<1> HIDE DEF m
<1>3. [m EXCEPT !.last = l] = [first |-> f, last |-> l, status |-> st]
  BY <1>1
<1> QED BY <1>2, <1>3

LEMMA CutAtIs ==
  ASSUME NEW g \in Fleet, NEW base, NEW r, NEW at \in Moment, CoversRange(base, r, at),
         NEW s \in Segments(g, base, at)
  PROVE  /\ CutAt(s, r).status = s.status
         /\ CutAt(s, r).first = IF s.first >= FirstTick(r) THEN s.first ELSE FirstTick(r)
         /\ CutAt(s, r).last = IF s.last <= LastTick(r.to) THEN s.last ELSE LastTick(r.to)
         /\ CutAt(s, r) = [status |-> CutAt(s, r).status, first |-> CutAt(s, r).first,
                           last |-> CutAt(s, r).last]
<1>1. FirstTick(r) \in Int /\ LastTick(r.to) \in Int
  BY CoversIs
<1>2. s = [status |-> s.status, first |-> s.first, last |-> s.last] /\ s.first \in Int /\ s.last \in Int
  BY SegmentIs
<1> DEFINE f == Max({s.first, FirstTick(r)})
           l == Min({s.last, LastTick(r.to)})
<1>3. f = IF s.first >= FirstTick(r) THEN s.first ELSE FirstTick(r)
  BY <1>1, <1>2, MaxTwo
<1>4. l = IF s.last <= LastTick(r.to) THEN s.last ELSE LastTick(r.to)
  BY <1>1, <1>2, MinTwo
<1>5. CutAt(s, r) = CutTo(s, f, l)
  BY DEF CutAt, CutTo
<1> HIDE DEF f, l
<1>6. CutAt(s, r) = [first |-> f, last |-> l, status |-> s.status]
  <2> DEFINE st == s.status  x == s.first  y == s.last
  <2>1. s = [first |-> x, last |-> y, status |-> st]
    BY <1>2
  <2> HIDE DEF st, x, y
  <2>2. CutTo(s, f, l) = [first |-> f, last |-> l, status |-> st]
    BY <2>1, Recut
  <2> QED BY <1>5, <2>2 DEF st
<1>7. CutAt(s, r) = [status |-> s.status, first |-> f, last |-> l]
  BY <1>6
<1> QED BY <1>3, <1>4, <1>7

\* The stretches of the line lie apart and hold what was watched of the range.
SeenOf(g, r, at) == {t \in Moments(r, at) : g[t] # "no-data"}

LEMMA LinePart ==
  ASSUME NEW g \in Fleet, NEW base, NEW r, NEW at \in Moment, CoversRange(base, r, at),
         NEW s \in Segments(g, base, at), Touches(s, r)
  PROVE  /\ CutAt(s, r).first \in Int /\ CutAt(s, r).last \in Int
         /\ CutAt(s, r).first <= CutAt(s, r).last
         /\ CutAt(s, r).status \in {"online", "offline"}
         /\ \A t \in Int : Holds(t, CutAt(s, r)) <=>
              Holds(t, s) /\ FirstTick(r) <= t /\ t <= LastTick(r.to)
         /\ \A t \in Int : Holds(t, CutAt(s, r)) => t \in SeenOf(g, r, at) /\ g[t] = s.status
<1> DEFINE c == CutAt(s, r)
<1>1. /\ c.status = s.status
      /\ c.first = IF s.first >= FirstTick(r) THEN s.first ELSE FirstTick(r)
      /\ c.last = IF s.last <= LastTick(r.to) THEN s.last ELSE LastTick(r.to)
  BY CutAtIs
<1>2. FirstTick(r) \in Int /\ LastTick(r.to) \in Int /\ FirstTick(r) <= LastTick(r.to)
  BY CoversIs
<1>3. /\ s.first \in Int /\ s.last \in Int /\ s.first <= s.last /\ s.status \in {"online", "offline"}
      /\ \A t \in Int : Holds(t, s) => t \in Watched(g, base, at) /\ g[t] = s.status
  BY SegmentIs
<1> HIDE DEF c
<1>4. c.first \in Int /\ c.last \in Int /\ c.first <= c.last
  BY <1>1, <1>2, <1>3 DEF Touches
<1>5. \A t \in Int : Holds(t, c) <=> Holds(t, s) /\ FirstTick(r) <= t /\ t <= LastTick(r.to)
  BY <1>1, <1>2, <1>3 DEF Holds
<1>6. ASSUME NEW t \in Int, Holds(t, c)
      PROVE  t \in SeenOf(g, r, at) /\ g[t] = s.status
  <2>1. t \in Watched(g, base, at) /\ g[t] = s.status /\ FirstTick(r) <= t /\ t <= LastTick(r.to)
    BY <1>3, <1>5, <1>6
  <2>2. t \in 1 .. at
    BY <2>1 DEF Watched
  <2>3. t \in Moments(r, at)
    BY <2>1, <2>2, CoversIs
  <2>4. g[t] # "no-data"
    BY <2>1 DEF Watched
  <2> QED BY <2>1, <2>3, <2>4 DEF SeenOf
<1> QED BY <1>1, <1>3, <1>4, <1>5, <1>6 DEF c

LEMMA LineTiles ==
  ASSUME NEW g \in Fleet, NEW base, NEW r, NEW at \in Moment, CoversRange(base, r, at)
  PROVE  Tiles(LineOf(g, base, r, at), SeenOf(g, r, at), g)
<1> DEFINE L == LineOf(g, base, r, at)
           N == SeenOf(g, r, at)
           X == {x \in Segments(g, base, at) : Touches(x, r)}
<1>1. \A l \in L : \E s \in X : l = CutAt(s, r)
  BY LineIs
<1>2. \A s \in X : CutAt(s, r) \in L
  BY LineIs
<1>3. IsFiniteSet(N) /\ \A t \in N : t \in Int /\ t \in Moments(r, at) /\ t \in 1 .. at
  <2>1. N \in SUBSET Moments(r, at)
    BY DEF SeenOf
  <2>2. IsFiniteSet(Moments(r, at)) /\ \A t \in Moments(r, at) : t \in 1 .. at /\ t \in Int
    <3>1. at \in Int
      BY CoversIs
    <3> QED BY <3>1, SeenInRange
  <2> HIDE DEF N
  <2> QED BY <2>1, <2>2, FS_Subset
<1> HIDE DEF L, X
<1>4. ASSUME NEW l \in L
      PROVE  /\ l.first \in Int /\ l.last \in Int /\ l.first <= l.last
             /\ l.status \in {"online", "offline"}
             /\ \A t \in Int : Holds(t, l) => t \in N /\ g[t] = l.status
  <2>1. PICK s \in X : l = CutAt(s, r)
    BY <1>1
  <2>2. s \in Segments(g, base, at) /\ Touches(s, r)
    BY <2>1 DEF X
  <2>3. l.status = s.status
    BY <2>1, <2>2, CutAtIs
  <2> QED BY <2>1, <2>2, <2>3, LinePart
<1>5. ASSUME NEW t \in N
      PROVE  \E l \in L : Holds(t, l)
  <2>1. t \in 1 .. at /\ t \in Moments(r, at) /\ g[t] # "no-data" /\ t \in Int
    BY <1>3 DEF SeenOf
  <2>2. FirstTick(r) <= t /\ t <= LastTick(r.to) /\ t \in Watched(g, base, at)
        /\ FirstTick(r) \in Int /\ LastTick(r.to) \in Int
    BY <2>1, CoversIs, SeenInRange
  <2>3. PICK s \in Segments(g, base, at) : Holds(t, s)
    BY <2>2, SegmentFound
  <2>4. s.first \in Int /\ s.last \in Int
    BY SegmentIs
  <2>5. Touches(s, r)
    BY <2>1, <2>2, <2>3, <2>4 DEF Touches, Holds
  <2>6. Holds(t, CutAt(s, r))
    BY <2>1, <2>2, <2>3, <2>5, LinePart
  <2> QED BY <1>2, <2>5, <2>6 DEF X
<1>6. ASSUME NEW l \in L, NEW m \in L, NEW t \in N, Holds(t, l), Holds(t, m)
      PROVE  l = m
  <2>1. PICK s \in X : l = CutAt(s, r)
    BY <1>1
  <2>2. PICK x \in X : m = CutAt(x, r)
    BY <1>1
  <2>3. s \in Segments(g, base, at) /\ Touches(s, r) /\ x \in Segments(g, base, at) /\ Touches(x, r)
    BY DEF X
  <2>4. t \in Int /\ Holds(t, s) /\ Holds(t, x)
    BY <1>3, <1>6, <2>1, <2>2, <2>3, LinePart
  <2> QED BY <2>1, <2>2, <2>3, <2>4, SegmentsApart
<1> HIDE DEF N
<1> QED BY <1>3, <1>4, <1>5, <1>6 DEF Tiles, L, N

\* Where the stretches offline begin: where an outage began, and where one was
\* running as the range began.
Downs(L) == {l \in L : l.status = "offline"}

LEMMA DownsBegin ==
  ASSUME NEW g \in Fleet, NEW base, NEW r, NEW at \in Moment, CoversRange(base, r, at)
  PROVE  {l.first : l \in Downs(LineOf(g, base, r, at))} =
           Began(g, Moments(r, at)) \cup
             {t \in {FirstTick(r)} : t <= at /\ RunningAt(g, t)}
<1> DEFINE L == LineOf(g, base, r, at)
           a == FirstTick(r)
           b == LastTick(r.to)
           lo == FirstTick(base)
           W == Watched(g, base, at)
<1>1. /\ at \in Nat \ {0} /\ at \in Int /\ a \in Int /\ b \in Int /\ lo \in Int
      /\ 1 <= lo /\ lo <= a /\ a <= b
      /\ \A t \in 1 .. at : t \in W <=> lo <= t /\ g[t] # "no-data"
      /\ \A t \in 1 .. at : t \in Moments(r, at) <=> a <= t /\ t <= b
      /\ \A t \in 1 .. at : a <= t + 1 /\ t < lo => g[t] = "no-data"
  BY CoversIs
<1>2. Tiles(L, SeenOf(g, r, at), g)
  BY LineTiles
<1>3. L = {CutAt(s, r) : s \in {x \in Segments(g, base, at) : Touches(x, r)}}
  BY LineIs
<1>4. \A t \in W : t \in Int /\ t >= 1 /\ t <= at
  BY SeenSome
<1> HIDE DEF a, b, lo, W, L
<1>5. ASSUME NEW l \in L, l.status = "offline"
      PROVE  l.first \in Began(g, Moments(r, at)) \/ (l.first = a /\ a <= at /\ RunningAt(g, a))
  <2>1. PICK s \in Segments(g, base, at) : Touches(s, r) /\ l = CutAt(s, r)
    BY <1>3
  <2>2. /\ s.first \in W /\ s.last \in W /\ s.first \in Int /\ s.last \in Int /\ s.first <= s.last
        /\ \A t \in Int : Holds(t, s) => t \in W /\ g[t] = s.status
        /\ ~ (s.first - 1 \in W /\ g[s.first - 1] = s.status)
    BY SegmentIs DEF W
  <2>3. s.status = "offline" /\ l.first = IF s.first >= a THEN s.first ELSE a
    BY <1>5, <2>1, CutAtIs DEF a
  <2>4. s.last >= a /\ s.first <= b
    BY <2>1 DEF Touches, a, b
  <2>5. CASE s.first >= a
    <3> DEFINE t == s.first
    <3>1. t \in 1 .. at /\ t \in W /\ g[t] = "offline" /\ a <= t /\ t <= b
      BY <1>1, <1>4, <2>2, <2>3, <2>4, <2>5 DEF Holds
    <3>2. t \in Moments(r, at)
      BY <1>1, <3>1
    <3>3. ASSUME t # 1, g[t - 1] = "offline" PROVE FALSE
      <4>1. t - 1 \in 1 .. at /\ a <= (t - 1) + 1
        BY <1>1, <2>2, <3>1, <3>3
      <4>2. lo <= t - 1
        BY <1>1, <3>3, <4>1
      <4>3. t - 1 \in W
        BY <1>1, <3>3, <4>1, <4>2
      <4> QED BY <2>2, <2>3, <3>3, <4>3
    <3>4. t \in Began(g, Moments(r, at))
      BY <1>1, <3>1, <3>2, <3>3 DEF Began, IsDown
    <3> QED BY <2>3, <2>5, <3>4
  <2>6. CASE ~ (s.first >= a)
    <3>1. a - 1 \in Int /\ Holds(a - 1, s) /\ Holds(a, s)
      BY <1>1, <2>2, <2>4, <2>6 DEF Holds
    <3>2. g[a - 1] = "offline" /\ g[a] = "offline" /\ a \in W /\ a - 1 \in W
      BY <1>1, <2>2, <2>3, <3>1
    <3>3. a <= at /\ a > 1 /\ a - 1 > 0
      BY <1>1, <1>4, <3>2
    <3>4. RunningAt(g, a)
      BY <1>1, <3>2, <3>3 DEF RunningAt, IsDown
    <3> QED BY <2>3, <2>6, <3>3, <3>4
  <2> QED BY <2>5, <2>6
<1>6. ASSUME NEW t, t \in Began(g, Moments(r, at)) \/ (t = a /\ a <= at /\ RunningAt(g, a))
      PROVE  \E l \in L : l.status = "offline" /\ l.first = t
  <2>1. g[t] = "offline" /\ t \in Moments(r, at) /\ t \in Int /\ t \in 1 .. at /\ a <= t /\ t <= b
    <3>1. CASE t \in Began(g, Moments(r, at))
      <4>1. t \in Moments(r, at) /\ g[t] = "offline"
        BY <3>1 DEF Began, IsDown
      <4>2. t \in 1 .. at
        BY <4>1, SeenInRange
      <4> QED BY <1>1, <4>1, <4>2
    <3>2. CASE t = a /\ a <= at /\ RunningAt(g, a)
      <4>1. g[t] = "offline" /\ t \in 1 .. at
        BY <1>1, <3>2 DEF RunningAt, IsDown
      <4> QED BY <1>1, <3>2, <4>1
    <3> QED BY <1>6, <3>1, <3>2
  <2>2. t \in W /\ t \in SeenOf(g, r, at)
    BY <1>1, <2>1 DEF SeenOf
  <2>3. PICK s \in Segments(g, base, at) : Holds(t, s)
    BY <2>2, SegmentFound DEF W
  <2>4. /\ s.first \in W /\ s.last \in W /\ s.first \in Int /\ s.last \in Int
        /\ \A u \in Int : Holds(u, s) => u \in W /\ g[u] = s.status
    BY SegmentIs DEF W
  <2>5. s.first <= t /\ t <= s.last
    BY <2>3 DEF Holds
  <2>6. Touches(s, r)
    BY <1>1, <2>1, <2>4, <2>5 DEF Touches, a, b
  <2>7. CutAt(s, r) \in L /\ CutAt(s, r).status = s.status
        /\ CutAt(s, r).first = IF s.first >= a THEN s.first ELSE a
    BY <1>3, <2>6, CutAtIs DEF a
  <2>8. s.status = "offline"
    BY <2>1, <2>3, <2>4
  <2>9. (IF s.first >= a THEN s.first ELSE a) = t
    <3>1. CASE t = a
      BY <1>1, <2>4, <2>5, <3>1
    <3>2. CASE t # a
      <4>1. t \in Began(g, Moments(r, at))
        BY <1>6, <3>2
      <4>2. t = 1 \/ g[t - 1] # "offline"
        BY <1>1, <2>1, <4>1 DEF Began, IsDown
      <4>3. s.first < t => t - 1 \in Int /\ Holds(t - 1, s)
        BY <2>1, <2>4, <2>5 DEF Holds
      <4>4. s.first >= 1
        BY <1>4, <2>4
      <4>5. ~ (s.first < t)
        BY <2>1, <2>4, <2>8, <4>2, <4>3, <4>4
      <4> QED BY <2>1, <2>4, <2>5, <4>5
    <3> QED BY <3>1, <3>2
  <2> QED BY <2>7, <2>8, <2>9
<1>7. {l.first : l \in Downs(L)} =
        Began(g, Moments(r, at)) \cup {t \in {a} : t <= at /\ RunningAt(g, t)}
  BY <1>5, <1>6 DEF Downs
<1> QED BY <1>7 DEF L, a

LEMMA DownsCount ==
  ASSUME NEW g \in Fleet, NEW base, NEW r, NEW at \in Moment, CoversRange(base, r, at)
  PROVE  Cardinality(Downs(LineOf(g, base, r, at))) =
           Cardinality(Began(g, Moments(r, at)))
             + (IF FirstTick(r) <= at /\ RunningAt(g, FirstTick(r)) THEN 1 ELSE 0)
<1> DEFINE L == LineOf(g, base, r, at)
           D == Downs(L)
           B == Began(g, Moments(r, at))
           a == FirstTick(r)
           f == [l \in D |-> l.first]
<1>1. Tiles(L, SeenOf(g, r, at), g)
  BY LineTiles
<1>2. IsFiniteSet(L)
  BY <1>1, TileIs
<1>3. D \in SUBSET L /\ IsFiniteSet(D)
  BY <1>2, FS_Subset DEF Downs
<1> HIDE DEF L, D, a
<1>4. \A x, y \in D : f[x] = f[y] => x = y
  <2> TAKE x \in D, y \in D
  <2> HAVE f[x] = f[y]
  <2>1. x \in L /\ y \in L /\ x.first = y.first
    BY <1>3
  <2>2. Holds(x.first, x) /\ Holds(x.first, y) /\ x.first \in SeenOf(g, r, at)
    BY <1>1, <2>1 DEF Tiles, Holds
  <2> QED BY <1>1, <2>1, <2>2 DEF Tiles
<1>5. Cardinality({f[l] : l \in D}) = Cardinality(D)
  <2>1. DOMAIN f = D /\ f = [l \in D |-> f[l]]
    OBVIOUS
  <2> HIDE DEF f
  <2> QED BY <1>3, <1>4, <2>1, ImageIs
<1>6. {f[l] : l \in D} = B \cup {t \in {a} : t <= at /\ RunningAt(g, t)}
  <2>1. {f[l] : l \in D} = {l.first : l \in D}
    OBVIOUS
  <2> QED BY <2>1, DownsBegin DEF D, L, a
<1>7. IsFiniteSet(B) /\ Cardinality(B) \in Nat
  <2>1. B \in SUBSET Moments(r, at)
    BY DEF Began
  <2> QED BY <2>1, SeenInRange, FS_Subset, FS_CardinalityType
<1>8. RunningAt(g, a) => a \notin B
  <2>1. a \in Int
    BY CoversIs DEF a
  <2> QED BY <2>1 DEF RunningAt, Began
<1> HIDE DEF B, f
<1>9. CASE a <= at /\ RunningAt(g, a)
  <2>1. B \cup {t \in {a} : t <= at /\ RunningAt(g, t)} = B \cup {a}
    BY <1>9
  <2>2. Cardinality(B \cup {a}) = Cardinality(B) + 1
    BY <1>7, <1>8, <1>9, FS_AddElement
  <2>3. Cardinality(D) = Cardinality(B) + (IF a <= at /\ RunningAt(g, a) THEN 1 ELSE 0)
    BY <1>5, <1>6, <1>9, <2>1, <2>2
  <2> QED BY <2>3 DEF D, L, B, a
<1>10. CASE ~ (a <= at /\ RunningAt(g, a))
  <2>1. B \cup {t \in {a} : t <= at /\ RunningAt(g, t)} = B
    BY <1>10
  <2>3. Cardinality(D) = Cardinality(B) + (IF a <= at /\ RunningAt(g, a) THEN 1 ELSE 0)
    BY <1>5, <1>6, <1>7, <1>10, <2>1
  <2> QED BY <2>3 DEF D, L, B, a
<1> QED BY <1>9, <1>10

LEMMA DrawnIs ==
  ASSUME NEW g \in Fleet, NEW base, NEW r, NEW at \in Moment, CoversRange(base, r, at)
  PROVE  Drawn(g, r, at, SliceGateway(Report(g, base, at), r),
               TimelineStats(SliceTimeline(Segments(g, base, at), r)))
<1> DEFINE L == LineOf(g, base, r, at)
           cut == SliceGateway(Report(g, base, at), r)
           N == SeenOf(g, r, at)
           T == Moments(r, at)
<1>1. Figures(g, r, at, cut)
  BY CutIs
<1>2. Tiles(L, N, g)
  BY LineTiles
<1> HIDE DEF L, cut
<1>3. /\ TimelineStats(L).online = Cardinality({t \in N : g[t] = "online"})
      /\ TimelineStats(L).observed = Cardinality(N)
      /\ TimelineStats(L).periods = Cardinality(Downs(L))
  BY <1>2, StatsAre DEF Downs
<1>4. {t \in N : g[t] = "online"} = OnlineOf(g, T)
  BY DEF SeenOf, OnlineOf
<1>5. Cardinality(Downs(L)) = Cardinality(Began(g, T))
        + (IF FirstTick(r) <= at /\ RunningAt(g, FirstTick(r)) THEN 1 ELSE 0)
  BY DownsCount DEF L
<1>6. cut.online = Cardinality(OnlineOf(g, T)) /\ cut.observed = Cardinality(N)
      /\ cut.events = Cardinality(Began(g, T))
  BY <1>1 DEF Figures, SeenOf
<1>7. Drawn(g, r, at, cut, TimelineStats(L))
  BY <1>3, <1>4, <1>5, <1>6 DEF Drawn
<1> QED BY <1>7 DEF cut, L, LineOf

-----------------------------------------------------------------------------
\* What the page has on screen is of the range on screen.
LEMMA RangeIsShown == StatusInv => ShownForRange
<1> SUFFICES ASSUME StatusInv PROVE ShownForRange
  OBVIOUS
<1>1. /\ Answered(range) /\ today \in Int /\ today >= DataFrom
      /\ bundle \in FreshLoad(Int) /\ bundle.key = today
      /\ custom \in FreshLoad(AnyRange) /\ custom.key = range
      /\ custom.on = (Presets(range, today) = {})
  BY DEF StatusInv
<1>2. Accepted(Days(bundle.key, bundle.key))
  BY <1>1, ConstantsAre DEF Accepted, Days, DaysIn
<1>3. Accepted(custom.key)
  BY <1>1 DEF Answered
<1> DEFINE R == IF IsPreset THEN {PresetRange(p, bundle.key) : p \in Preset} ELSE {custom.key}
<1>4. IsFiniteSet(R) /\ (\A x \in R : Answered(x)) /\ range \in R /\ CutOut = range
  <2>1. CASE IsPreset
    <3> DEFINE P == {PresetRange(p, today) : p \in Preset}
    <3>3. IsFiniteSet(P)
      BY PresetsMade
    <3>4. R = P /\ CutOut = PresetRange(PresetOf(range, today), today)
      BY <1>1, <2>1 DEF CutOut
    <3>5. PresetOf(range, today) \in Preset /\ PresetRange(PresetOf(range, today), today) = range
      BY <2>1, PresetOfIs DEF IsPreset
    <3>6. \A x \in P : Answered(x)
      BY <1>1, PresetAnswered
    <3> QED BY <3>3, <3>4, <3>5, <3>6
  <2>2. CASE ~IsPreset
    <3>1. R = {range} /\ CutOut = range
      BY <1>1, <2>2 DEF CutOut
    <3> QED BY <1>1, <3>1, FS_Singleton
  <2> QED BY <2>1, <2>2
<1>5. AskedFor(OnScreen) = BaseRangeFor(R, DayOf(OnScreen))
  BY DEF AskedFor
<1>6. OnScreen # NoData => OnScreen \in Moment
  <2>1. bundle.kept.data \in {NoData} \cup Moment /\ custom.kept.data \in {NoData} \cup Moment
    BY <1>1 DEF FreshLoad, KeptLoad
  <2> QED BY <2>1 DEF OnScreen, Active
<1> DEFINE at == OnScreen
           base == AskedFor(at)
<1>7. ASSUME at # NoData
      PROVE  CoversRange(base, range, at) /\ at \in Moment
  <2>1. at \in Moment
    BY <1>6, <1>7
  <2> HIDE DEF R
  <2> QED BY <1>4, <1>5, <2>1, BaseCovers
<1> HIDE DEF at, base
<1>8. ASSUME at # NoData, NEW g \in Fleet
      PROVE  /\ Figures(g, range, at, SliceGateway(Report(g, base, at), range))
             /\ Drawn(g, range, at, SliceGateway(Report(g, base, at), range),
                      TimelineStats(SliceTimeline(Segments(g, base, at), range)))
  BY <1>7, <1>8, CutIs, DrawnIs
<1> QED BY <1>2, <1>3, <1>4, <1>8 DEF ShownForRange, at, base

-----------------------------------------------------------------------------
(* Windows on the chart.                                                   *)
AnyWindow == [from : Int, to : Int]
Inside(w, full) ==
  w \in AnyWindow /\ full.from <= w.from /\ w.from < w.to /\ w.to <= full.to

LEMMA ScaleGrows ==
  ASSUME NEW a \in Int, NEW b \in Int
  PROVE  /\ Scale * a \in Int /\ Scale * b \in Int
         /\ a <= b => Scale * a <= Scale * b
         /\ a < b => Scale * a < Scale * b
<1>1. Scale \in Nat \ {0}
  BY TimelineAssumption
<1>2. ASSUME a <= b PROVE Scale * a <= Scale * b
  <2>1. PICK k \in Nat : b = a + k
    <3>1. b - a \in Nat /\ b = a + (b - a)
      BY <1>2
    <3> QED BY <3>1
  <2>2. Scale * (a + k) = Scale * a + Scale * k
    BY <1>1
  <2>3. Scale * k \in Nat /\ Scale * a \in Int
    BY <1>1
  <2> QED BY <2>1, <2>2, <2>3
<1>3. ASSUME a < b PROVE Scale * a < Scale * b
  <2>1. PICK k \in Nat : b = a + 1 + k
    <3>1. b - a - 1 \in Nat /\ b = a + 1 + (b - a - 1)
      BY <1>3
    <3> QED BY <3>1
  <2>2. Scale * (a + 1 + k) = Scale * a + Scale + Scale * k
    BY <1>1
  <2>3. Scale * k \in Nat /\ Scale * a \in Int
    BY <1>1
  <2> QED BY <1>1, <2>1, <2>2, <2>3
<1> QED BY <1>1, <1>2, <1>3

LEMMA FullIs ==
  ASSUME NEW r, Answered(r)
  PROVE  /\ Full(r) \in AnyWindow /\ Full(r).from < Full(r).to
         /\ Full(r).from = Scale * (FirstTick(r) - 1) /\ Full(r).to = Scale * LastTick(r.to)
         /\ FirstTick(r) \in Int /\ LastTick(r.to) \in Int /\ FirstTick(r) <= LastTick(r.to)
<1>1. r.from \in Int /\ r.to \in Int /\ r.from <= r.to /\ r.from - 1 \in Int /\ r.from - 1 < r.to
  BY DEF Answered, AnyRange, Accepted
<1>2. LastTick(r.from - 1) \in Int /\ LastTick(r.to) \in Int /\ LastTick(r.from - 1) < LastTick(r.to)
  BY <1>1, DaysApart
<1>3. FirstTick(r) \in Int /\ FirstTick(r) - 1 \in Int /\ FirstTick(r) - 1 < LastTick(r.to)
      /\ FirstTick(r) <= LastTick(r.to)
  BY <1>2 DEF FirstTick
<1> DEFINE x == Scale * (FirstTick(r) - 1)
           y == Scale * LastTick(r.to)
<1>4. x \in Int /\ y \in Int /\ x < y
  BY <1>2, <1>3, ScaleGrows
<1>5. Full(r) = [from |-> x, to |-> y]
  BY DEF Full, Window
<1> HIDE DEF x, y
<1> QED BY <1>2, <1>3, <1>4, <1>5 DEF AnyWindow, x, y

\* clampView, in numbers.
LEMMA ClampIs ==
  ASSUME NEW w \in AnyWindow, NEW full \in AnyWindow, full.from < full.to
  PROVE  LET wide == IF w.to - w.from >= 1 THEN w.to - w.from ELSE 1
             width == IF wide <= full.to - full.from THEN wide ELSE full.to - full.from
             left == IF w.from >= full.from THEN w.from ELSE full.from
             from == IF left <= full.to - width THEN left ELSE full.to - width
         IN ClampView(w, full) = [from |-> from, to |-> from + width]
<1> DEFINE wide == IF w.to - w.from >= 1 THEN w.to - w.from ELSE 1
           width == IF wide <= full.to - full.from THEN wide ELSE full.to - full.from
           left == IF w.from >= full.from THEN w.from ELSE full.from
           from == IF left <= full.to - width THEN left ELSE full.to - width
<1>1. w.from \in Int /\ w.to \in Int /\ full.from \in Int /\ full.to \in Int
  BY DEF AnyWindow
<1>2. Max({w.to - w.from, 1}) = wide /\ wide \in Int
  <2>1. w.to - w.from \in Int /\ 1 \in Int
    BY <1>1
  <2> QED BY <2>1, MaxTwo
<1>3. Max({w.from, full.from}) = left /\ left \in Int
  BY <1>1, MaxTwo
<1> HIDE DEF wide, left
<1>4. Min({wide, full.to - full.from}) = width /\ width \in Int
  <2>1. full.to - full.from \in Int
    BY <1>1
  <2> QED BY <1>2, <2>1, MinTwo
<1> HIDE DEF width
<1>5. Min({left, full.to - width}) = from
  <2>1. full.to - width \in Int
    BY <1>1, <1>4
  <2> QED BY <1>3, <2>1, MinTwo
<1>6. ClampView(w, full) = [from |-> from, to |-> from + width]
  BY <1>2, <1>3, <1>4, <1>5 DEF ClampView, Width, Window
<1> QED BY <1>6 DEF from, width, left, wide

LEMMA ClampInside ==
  ASSUME NEW w \in AnyWindow, NEW full \in AnyWindow, full.from < full.to
  PROVE  /\ Inside(ClampView(w, full), full)
         /\ full.from <= w.from /\ w.to <= full.to /\ w.from < w.to => ClampView(w, full) = w
<1> DEFINE wide == IF w.to - w.from >= 1 THEN w.to - w.from ELSE 1
           width == IF wide <= full.to - full.from THEN wide ELSE full.to - full.from
           left == IF w.from >= full.from THEN w.from ELSE full.from
           from == IF left <= full.to - width THEN left ELSE full.to - width
<1>1. ClampView(w, full) = [from |-> from, to |-> from + width]
  BY ClampIs
<1>2. w.from \in Int /\ w.to \in Int /\ full.from \in Int /\ full.to \in Int
  BY DEF AnyWindow
<1>3. from \in Int /\ width \in Int /\ full.from <= from /\ width >= 1 /\ from + width <= full.to
  BY <1>2
<1>4. full.from <= w.from /\ w.to <= full.to /\ w.from < w.to => from = w.from /\ width = w.to - w.from
  BY <1>2
<1> HIDE DEF from, width
<1>5. Inside(ClampView(w, full), full)
  BY <1>1, <1>2, <1>3 DEF Inside, AnyWindow
<1>6. ASSUME full.from <= w.from, w.to <= full.to, w.from < w.to
      PROVE  ClampView(w, full) = w
  <2>1. from = w.from /\ from + width = w.to
    BY <1>2, <1>4, <1>6
  <2>2. w = [from |-> w.from, to |-> w.to]
    BY DEF AnyWindow
  <2> QED BY <1>1, <2>1, <2>2
<1> QED BY <1>5, <1>6

LEMMA ZoomInside ==
  ASSUME NEW width \in Int, NEW twice \in Int, NEW full \in AnyWindow, full.from < full.to
  PROVE  Inside(ZoomTo(width, twice, full), full)
<1> DEFINE x == (twice - width) \div 2
           w == Window(x, x + width)
<1>1. x \in Int
  OBVIOUS
<1> HIDE DEF x
<1>2. w \in AnyWindow
  BY <1>1 DEF Window, AnyWindow
<1>3. ZoomTo(width, twice, full) = ClampView(w, full)
  BY DEF ZoomTo, x
<1> HIDE DEF w
<1> QED BY <1>2, <1>3, ClampInside

\* Zooming in on a place between e.from and e.to leaves some of that in sight.
LEMMA ZoomSees ==
  ASSUME NEW width \in Int, width >= 0, NEW twice \in Int, NEW full \in AnyWindow, full.from < full.to,
         width <= full.to - full.from,
         NEW a \in Int, NEW b \in Int, full.from <= a, b <= full.to, 2 * a < twice, twice < 2 * b
  PROVE  ZoomTo(width, twice, full).from < b /\ a < ZoomTo(width, twice, full).to
<1> DEFINE x == (twice - width) \div 2
           w == Window(x, x + width)
<1>1. x \in Int /\ 2 * x <= twice - width /\ twice - width < 2 * x + 2
  OBVIOUS
<1> HIDE DEF x
<1>2. w \in AnyWindow /\ w.from = x /\ w.to = x + width
  BY <1>1 DEF Window, AnyWindow
<1>3. ZoomTo(width, twice, full) = ClampView(w, full)
  BY DEF ZoomTo, x
<1> HIDE DEF w
<1> DEFINE wide == IF w.to - w.from >= 1 THEN w.to - w.from ELSE 1
           size == IF wide <= full.to - full.from THEN wide ELSE full.to - full.from
           left == IF w.from >= full.from THEN w.from ELSE full.from
           from == IF left <= full.to - size THEN left ELSE full.to - size
<1>4. ClampView(w, full) = [from |-> from, to |-> from + size]
  BY <1>2, ClampIs
<1>5. full.from \in Int /\ full.to \in Int
  BY DEF AnyWindow
<1>6. wide = IF width >= 1 THEN width ELSE 1
  BY <1>1, <1>2
<1>7. size = wide /\ wide \in Int /\ wide >= 1 /\ wide >= width
  BY <1>5, <1>6
<1> HIDE DEF wide, size
<1>8. from < b /\ a < from + size
  BY <1>1, <1>2, <1>5, <1>7
<1> HIDE DEF from
<1> QED BY <1>3, <1>4, <1>8

-----------------------------------------------------------------------------
(* The page of one gateway.                                                *)

LineInv ==
  /\ ClockInv
  /\ lineAddress.gateway \in LineGateway
  /\ Answered(lineRange)
  /\ lineToday \in Int /\ lineToday >= DataFrom
  /\ lineBundle \in FreshLoad(LineGateway \X Int)
  /\ lineCustom \in FreshLoad(LineGateway \X AnyRange)
  /\ chart = NoView \/ Inside(chart, Full(lineRange))
  /\ lineTable \in [page : Nat, size : Nat \ {0}]

\* What the page has covers the range.
LEMMA LineCovers ==
  ASSUME LineInv, LineAt # NoData
  PROVE  LineAt \in Moment /\ CoversRange(LineBase(LineAt), lineRange, LineAt)
<1> DEFINE R == IF LineIsPreset THEN {PresetRange(p, lineToday) : p \in Preset} ELSE {lineRange}
<1>1. LineAt \in Moment
  <2>1. lineBundle.kept.data \in {NoData} \cup Moment /\ lineCustom.kept.data \in {NoData} \cup Moment
    BY DEF LineInv, FreshLoad, KeptLoad
  <2> QED BY <2>1 DEF LineAt, LineLoad
<1>2. IsFiniteSet(R) /\ (\A x \in R : Answered(x)) /\ lineRange \in R
  <2>0. Answered(lineRange) /\ lineToday \in Int /\ lineToday >= DataFrom
    BY DEF LineInv
  <2>1. CASE LineIsPreset
    <3> DEFINE P == {PresetRange(p, lineToday) : p \in Preset}
    <3>1. IsFiniteSet(P)
      BY PresetsMade
    <3>2. R = P
      BY <2>1
    <3>3. PresetOf(lineRange, lineToday) \in Preset
          /\ PresetRange(PresetOf(lineRange, lineToday), lineToday) = lineRange
      BY <2>1, PresetOfIs DEF LineIsPreset
    <3>4. \A x \in P : Answered(x)
      BY <2>0, PresetAnswered
    <3> QED BY <3>1, <3>2, <3>3, <3>4
  <2>2. CASE ~LineIsPreset
    <3>1. R = {lineRange}
      BY <2>2
    <3> QED BY <2>0, <3>1, FS_Singleton
  <2> QED BY <2>1, <2>2
<1>3. LineBase(LineAt) = BaseRangeFor(R, DayOf(LineAt))
  BY DEF LineBase
<1> HIDE DEF R
<1> QED BY <1>1, <1>2, <1>3, BaseCovers

LEMMA LineParts ==
  ASSUME LineInv, LineAt # NoData
  PROVE  /\ lineAddress.gateway \in Fleet
         /\ Line(LineAt) = LineOf(lineAddress.gateway, LineBase(LineAt), lineRange, LineAt)
         /\ Tiles(Line(LineAt), SeenOf(lineAddress.gateway, lineRange, LineAt), lineAddress.gateway)
         /\ \A s \in Line(LineAt) :
              /\ s.first \in Int /\ s.last \in Int /\ s.first <= s.last
              /\ FirstTick(lineRange) <= s.first /\ s.last <= LastTick(lineRange.to)
              /\ s.last <= LineAt
<1> DEFINE g == lineAddress.gateway
           at == LineAt
           L == Line(at)
           N == SeenOf(g, lineRange, at)
<1>1. g \in Fleet
  BY TimelineAssumption DEF LineInv
<1>2. at \in Moment /\ CoversRange(LineBase(at), lineRange, at)
  BY LineCovers
<1>3. L = LineOf(g, LineBase(at), lineRange, at)
  BY DEF Line, LineOf
<1> HIDE DEF g, at, L
<1>4. Tiles(L, N, g)
  BY <1>1, <1>2, <1>3, LineTiles
<1>5. ASSUME NEW s \in L
      PROVE  /\ s.first \in Int /\ s.last \in Int /\ s.first <= s.last
             /\ FirstTick(lineRange) <= s.first /\ s.last <= LastTick(lineRange.to)
             /\ s.last <= at
  <2>1. s.first \in Int /\ s.last \in Int /\ s.first <= s.last /\ s.first \in N /\ s.last \in N
    BY <1>4 DEF Tiles, Holds
  <2>2. s.first \in Moments(lineRange, at) /\ s.last \in Moments(lineRange, at)
    BY <2>1 DEF SeenOf
  <2>3. s.first \in 1 .. at /\ s.last \in 1 .. at
    BY <2>2 DEF Moments
  <2>4. FirstTick(lineRange) <= s.first /\ s.last <= LastTick(lineRange.to)
    BY <1>1, <1>2, <2>2, <2>3, CoversIs
  <2> QED BY <2>1, <2>3, <2>4
<1> QED BY <1>1, <1>3, <1>4, <1>5 DEF g, at, L

\* A stretch on the chart lies in the range.
LEMMA StretchIs ==
  ASSUME NEW r, Answered(r), NEW s, s.first \in Int, s.last \in Int, s.first <= s.last,
         FirstTick(r) <= s.first, s.last <= LastTick(r.to)
  PROVE  Inside(Stretch(s), Full(r)) /\ Stretch(s).from = Scale * (s.first - 1) /\ Stretch(s).to = Scale * s.last
<1> DEFINE x == Scale * (s.first - 1)
           y == Scale * s.last
<1>1. /\ Full(r).from = Scale * (FirstTick(r) - 1) /\ Full(r).to = Scale * LastTick(r.to)
      /\ FirstTick(r) \in Int /\ LastTick(r.to) \in Int
  BY FullIs
<1>2. s.first - 1 \in Int /\ FirstTick(r) - 1 \in Int /\ FirstTick(r) - 1 <= s.first - 1 /\ s.first - 1 < s.last
  BY <1>1
<1>3. x \in Int /\ y \in Int /\ x < y
  BY <1>2, ScaleGrows
<1>4. Full(r).from <= x
  BY <1>1, <1>2, ScaleGrows
<1>5. y <= Full(r).to
  BY <1>1, ScaleGrows
<1>6. Stretch(s) = [from |-> x, to |-> y]
  BY DEF Stretch, Window
<1> HIDE DEF x, y
<1>7. Inside(Stretch(s), Full(r))
  BY <1>3, <1>4, <1>5, <1>6 DEF Inside, AnyWindow
<1> QED BY <1>6, <1>7 DEF x, y

LEMMA AroundIs ==
  ASSUME NEW s, NEW full \in AnyWindow, full.from < full.to, Inside(Stretch(s), full)
  PROVE  /\ Inside(Around(s, full), full)
         /\ Around(s, full).from <= Stretch(s).from /\ Stretch(s).to <= Around(s, full).to
<1> DEFINE w == Stretch(s)
<1>1. /\ w.from \in Int /\ w.to \in Int /\ full.from \in Int /\ full.to \in Int
      /\ full.from <= w.from /\ w.from < w.to /\ w.to <= full.to
  BY DEF Inside, AnyWindow
<1> HIDE DEF w
<1> DEFINE pad == Max({2 * Width(w), 1})
           v == Window(w.from - pad, w.to + pad)
<1>2. pad = 2 * (w.to - w.from) /\ pad \in Int /\ pad >= 1
  <2>1. 2 * (w.to - w.from) \in Int /\ 2 * (w.to - w.from) >= 1 /\ 1 \in Int
    BY <1>1
  <2> QED BY <2>1, MaxTwo DEF Width
<1>3. Around(s, full) = ClampView(v, full)
  BY DEF Around, w
<1> HIDE DEF pad
<1>4. v \in AnyWindow /\ v.from = w.from - pad /\ v.to = w.to + pad
  BY <1>1, <1>2 DEF AnyWindow, Window
<1> HIDE DEF v
<1> DEFINE wide == IF v.to - v.from >= 1 THEN v.to - v.from ELSE 1
           size == IF wide <= full.to - full.from THEN wide ELSE full.to - full.from
           left == IF v.from >= full.from THEN v.from ELSE full.from
           from == IF left <= full.to - size THEN left ELSE full.to - size
<1>5. ClampView(v, full) = [from |-> from, to |-> from + size]
  BY <1>4, ClampIs
<1>6. from <= w.from /\ w.to <= from + size
  BY <1>1, <1>2, <1>4
<1> HIDE DEF from, size
<1>7. Inside(ClampView(v, full), full)
  BY <1>4, ClampInside
<1> QED BY <1>3, <1>5, <1>6, <1>7 DEF w

\* All that is drawn.
LEMMA ExtentIs ==
  ASSUME NEW r, Answered(r), NEW L, IsFiniteSet(L), L # {},
         \A s \in L : /\ s.first \in Int /\ s.last \in Int /\ s.first <= s.last
                      /\ FirstTick(r) <= s.first /\ s.last <= LastTick(r.to)
  PROVE  /\ Extent(L) \in AnyWindow
         /\ Full(r).from <= Extent(L).from /\ Extent(L).to <= Full(r).to
         /\ \A s \in L : Extent(L).from <= Stretch(s).from /\ Stretch(s).to <= Extent(L).to
<1> DEFINE F == {s.first : s \in L}
           E == {s.last : s \in L}
           m == Min(F)
           n == Max(E)
           x == Scale * (m - 1)
           y == Scale * n
<1>1. IsFiniteSet(F) /\ IsFiniteSet(E) /\ F # {} /\ E # {}
  <2> DEFINE f == [s \in L |-> s.first]
             h == [s \in L |-> s.last]
  <2>1. DOMAIN f = L /\ f = [s \in L |-> f[s]] /\ DOMAIN h = L /\ h = [s \in L |-> h[s]]
        /\ F = {f[s] : s \in L} /\ E = {h[s] : s \in L}
    OBVIOUS
  <2>2. F # {} /\ E # {}
    OBVIOUS
  <2> HIDE DEF f, h, F, E
  <2> QED BY <2>1, <2>2, ImageIs
<1>2. \A s \in L : s.first \in F /\ s.last \in E
  OBVIOUS
<1>3. (\A z \in F : z \in Int /\ FirstTick(r) <= z) /\ (\A z \in E : z \in Int /\ z <= LastTick(r.to))
  OBVIOUS
<1> HIDE DEF F, E
<1>4. m \in F /\ (\A z \in F : m <= z) /\ n \in E /\ (\A z \in E : z <= n)
  BY <1>1, <1>3, MinFound, MaxFound
<1> HIDE DEF m, n
<1>5. /\ Full(r).from = Scale * (FirstTick(r) - 1) /\ Full(r).to = Scale * LastTick(r.to)
      /\ FirstTick(r) \in Int /\ LastTick(r.to) \in Int /\ FirstTick(r) - 1 \in Int
      /\ m \in Int /\ n \in Int /\ m - 1 \in Int /\ FirstTick(r) <= m /\ n <= LastTick(r.to)
      /\ FirstTick(r) - 1 <= m - 1
  BY <1>3, <1>4, FullIs
<1>6. x \in Int /\ y \in Int /\ Full(r).from <= x /\ y <= Full(r).to
  BY <1>5, ScaleGrows
<1>7. ASSUME NEW s \in L
      PROVE  x <= Stretch(s).from /\ Stretch(s).to <= y
  <2>1. Stretch(s).from = Scale * (s.first - 1) /\ Stretch(s).to = Scale * s.last
    BY StretchIs
  <2>2. m - 1 <= s.first - 1 /\ s.last <= n /\ s.first - 1 \in Int /\ s.last \in Int
    BY <1>2, <1>4, <1>5
  <2> QED BY <1>5, <2>1, <2>2, ScaleGrows
<1>8. Extent(L) = [from |-> x, to |-> y]
  BY DEF Extent, Window, m, n, F, E
<1> HIDE DEF x, y
<1> QED BY <1>6, <1>7, <1>8 DEF AnyWindow

LEMMA ShownInside ==
  ASSUME LineInv
  PROVE  Inside(ShownWindow, Full(lineRange))
<1>1. Answered(lineRange) /\ (chart = NoView \/ Inside(chart, Full(lineRange)))
  BY DEF LineInv
<1>2. Full(lineRange) \in AnyWindow /\ Full(lineRange).from < Full(lineRange).to
  BY <1>1, FullIs
<1>3. Full(lineRange).from \in Int /\ Full(lineRange).to \in Int
  BY <1>2 DEF AnyWindow
<1>4. Inside(Full(lineRange), Full(lineRange))
  BY <1>2, <1>3 DEF Inside
<1> QED BY <1>1, <1>4 DEF ShownWindow

LEMMA ZoomsInside ==
  ASSUME NEW w, NEW full \in AnyWindow, full.from < full.to, Inside(w, full), NEW L
  PROVE  Inside(ZoomOut(w, full), full)
         /\ (Anchor(w, L) \in Int => Inside(ZoomIn(w, L, full), full))
<1>1. w.from \in Int /\ w.to \in Int
  BY DEF Inside, AnyWindow
<1>2. 2 * Width(w) \in Int /\ w.from + w.to \in Int /\ Width(w) \div 2 \in Int
  BY <1>1 DEF Width
<1>3. Inside(ZoomTo(2 * Width(w), w.from + w.to, full), full)
  BY <1>2, ZoomInside
<1>4. Anchor(w, L) \in Int => Inside(ZoomTo(Width(w) \div 2, Anchor(w, L), full), full)
  BY <1>2, ZoomInside
<1> QED BY <1>3, <1>4 DEF ZoomOut, ZoomIn

\* What zooming in looks at.
LEMMA AnchorIs ==
  ASSUME NEW w \in AnyWindow, w.from < w.to, NEW L, L # {} => Extent(L) \in AnyWindow
  PROVE  /\ Anchor(w, L) \in Int
         /\ L # {} /\ (Extent(L).from < w.to /\ w.from < Extent(L).to /\ Extent(L).from < Extent(L).to)
              => 2 * Extent(L).from < Anchor(w, L) /\ Anchor(w, L) < 2 * Extent(L).to
<1>1. w.from \in Int /\ w.to \in Int
  BY DEF AnyWindow
<1>2. CASE L = {}
  <2>1. Anchor(w, L) = w.from + w.to
    BY <1>2 DEF Anchor
  <2> QED BY <1>1, <1>2, <2>1
<1>3. CASE L # {}
  <2> DEFINE e == Extent(L)
             x == Max({w.from, e.from})
             y == Min({w.to, e.to})
             seen == Window(x, y)
  <2>1. e.from \in Int /\ e.to \in Int
    BY <1>3 DEF AnyWindow
  <2>2. seen.from = x /\ seen.to = y
    BY DEF Window
  <2>3. Anchor(w, L) = IF x < y THEN x + y ELSE w.from + w.to
    BY <1>3, <2>2 DEF Anchor
  <2> HIDE DEF e
  <2>4. x = (IF w.from >= e.from THEN w.from ELSE e.from) /\ y = (IF w.to <= e.to THEN w.to ELSE e.to)
    BY <1>1, <2>1, MaxTwo, MinTwo
  <2> HIDE DEF x, y
  <2>5. Anchor(w, L) \in Int
    BY <1>1, <2>1, <2>3, <2>4
  <2>6. e.from < w.to /\ w.from < e.to /\ e.from < e.to => 2 * e.from < Anchor(w, L) /\ Anchor(w, L) < 2 * e.to
    BY <1>1, <2>1, <2>3, <2>4
  <2> QED BY <2>5, <2>6 DEF e
<1> QED BY <1>2, <1>3

LEMMA LineExtent ==
  ASSUME LineInv, LineAt # NoData, Line(LineAt) # {}
  PROVE  /\ Extent(Line(LineAt)) \in AnyWindow
         /\ Full(lineRange).from <= Extent(Line(LineAt)).from /\ Extent(Line(LineAt)).to <= Full(lineRange).to
         /\ \A s \in Line(LineAt) : /\ Extent(Line(LineAt)).from <= Stretch(s).from
                                    /\ Stretch(s).to <= Extent(Line(LineAt)).to
                                    /\ Inside(Stretch(s), Full(lineRange))
<1> DEFINE L == Line(LineAt)
<1>1. /\ Tiles(L, SeenOf(lineAddress.gateway, lineRange, LineAt), lineAddress.gateway)
      /\ \A s \in L : /\ s.first \in Int /\ s.last \in Int /\ s.first <= s.last
                      /\ FirstTick(lineRange) <= s.first /\ s.last <= LastTick(lineRange.to)
  BY LineParts
<1>2. Answered(lineRange)
  BY DEF LineInv
<1>3. L # {}
  OBVIOUS
<1> HIDE DEF L
<1>4. IsFiniteSet(L)
  BY <1>1, TileIs
<1>5. \A s \in L : Inside(Stretch(s), Full(lineRange))
  BY <1>1, <1>2, StretchIs
<1>6. /\ Extent(L) \in AnyWindow
      /\ Full(lineRange).from <= Extent(L).from /\ Extent(L).to <= Full(lineRange).to
      /\ \A s \in L : Extent(L).from <= Stretch(s).from /\ Stretch(s).to <= Extent(L).to
  BY <1>1, <1>2, <1>3, <1>4, ExtentIs
<1> QED BY <1>5, <1>6 DEF L

LEMMA WindowIsInRange == LineInv => WindowInRange
<1> SUFFICES ASSUME LineInv, LineAt # NoData
             PROVE  WindowInRange
  BY DEF WindowInRange
<1> DEFINE full == Full(lineRange)
           w == ShownWindow
           L == Line(LineAt)
           e == Extent(L)
           closer == ZoomIn(w, L, full)
<1>1. full \in AnyWindow /\ full.from < full.to
  BY FullIs DEF LineInv
<1>2. Inside(w, full)
  BY ShownInside
<1>3. L # {} => /\ e \in AnyWindow /\ full.from <= e.from /\ e.to <= full.to
                /\ \A s \in L : e.from <= Stretch(s).from /\ Stretch(s).to <= e.to /\ Inside(Stretch(s), full)
  BY LineExtent
<1>9. closer = ZoomTo(Width(w) \div 2, Anchor(w, L), full)
  BY DEF ZoomIn
<1> HIDE DEF full, w, L
<1>4. full.from \in Int /\ full.to \in Int /\ w.from \in Int /\ w.to \in Int /\ w \in AnyWindow
      /\ full.from <= w.from /\ w.from < w.to /\ w.to <= full.to
  BY <1>1, <1>2 DEF AnyWindow, Inside
<1>5. w.from >= full.from /\ w.to <= full.to /\ Width(w) > 0
  BY <1>4 DEF Width
<1>6. ASSUME NEW s \in L
      PROVE  Around(s, full).from <= Stretch(s).from /\ Around(s, full).to >= Stretch(s).to
  <2>1. Inside(Stretch(s), full)
    BY <1>3
  <2>2. /\ Inside(Around(s, full), full)
        /\ Around(s, full).from <= Stretch(s).from /\ Stretch(s).to <= Around(s, full).to
    BY <1>1, <2>1, AroundIs
  <2>3. Around(s, full).to \in Int /\ Stretch(s).to \in Int
    BY <2>1, <2>2 DEF Inside, AnyWindow
  <2> QED BY <2>2, <2>3
<1>7. ASSUME NEW s \in L, Stretch(s).from < w.to, Stretch(s).to > w.from
      PROVE  closer.from < e.to /\ closer.to > e.from
  <2> HIDE DEF e, closer
  <2>1. e \in AnyWindow /\ full.from <= e.from /\ e.to <= full.to /\ L # {}
        /\ e.from <= Stretch(s).from /\ Stretch(s).to <= e.to /\ Inside(Stretch(s), full)
    BY <1>3
  <2>2. e.from \in Int /\ e.to \in Int /\ Stretch(s).from \in Int /\ Stretch(s).to \in Int
        /\ Stretch(s).from < Stretch(s).to
    BY <2>1 DEF AnyWindow, Inside
  <2>3. e.from < w.to /\ w.from < e.to /\ e.from < e.to
    BY <1>4, <1>7, <2>1, <2>2
  <2>4. Anchor(w, L) \in Int /\ 2 * e.from < Anchor(w, L) /\ Anchor(w, L) < 2 * e.to
    BY <1>4, <2>1, <2>3, AnchorIs DEF e
  <2>5. Width(w) \div 2 \in Int /\ Width(w) \div 2 >= 0 /\ Width(w) \div 2 <= full.to - full.from
    BY <1>4 DEF Width
  <2> DEFINE half == Width(w) \div 2
             twice == Anchor(w, L)
  <2> HIDE DEF half, twice
  <2>6. ZoomTo(half, twice, full).from < e.to /\ e.from < ZoomTo(half, twice, full).to
    BY <1>1, <2>1, <2>2, <2>4, <2>5, ZoomSees DEF half, twice
  <2>7. Inside(ZoomTo(half, twice, full), full)
    BY <1>1, <2>4, <2>5, ZoomInside DEF half, twice
  <2>8. closer = ZoomTo(half, twice, full)
    BY <1>9 DEF half, twice
  <2>9. closer.to \in Int
    BY <2>7, <2>8 DEF Inside, AnyWindow
  <2> QED BY <2>2, <2>6, <2>8, <2>9
<1> HIDE DEF closer, e
<1> QED BY <1>5, <1>6, <1>7 DEF WindowInRange, full, w, L, closer, e

-----------------------------------------------------------------------------
(* The offline periods.                                                    *)
Earlier(D) == {p \in D \X D : p[1].first < p[2].first}

LEMMA DownsOrdered ==
  ASSUME NEW L, NEW N, NEW g, Tiles(L, N, g)
  PROVE  IsFiniteSet(Downs(L)) /\ Orders(Earlier(Downs(L)), Downs(L))
         /\ \A x, y \in Downs(L) : <<x, y>> \in Earlier(Downs(L)) <=> x.first < y.first
<1> DEFINE D == Downs(L)
           B == Earlier(D)
<1>1. D \in SUBSET L
  BY DEF Downs
<1> HIDE DEF D
<1>2. IsFiniteSet(D)
  BY <1>1, TileIs, FS_Subset
<1>3. \A x, y \in D : <<x, y>> \in B <=> x.first < y.first
  BY DEF Earlier
<1>4. \A x \in D : x \in L /\ x.first \in Int /\ x.first \in N /\ Holds(x.first, x)
  BY <1>1 DEF Tiles, Holds
<1> HIDE DEF B
<1>5. ASSUME NEW x \in D, NEW y \in D, x # y
      PROVE  <<x, y>> \in B \/ <<y, x>> \in B
  <2>1. x.first # y.first
    BY <1>4, <1>5 DEF Tiles
  <2>2. x.first < y.first \/ y.first < x.first
    BY <1>4, <2>1
  <2> QED BY <1>3, <2>2
<1>6. \A x \in D : <<x, x>> \notin B
  BY <1>3, <1>4
<1>7. \A x, y, z \in D : <<x, y>> \in B /\ <<y, z>> \in B => <<x, z>> \in B
  BY <1>3, <1>4
<1>8. Orders(B, D)
  BY <1>5, <1>6, <1>7 DEF Orders
<1> QED BY <1>2, <1>3, <1>8 DEF D, B

LEMMA PeriodsAre ==
  ASSUME LineInv, LineAt # NoData
  PROVE  LET D == Downs(Line(LineAt))
         IN /\ Len(PeriodsNow) = Cardinality(D) /\ Cardinality(D) \in Nat
            /\ DOMAIN PeriodsNow = 1 .. Cardinality(D)
            /\ \A i \in DOMAIN PeriodsNow : /\ PeriodsNow[i].segment \in D
                                            /\ PeriodsNow[i].ongoing = StillOffline(PeriodsNow[i].segment, LineAt)
            /\ \A s \in D : \E i \in DOMAIN PeriodsNow : PeriodsNow[i].segment = s
            /\ \A i, j \in DOMAIN PeriodsNow : i < j => PeriodsNow[i].segment.first < PeriodsNow[j].segment.first
<1> DEFINE L == Line(LineAt)
           D == Downs(L)
           n == Cardinality(D)
           down == OrderedBy(D, Earlier(D))
           rows == [i \in DOMAIN down |-> [segment |-> down[i], ongoing |-> StillOffline(down[i], LineAt)]]
<1>1. PeriodsNow = rows
  BY DEF PeriodsNow, OfflinePeriods, Downs, Earlier
<1>2. Tiles(L, SeenOf(lineAddress.gateway, lineRange, LineAt), lineAddress.gateway)
  BY LineParts
<1> HIDE DEF L
<1>3. /\ IsFiniteSet(D) /\ Orders(Earlier(D), D)
      /\ \A x, y \in D : <<x, y>> \in Earlier(D) <=> x.first < y.first
  BY <1>2, DownsOrdered
<1> HIDE DEF D
<1>4. /\ n \in Nat /\ DOMAIN down = 1 .. n /\ down \in Seq(D)
      /\ {down[i] : i \in DOMAIN down} = D
      /\ \A i, j \in DOMAIN down : i < j => <<down[i], down[j]>> \in Earlier(D)
  BY <1>3, InOrder
<1> HIDE DEF down, n
<1>5. \A i \in 1 .. n : down[i] \in D
  BY <1>4
<1>6. DOMAIN rows = 1 .. n /\ Len(rows) = n
  BY <1>4
<1>7. \A i \in 1 .. n : rows[i].segment = down[i] /\ rows[i].ongoing = StillOffline(down[i], LineAt)
  BY <1>4
<1> HIDE DEF rows
<1>8. \A s \in D : \E i \in 1 .. n : rows[i].segment = s
  BY <1>4, <1>7
<1>9. \A i, j \in 1 .. n : i < j => rows[i].segment.first < rows[j].segment.first
  BY <1>3, <1>4, <1>5, <1>7
<1>10. \A i \in 1 .. n : rows[i].segment \in D /\ rows[i].ongoing = StillOffline(rows[i].segment, LineAt)
  BY <1>5, <1>7
<1> QED BY <1>1, <1>4, <1>6, <1>8, <1>9, <1>10 DEF D, L, n

\* Between two stretches offline there is a moment when the gateway was not.
LEMMA DownsApart ==
  ASSUME NEW g \in Fleet, NEW base, NEW r, NEW at \in Moment, CoversRange(base, r, at),
         NEW s \in Downs(LineOf(g, base, r, at)), NEW x \in Downs(LineOf(g, base, r, at)),
         s.first < x.first
  PROVE  s.last + 2 <= x.first /\ s.last + 2 <= at
<1> DEFINE L == LineOf(g, base, r, at)
           N == SeenOf(g, r, at)
           a == FirstTick(r)
           b == LastTick(r.to)
<1>1. Tiles(L, N, g)
  BY LineTiles
<1>2. s \in L /\ x \in L /\ s.status = "offline" /\ x.status = "offline"
  BY DEF Downs
<1>3. \A l \in L : \E y \in Segments(g, base, at) : Touches(y, r) /\ l = CutAt(y, r)
  BY LineIs
<1> HIDE DEF L
<1>4. /\ s.first \in Int /\ s.last \in Int /\ s.first <= s.last
      /\ x.first \in Int /\ x.last \in Int /\ x.first <= x.last
      /\ \A t \in Int : Holds(t, s) => t \in N
      /\ \A t \in Int : Holds(t, x) => t \in N
  BY <1>1, <1>2 DEF Tiles
<1>5. s.last < x.first
  <2> SUFFICES ASSUME x.first <= s.last PROVE FALSE
    BY <1>4
  <2>1. Holds(x.first, s) /\ Holds(x.first, x) /\ x.first \in N
    BY <1>4 DEF Holds
  <2>2. s = x
    BY <1>1, <1>2, <2>1 DEF Tiles
  <2> QED BY <1>4, <2>2
<1>6. PICK y \in Segments(g, base, at) : Touches(y, r) /\ s = CutAt(y, r)
  BY <1>2, <1>3
<1>7. PICK z \in Segments(g, base, at) : Touches(z, r) /\ x = CutAt(z, r)
  BY <1>2, <1>3
<1>8. /\ s.status = y.status /\ x.status = z.status
      /\ s.last = (IF y.last <= b THEN y.last ELSE b)
      /\ x.first = (IF z.first >= a THEN z.first ELSE a)
  BY <1>6, <1>7, CutAtIs
<1>9. /\ a \in Int /\ b \in Int /\ a <= b
      /\ \A t \in 1 .. at : t \in Moments(r, at) <=> a <= t /\ t <= b
  BY CoversIs
<1>10. /\ y.last \in Int /\ ~ (y.last + 1 \in Watched(g, base, at) /\ g[y.last + 1] = y.status)
       /\ z.first \in Watched(g, base, at) /\ g[z.first] = z.status /\ z.first \in Int
  <2>1. z.first \in Int /\ z.last \in Int /\ Holds(z.first, z)
    BY SegmentIs DEF Holds
  <2> QED BY <2>1, SegmentIs
<1>11. a <= s.first /\ x.first <= b /\ x.first <= at
  <2>1. s.first \in N /\ x.first \in N
    BY <1>4 DEF Holds
  <2>2. s.first \in Moments(r, at) /\ x.first \in Moments(r, at)
    BY <2>1 DEF SeenOf
  <2>3. s.first \in 1 .. at /\ x.first \in 1 .. at
    BY <2>2, SeenInRange
  <2> QED BY <1>9, <2>2, <2>3
<1> HIDE DEF a, b, N
<1>12. ASSUME s.last + 1 = x.first PROVE FALSE
  <2>1. s.last = y.last
    BY <1>4, <1>8, <1>9, <1>10, <1>11, <1>12
  <2>2. x.first = z.first
    BY <1>4, <1>8, <1>9, <1>10, <1>11, <1>12
  <2> QED BY <1>2, <1>8, <1>10, <1>12, <2>1, <2>2
<1>13. at \in Int
  BY CoversIs
<1> QED BY <1>4, <1>5, <1>11, <1>12, <1>13

\* All of the time so far was up, down or not watched.
LEMMA TimeIsAll ==
  ASSUME LineInv, LineAt # NoData
  PROVE  TimelineStats(Line(LineAt)).observed + NoDataFor(LineAt, TimelineStats(Line(LineAt)))
           = Cardinality(Moments(lineRange, LineAt))
<1> DEFINE g == lineAddress.gateway
           at == LineAt
           r == lineRange
           stats == TimelineStats(Line(at))
           T == Moments(r, at)
           N == SeenOf(g, r, at)
           a == FirstTick(r)
           b == LastTick(r.to)
           m == Min({at, b}) - a + 1
<1>1. g \in Fleet /\ Tiles(Line(at), N, g)
  BY LineParts
<1>2. at \in Moment /\ CoversRange(LineBase(at), r, at)
  BY LineCovers
<1> DEFINE rest == (Min({at, b}) - a) + (1 - stats.observed)
<1>9. NoDataFor(at, stats) = Max({0, rest})
  <2> HIDE DEF stats
  <2> QED BY DEF NoDataFor
<1> HIDE DEF g, at, r
<1>3. stats.observed = Cardinality(N)
  <2> DEFINE L == Line(at)
  <2>1. Tiles(L, N, g)
    BY <1>1
  <2> HIDE DEF L
  <2> QED BY <2>1, StatsAre DEF L
<1>4. IsFiniteSet(T) /\ N \in SUBSET T
  BY <1>1, <1>2, SeenInRange DEF SeenOf
<1>5. Cardinality(N) \in Nat /\ Cardinality(T) \in Nat /\ Cardinality(N) <= Cardinality(T)
  BY <1>4, FS_Subset, FS_CardinalityType
<1>6. /\ at \in Nat \ {0} /\ a \in Int /\ b \in Int /\ 1 <= a /\ a <= b
      /\ \A t \in 1 .. at : t \in T <=> a <= t /\ t <= b
  <2>1. /\ at \in Nat \ {0} /\ FirstTick(LineBase(at)) \in Int /\ a \in Int /\ b \in Int
        /\ 1 <= FirstTick(LineBase(at)) /\ FirstTick(LineBase(at)) <= a /\ a <= b
        /\ \A t \in 1 .. at : t \in T <=> a <= t /\ t <= b
    BY <1>1, <1>2, CoversIs
  <2> QED BY <2>1
<1>7. T \subseteq 1 .. at
  BY DEF Moments
<1> DEFINE k == IF at <= b THEN at ELSE b
<1>8. Min({at, b}) = k /\ k \in Int
  BY <1>6, MinTwo
<1> HIDE DEF T, N, a, b, stats
<1>10. m \in Int /\ m = k - a + 1
  BY <1>6, <1>8
<1>15. rest = m - stats.observed
  <2>1. rest = (k - a) + (1 - stats.observed)
    BY <1>8
  <2>2. stats.observed \in Int
    BY <1>3, <1>5
  <2> HIDE DEF rest
  <2> QED BY <1>6, <1>8, <1>10, <2>1, <2>2
<1> HIDE DEF m, rest
<1>11. T = a .. k
  <2>1. ASSUME NEW t \in T PROVE t \in a .. k
    <3>1. t \in 1 .. at
      BY <1>7
    <3> QED BY <1>6, <3>1
  <2>2. ASSUME NEW t \in a .. k PROVE t \in T
    <3>1. t \in 1 .. at /\ a <= t /\ t <= b
      BY <1>6
    <3> QED BY <1>6, <3>1
  <2> QED BY <2>1, <2>2
<1>12. Cardinality(T) = IF a <= k THEN m ELSE 0
  <2>1. CASE a <= k
    BY <1>6, <1>8, <1>10, <1>11, <2>1, IntervalCount
  <2>2. CASE ~ (a <= k)
    <3>1. T = {}
      BY <1>6, <1>8, <1>11, <2>2
    <3> QED BY <2>2, <3>1, FS_EmptySet
  <2> QED BY <2>1, <2>2
<1>13. Max({0, m - stats.observed}) = IF 0 >= m - stats.observed THEN 0 ELSE m - stats.observed
  <2>1. m - stats.observed \in Int /\ 0 \in Int
    BY <1>3, <1>5, <1>10
  <2> QED BY <2>1, MaxTwo
<1>14. stats.observed + NoDataFor(at, stats) = Cardinality(T)
  BY <1>3, <1>5, <1>6, <1>8, <1>9, <1>10, <1>12, <1>13, <1>15
<1> QED BY <1>14 DEF at, r, stats, T

LEMMA PeriodsAreTold == LineInv => PeriodsTold
<1> SUFFICES ASSUME LineInv, LineAt # NoData
             PROVE  PeriodsTold
  BY DEF PeriodsTold
<1> DEFINE g == lineAddress.gateway
           at == LineAt
           L == Line(at)
           D == Downs(L)
           rows == PeriodsNow
           T == Moments(lineRange, at)
           N == SeenOf(g, lineRange, at)
<1>1. /\ g \in Fleet /\ Tiles(L, N, g)
      /\ L = LineOf(g, LineBase(at), lineRange, at)
      /\ \A s \in L : s.first \in Int /\ s.last \in Int
  BY LineParts
<1>2. at \in Moment /\ CoversRange(LineBase(at), lineRange, at)
  BY LineCovers
<1>3. /\ Len(rows) = Cardinality(D) /\ Cardinality(D) \in Nat
      /\ DOMAIN rows = 1 .. Cardinality(D)
      /\ \A i \in DOMAIN rows : /\ rows[i].segment \in D
                                /\ rows[i].ongoing = StillOffline(rows[i].segment, at)
      /\ \A s \in D : \E i \in DOMAIN rows : rows[i].segment = s
      /\ \A i, j \in DOMAIN rows : i < j => rows[i].segment.first < rows[j].segment.first
  BY PeriodsAre
<1>4. TimelineStats(Line(LineAt)).observed + NoDataFor(LineAt, TimelineStats(Line(LineAt)))
           = Cardinality(Moments(lineRange, LineAt))
  BY TimeIsAll
<1> HIDE DEF L, rows
<1>5. \A i \in DOMAIN rows : /\ rows[i].segment \in L /\ rows[i].segment.status = "offline"
                             /\ rows[i].segment.first \in Int /\ rows[i].segment.last \in Int
  BY <1>1, <1>3 DEF Downs
<1>6. ASSUME NEW t
      PROVE  (t \in T /\ g[t] = "offline") <=> \E i \in DOMAIN rows : t \in rows[i].segment.first .. rows[i].segment.last
  <2>1. ASSUME t \in T, g[t] = "offline"
        PROVE  \E i \in DOMAIN rows : t \in rows[i].segment.first .. rows[i].segment.last
    <3>1. t \in N /\ t \in Int
      BY <1>1, <2>1 DEF SeenOf, Tiles
    <3>2. PICK l \in L : Holds(t, l)
      BY <1>1, <3>1 DEF Tiles
    <3>3. l.status = "offline"
      BY <1>1, <2>1, <3>1, <3>2 DEF Tiles
    <3>4. PICK i \in DOMAIN rows : rows[i].segment = l
      BY <1>3, <3>3 DEF Downs
    <3>5. l.first \in Int /\ l.last \in Int
      BY <1>1
    <3>6. t \in l.first .. l.last
      BY <3>1, <3>2, <3>5 DEF Holds
    <3> QED BY <3>4, <3>6
  <2>2. ASSUME NEW i \in DOMAIN rows, t \in rows[i].segment.first .. rows[i].segment.last
        PROVE  t \in T /\ g[t] = "offline"
    <3>1. t \in Int /\ Holds(t, rows[i].segment)
      BY <1>5, <2>2 DEF Holds
    <3>2. t \in N /\ g[t] = rows[i].segment.status
      BY <1>1, <1>5, <3>1 DEF Tiles
    <3> QED BY <1>5, <3>2 DEF SeenOf
  <2> QED BY <2>1, <2>2
<1>7. {t \in T : g[t] = "offline"} = UNION {rows[i].segment.first .. rows[i].segment.last : i \in DOMAIN rows}
  BY <1>6
<1>8. ASSUME NEW i \in DOMAIN rows, rows[i].ongoing
      PROVE  i = Len(rows)
  <2> SUFFICES ASSUME i # Len(rows) PROVE FALSE
    OBVIOUS
  <2> DEFINE s == rows[i].segment
             x == rows[i + 1].segment
  <2>1. i + 1 \in DOMAIN rows /\ i < i + 1
    BY <1>3
  <2>2. s.first < x.first /\ s \in D /\ x \in D
    BY <1>3, <2>1
  <2>3. StillOffline(s, at)
    BY <1>3, <1>8
  <2>4. s.last \in Int
    BY <1>5
  <2> HIDE DEF s, x
  <2>5. s.last + 2 <= at
    BY <1>1, <1>2, <2>2, DownsApart
  <2>6. at - s.last < RecentEnd /\ RecentEnd \in 0 .. 2
    BY <2>3, TimelineAssumption DEF StillOffline
  <2>7. at \in Int
    BY <1>2, ConstantsAre DEF Moment
  <2> QED BY <2>4, <2>5, <2>6, <2>7
<1> QED BY <1>4, <1>7, <1>8 DEF PeriodsTold, L, rows

-----------------------------------------------------------------------------
(* The page of one gateway is rendered.                                    *)
BundleKeys == LineGateway \X Int
CustomKeys == LineGateway \X AnyRange
TableStates == [page : Nat, size : Nat \ {0}]

LEMMA LineRenderKeeps ==
  ASSUME LineInv, NEW address, address.gateway \in LineGateway, NEW r, Answered(r),
         NEW b \in FreshLoad(BundleKeys), NEW c \in FreshLoad(CustomKeys),
         NEW w, w = NoView \/ Inside(w, Full(lineRange)), NEW t \in TableStates,
         LineRender(address, r, b, c, w, t)
  PROVE  LineInv'
<1> DEFINE day == DayOf(time)
           on == Presets(r, day) = {}
           yes == TRUE
           bkey == <<address.gateway, day>>
           ckey == LineKey(address.gateway, r)
           changed == ckey # LineKey(lineAddress.gateway, lineRange)
<1>1. ClockInv /\ time \in Moment /\ day \in Int /\ day >= DataFrom /\ time' = time
  BY ClockDay DEF LineInv, ClockInv, LineRender
<1>2. /\ lineAddress' = address /\ lineRange' = r /\ lineToday' = day
      /\ lineBundle' = Effect(b, bkey, yes) /\ lineCustom' = Effect(c, ckey, on)
      /\ chart' = WindowAfter(changed, w) /\ lineTable' = IF changed THEN FirstPage(t) ELSE t
  BY DEF LineRender
<1>3. bkey \in BundleKeys /\ ckey \in CustomKeys
  BY <1>1 DEF BundleKeys, CustomKeys, LineKey, Answered
<1>4. yes \in BOOLEAN /\ on \in BOOLEAN
  OBVIOUS
<1>5. ~changed => r = lineRange
  BY DEF LineKey
<1>6. FirstPage(t) \in TableStates
  BY DEF FirstPage, TableStates
<1> HIDE DEF day, on, yes, bkey, ckey, changed
<1>7. lineBundle' \in FreshLoad(BundleKeys)
  BY <1>1, <1>2, <1>3, <1>4, EffectIs
<1>8. lineCustom' \in FreshLoad(CustomKeys)
  BY <1>1, <1>2, <1>3, <1>4, EffectIs
<1>9. ClockInv'
  BY <1>1 DEF ClockInv
<1>10. Answered(lineRange') /\ lineAddress'.gateway \in LineGateway /\ lineToday' \in Int /\ lineToday' >= DataFrom
  BY <1>1, <1>2
<1>11. chart' = NoView \/ Inside(chart', Full(lineRange'))
  BY <1>2, <1>5 DEF WindowAfter
<1>12. lineTable' \in TableStates
  BY <1>2, <1>6
<1> QED BY <1>7, <1>8, <1>9, <1>10, <1>11, <1>12 DEF LineInv, BundleKeys, CustomKeys, TableStates

LEMMA SmallestSize == Min(TableSizes) \in Nat \ {0}
<1>1. \A x \in TableSizes : x \in Int
  BY TimelineAssumption
<1>2. Min(TableSizes) \in TableSizes
  BY <1>1, TimelineAssumption, MinFound
<1> QED BY <1>2, TimelineAssumption

LEMMA LineInitially == LineInit => LineInv
<1> SUFFICES ASSUME LineInit PROVE LineInv
  OBVIOUS
<1>1. ClockInv
  BY ClockFirst DEF LineInit
<1>2. DayOf(time) \in Int /\ DayOf(time) >= DataFrom /\ lineToday = DayOf(time) /\ time \in Moment
  BY <1>1, ClockDay DEF LineInit, ClockInv
<1>3. lineAddress.gateway \in LineGateway /\ lineAddress.url \in Url
  BY DEF LineInit
<1>4. Answered(lineRange)
  BY <1>2, <1>3, UrlAny, UrlAnswered DEF LineInit
<1> DEFINE bkey == <<lineAddress.gateway, lineToday>>
           ckey == LineKey(lineAddress.gateway, lineRange)
<1>5. bkey \in BundleKeys /\ ckey \in CustomKeys
  BY <1>2, <1>3, <1>4 DEF BundleKeys, CustomKeys, LineKey, Answered
<1>6. lineBundle = Loading(bkey) /\ (lineCustom = Loading(ckey) \/ lineCustom = SwitchedOff(ckey))
  BY DEF LineInit, SwitchedOff
<1> HIDE DEF bkey, ckey
<1>7. lineBundle \in FreshLoad(BundleKeys)
  BY <1>2, <1>5, <1>6, LoadingIs
<1>8. lineCustom \in FreshLoad(CustomKeys)
  BY <1>2, <1>5, <1>6, LoadingIs, SwitchedOffIs
<1>9. lineTable \in TableStates
  <2>1. Min(TableSizes) \in Nat \ {0}
    BY SmallestSize
  <2> QED BY <2>1 DEF LineInit, TableStates
<1>10. chart = NoView
  BY DEF LineInit
<1> QED BY <1>1, <1>2, <1>3, <1>4, <1>7, <1>8, <1>9, <1>10 DEF LineInv, BundleKeys, CustomKeys, TableStates

LEMMA LineHas ==
  ASSUME LineInv
  PROVE  /\ ClockInv /\ time \in Moment /\ Answered(lineRange) /\ lineAddress.gateway \in LineGateway
         /\ lineBundle \in FreshLoad(BundleKeys) /\ lineCustom \in FreshLoad(CustomKeys)
         /\ lineTable \in TableStates
         /\ chart = NoView \/ Inside(chart, Full(lineRange))
         /\ lineToday \in Int /\ lineToday >= DataFrom
BY DEF LineInv, ClockInv, BundleKeys, CustomKeys, TableStates

LEMMA LineLoadedKeeps ==
  ASSUME LineInv, NEW b \in FreshLoad(BundleKeys), NEW c \in FreshLoad(CustomKeys), LineLoaded(b, c)
  PROVE  LineInv'
BY LineHas, LineRenderKeeps DEF LineLoaded

LEMMA LineRefreshesKeep ==
  ASSUME LineInv, LineRefreshBundle \/ LineRefreshCustom
  PROVE  LineInv'
<1>1. Requested(lineBundle) \in FreshLoad(BundleKeys) /\ Requested(lineCustom) \in FreshLoad(CustomKeys)
  BY LineHas, RequestedIs
<1>2. CASE LineLoaded(Requested(lineBundle), lineCustom) \/ LineLoaded(lineBundle, Requested(lineCustom))
  BY <1>1, <1>2, LineHas, LineLoadedKeeps
<1>3. CASE /\ lineBundle' \in {lineBundle, Requested(lineBundle)}
           /\ lineCustom' \in {lineCustom, Requested(lineCustom)}
           /\ UNCHANGED <<time, lineAddress, lineRange, lineToday, chart, lineTable>>
  <2>1. lineBundle' \in FreshLoad(BundleKeys) /\ lineCustom' \in FreshLoad(CustomKeys)
    BY <1>1, <1>3, LineHas
  <2>2. ClockInv' /\ UNCHANGED <<lineAddress, lineRange, lineToday, chart, lineTable>>
    BY <1>3, LineHas DEF ClockInv
  <2> QED BY <2>1, <2>2 DEF LineInv, BundleKeys, CustomKeys
<1> QED BY <1>2, <1>3 DEF LineRefreshBundle, LineRefreshCustom

LEMMA LineAnswerKeeps ==
  ASSUME LineInv, LineAnswer
  PROVE  LineInv'
<1>1. time \in Moment /\ lineBundle \in FreshLoad(BundleKeys) /\ lineCustom \in FreshLoad(CustomKeys)
  BY LineHas
<1>2. ASSUME NEW asked \in lineBundle.out, NEW at \in asked .. time, LineLoaded(Landed(lineBundle, asked, at), lineCustom)
      PROVE  LineInv'
  BY <1>1, <1>2, AnswersInTime, LandedIs, LineLoadedKeeps
<1>3. ASSUME NEW asked \in lineBundle.out, LineLoaded(StatusFailed(lineBundle, asked), lineCustom)
      PROVE  LineInv'
  BY <1>1, <1>3, FailedIs, LineLoadedKeeps
<1>4. ASSUME NEW asked \in lineCustom.out, NEW at \in asked .. time, LineLoaded(lineBundle, Landed(lineCustom, asked, at))
      PROVE  LineInv'
  BY <1>1, <1>4, AnswersInTime, LandedIs, LineLoadedKeeps
<1>5. ASSUME NEW asked \in lineCustom.out, LineLoaded(lineBundle, StatusFailed(lineCustom, asked))
      PROVE  LineInv'
  BY <1>1, <1>5, FailedIs, LineLoadedKeeps
<1> QED BY <1>2, <1>3, <1>4, <1>5 DEF LineAnswer

LEMMA LineReloadKeeps ==
  ASSUME LineInv, LineReload
  PROVE  LineInv'
<1>1. AskAgain(lineBundle) \in FreshLoad(BundleKeys) /\ AskAgain(lineCustom) \in FreshLoad(CustomKeys)
  BY LineHas, AskAgainIs
<1> QED BY <1>1, LineHas, LineRenderKeeps DEF LineReload

LEMMA LineGoToKeeps ==
  ASSUME LineInv, NEW g \in LineGateway, NEW u \in AnyUrl, LineGoTo(g, u)
  PROVE  LineInv'
<1> DEFINE r == IF u = lineAddress.url THEN lineRange ELSE RangeFromParams(u, DayOf(time))
           address == [gateway |-> g, url |-> u]
<1>1. Answered(RangeFromParams(u, DayOf(time)))
  BY LineHas, ClockDay, UrlAnswered
<1>2. Answered(r) /\ address.gateway \in LineGateway
  BY <1>1, LineHas
<1>3. LineRender(address, r, lineBundle, lineCustom, chart, lineTable)
  BY DEF LineGoTo
<1> HIDE DEF r, address
<1> QED BY <1>2, <1>3, LineHas, LineRenderKeeps

LEMMA LineZoomKeeps ==
  ASSUME LineInv, NEW w, Inside(w, Full(lineRange)), LineZoom(w)
  PROVE  LineInv'
BY LineHas, LineRenderKeeps DEF LineZoom

LEMMA ZoomsKeep ==
  ASSUME LineInv, LineAt # NoData, PressZoomIn \/ PressZoomOut \/ PressFull
  PROVE  LineInv'
<1> DEFINE full == Full(lineRange)
           w == ShownWindow
           L == Line(LineAt)
<1>1. full \in AnyWindow /\ full.from < full.to /\ Inside(w, full)
  BY LineHas, FullIs, ShownInside
<1>2. L # {} => Extent(L) \in AnyWindow
  BY LineExtent
<1>5. \/ LineZoom(ZoomIn(w, L, full)) \/ LineZoom(ZoomOut(w, full)) \/ LineZoom(full)
  BY DEF PressZoomIn, PressZoomOut, PressFull
<1>6. full = Full(lineRange)
  OBVIOUS
<1> HIDE DEF full, w, L
<1>3. Anchor(w, L) \in Int
  BY <1>1, <1>2, AnchorIs DEF Inside
<1>4. Inside(ZoomOut(w, full), full) /\ Inside(ZoomIn(w, L, full), full) /\ Inside(full, full)
  BY <1>1, <1>3, ZoomsInside DEF Inside, AnyWindow
<1> QED BY <1>4, <1>5, <1>6, LineZoomKeeps

LEMMA DragKeeps ==
  ASSUME LineInv, NEW a \in Int, NEW b \in Int, Drag(a, b)
  PROVE  LineInv'
<1> DEFINE w == Window(Min({a, b}), Max({a, b}))
           full == Full(lineRange)
<1>1. w \in AnyWindow
  <2>1. Min({a, b}) \in Int /\ Max({a, b}) \in Int
    BY MinTwo, MaxTwo
  <2> QED BY <2>1 DEF Window, AnyWindow
<1>2. full \in AnyWindow /\ full.from < full.to /\ LineZoom(ClampView(w, full))
  BY LineHas, FullIs DEF Drag
<1>3. full = Full(lineRange)
  OBVIOUS
<1> HIDE DEF w, full
<1>4. Inside(ClampView(w, full), full)
  BY <1>1, <1>2, ClampInside
<1> QED BY <1>2, <1>3, <1>4, LineZoomKeeps

\* A row of the table is one of the periods.
LEMMA ShownIs ==
  ASSUME LineInv, LineAt # NoData, NEW i \in DOMAIN ShownPeriods
  PROVE  \E j \in DOMAIN PeriodsNow : ShownPeriods[i] = PeriodsNow[j]
<1> DEFINE n == Len(PeriodsNow)
           q == PeriodsNow
           m == lineTable.page * lineTable.size + 1
           k == Min({(lineTable.page + 1) * lineTable.size, n})
<1>1. n \in Nat /\ DOMAIN q = 1 .. n
  BY PeriodsAre
<1>2. lineTable.page \in Nat /\ lineTable.size \in Nat
  BY LineHas DEF TableStates
<1>3. ShownPeriods = SubSeq(q, m, k)
  BY DEF ShownPeriods
<1> HIDE DEF q
<1> DEFINE z == (lineTable.page + 1) * lineTable.size
<1>4. m \in Nat /\ m >= 1 /\ z \in Int
  BY <1>2
<1>5. k = IF z <= n THEN z ELSE n
  BY <1>1, <1>4, MinTwo
<1> HIDE DEF z, n
<1>6. k \in Int /\ k <= n
  BY <1>1, <1>4, <1>5
<1> HIDE DEF m, k
<1>7. \A x \in m .. k : q[x] \in {q[y] : y \in 1 .. n}
  BY <1>1, <1>4, <1>6 DEF q, n
<1>8. i \in 1 .. (k - m + 1) /\ ShownPeriods[i] = q[m + i - 1]
  <2> DEFINE S == {q[y] : y \in 1 .. n}
             sub == SubSeq(q, m, k)
  <2>1. \A x \in m .. k : q[x] \in S
    BY <1>7
  <2> HIDE DEF S
  <2>2. /\ sub \in Seq(S) /\ Len(sub) = IF m <= k THEN k - m + 1 ELSE 0
        /\ \A x \in 1 .. k - m + 1 : sub[x] = q[m + x - 1]
    BY <1>4, <1>6, <2>1, SubSeqProperties
  <2>3. ShownPeriods = sub
    BY <1>3
  <2> HIDE DEF sub
  <2>4. i \in 1 .. Len(sub)
    BY <2>2, <2>3
  <2>5. i \in 1 .. k - m + 1
    BY <1>4, <1>6, <2>2, <2>4
  <2> QED BY <2>2, <2>3, <2>5
<1>9. m + i - 1 \in 1 .. n
  BY <1>1, <1>4, <1>6, <1>8
<1> QED BY <1>1, <1>8, <1>9 DEF q, n

LEMMA PressPeriodKeeps ==
  ASSUME LineInv, NEW i \in DOMAIN ShownPeriods, PressPeriod(i)
  PROVE  LineInv'
<1> DEFINE s == ShownPeriods[i].segment
           full == Full(lineRange)
<1>1. LineAt # NoData /\ LineZoom(Around(s, full))
  BY DEF PressPeriod, LineZoom
<1>2. PICK j \in DOMAIN PeriodsNow : ShownPeriods[i] = PeriodsNow[j]
  BY <1>1, ShownIs
<1>3. s \in Downs(Line(LineAt))
  <2>1. PeriodsNow[j].segment \in Downs(Line(LineAt))
    BY <1>1, PeriodsAre
  <2> QED BY <1>2, <2>1
<1>4. full \in AnyWindow /\ full.from < full.to
  BY LineHas, FullIs
<1>5. full = Full(lineRange)
  OBVIOUS
<1> HIDE DEF s, full
<1>6. s \in Line(LineAt)
  BY <1>3 DEF Downs
<1>7. Inside(Stretch(s), full)
  BY <1>1, <1>5, <1>6, LineExtent
<1>8. Inside(Around(s, full), full)
  BY <1>4, <1>7, AroundIs
<1> QED BY <1>1, <1>5, <1>8, LineZoomKeeps

LEMMA TurnToKeeps ==
  ASSUME LineInv, NEW t \in TableStates, TurnTo(t)
  PROVE  LineInv'
BY LineHas, LineRenderKeeps DEF TurnTo

LEMMA LineKept ==
  ASSUME LineInv, [LineNext]_<<time, lineVars>>
  PROVE  LineInv'
<1>1. CASE LineTimePasses
  <2>1. ClockInv' /\ UNCHANGED lineVars
    BY <1>1, LineHas, ClockKept DEF LineTimePasses, TimePasses
  <2> QED BY <2>1 DEF LineInv, lineVars
<1>2. CASE LineRefreshBundle \/ LineRefreshCustom
  BY <1>2, LineRefreshesKeep
<1>3. CASE LineAnswer
  BY <1>3, LineAnswerKeeps
<1>4. CASE LineReload
  BY <1>4, LineReloadKeeps
<1>5. ASSUME NEW g \in LineGateway, NEW u \in Url, LineGoTo(g, u)
      PROVE  LineInv'
  BY <1>5, UrlAny, LineGoToKeeps
<1>6. ASSUME NEW p \in Preset, ClickRange(p)
      PROVE  LineInv'
  <2>1. PresetRange(p, lineToday) \in AnyRange
    BY LineHas, PresetAnswered DEF Answered
  <2>2. RangeToParams(PresetRange(p, lineToday), DayOf(time)) \in AnyUrl
    BY <2>1, ParamsAny
  <2> QED BY <1>6, <2>2, LineHas, LineGoToKeeps DEF ClickRange
<1>7. ASSUME NEW a \in Full(lineRange).from .. Full(lineRange).to, NEW b \in Full(lineRange).from .. Full(lineRange).to,
             Drag(a, b)
      PROVE  LineInv'
  BY <1>7, DragKeeps
<1>8. CASE PressZoomIn \/ PressZoomOut \/ PressFull
  <2>1. LineAt # NoData
    BY <1>8 DEF PressZoomIn, PressZoomOut, PressFull, LineZoom
  <2> QED BY <1>8, <2>1, ZoomsKeep
<1>9. ASSUME NEW i \in DOMAIN ShownPeriods, PressPeriod(i)
      PROVE  LineInv'
  BY <1>9, PressPeriodKeeps
<1>10. ASSUME NEW to \in 0 .. LastMoment, TurnPage(to)
      PROVE  LineInv'
  <2>1. [lineTable EXCEPT !.page = to] \in TableStates
    <3>1. to \in Nat /\ lineTable \in TableStates
      BY LineHas, ConstantsAre
    <3> QED BY <3>1 DEF TableStates
  <2> QED BY <1>10, <2>1, TurnToKeeps DEF TurnPage
<1>11. ASSUME NEW n \in TableSizes, ChooseSize(n)
      PROVE  LineInv'
  <2>1. [page |-> 0, size |-> n] \in TableStates
    BY TimelineAssumption DEF TableStates
  <2> QED BY <1>11, <2>1, TurnToKeeps DEF ChooseSize
<1>12. CASE UNCHANGED <<time, lineVars>>
  <2>1. ClockInv'
    BY <1>12, LineHas DEF ClockInv
  <2> QED BY <1>12, <2>1 DEF LineInv, lineVars
<1> QED BY <1>1, <1>2, <1>3, <1>4, <1>5, <1>6, <1>7, <1>8, <1>9, <1>10, <1>11, <1>12 DEF LineNext

-----------------------------------------------------------------------------
(* Why a gateway may have been offline.                                    *)
ReasonsInv ==
  outages \in [periods : Seq(OfflinePeriod), still : BOOLEAN, beats : {o.beats : o \in Outages}]

LEMMA ReasonsKept ==
  /\ ReasonsInit => ReasonsInv
  /\ ReasonsInv /\ [ReadAgain]_reasonVars => ReasonsInv'
<1>1. ReasonsInit => ReasonsInv
  BY OutagesAssumption DEF ReasonsInit, ReasonsInv
<1>2. ASSUME ReasonsInv, [ReadAgain]_reasonVars
      PROVE  ReasonsInv'
  <2>1. outages' \in {outages, [outages EXCEPT !.still = FALSE]}
    BY <1>2 DEF ReadAgain, reasonVars
  <2> QED BY <1>2, <2>1 DEF ReasonsInv
<1> QED BY <1>1, <1>2

\* Reasons with labels that differ: what is told of them, one after the other.
Labels(s) == {s[k].label : k \in DOMAIN s}
Listed(s, R) ==
  /\ s \in Seq(R)
  /\ \A i, j \in DOMAIN s : s[i].label = s[j].label => i = j

JoinIs(u, s, t, R) ==
  /\ Listed(u, R) /\ Labels(u) = Labels(s) \cup Labels(t)
  /\ Len(u) = Len(s) + Len(t) /\ Len(s) \in Nat /\ Len(t) \in Nat
  /\ Len(s) > 0 => u[1] = s[1]
  /\ Len(s) = 0 => u = t
  /\ Len(t) > 0 => u[Len(s) + 1] = t[1]
Share(s, t) == \E l \in Labels(s) : l \in Labels(t)

LEMMA Joined ==
  ASSUME NEW R, NEW s, NEW t, Listed(s, R), Listed(t, R), ~Share(s, t)
  PROVE  JoinIs(s \o t, s, t, R)
<1> DEFINE m == Len(s)
           n == Len(t)
           u == s \o t
<1>1. s \in Seq(R) /\ t \in Seq(R) /\ m \in Nat /\ n \in Nat /\ DOMAIN s = 1 .. m /\ DOMAIN t = 1 .. n
  BY DEF Listed
<1>2. /\ u \in Seq(R) /\ Len(u) = m + n
      /\ \A i \in 1 .. m + n : u[i] = IF i <= m THEN s[i] ELSE t[i - m]
  BY <1>1, ConcatProperties
<1>3. DOMAIN u = 1 .. m + n
  BY <1>2
<1>4. s = <<>> <=> m = 0
  BY <1>1, EmptySeq
<1>5. s = <<>> => u = t
  BY <1>1, ConcatEmptySeq
<1> HIDE DEF u, m, n
<1>6. Labels(u) = Labels(s) \cup Labels(t)
  <2>1. ASSUME NEW l \in Labels(u)
        PROVE  l \in Labels(s) \cup Labels(t)
    <3>1. PICK i \in 1 .. m + n : l = u[i].label
      BY <1>3 DEF Labels
    <3>2. CASE i <= m
      <4>1. i \in 1 .. m /\ l = s[i].label
        BY <1>1, <1>2, <3>1, <3>2
      <4> QED BY <1>1, <4>1 DEF Labels
    <3>3. CASE i > m
      <4>1. i - m \in 1 .. n /\ l = t[i - m].label
        BY <1>1, <1>2, <3>1, <3>3
      <4> QED BY <1>1, <4>1 DEF Labels
    <3>4. i \in Int /\ m \in Int
      BY <1>1, <3>1
    <3> QED BY <3>2, <3>3, <3>4
  <2>2. ASSUME NEW l \in Labels(s)
        PROVE  l \in Labels(u)
    <3>1. PICK i \in 1 .. m : l = s[i].label
      BY <1>1 DEF Labels
    <3>2. i \in 1 .. m + n /\ l = u[i].label
      BY <1>1, <1>2, <3>1
    <3> QED BY <1>3, <3>2 DEF Labels
  <2>3. ASSUME NEW l \in Labels(t)
        PROVE  l \in Labels(u)
    <3>1. PICK i \in 1 .. n : l = t[i].label
      BY <1>1 DEF Labels
    <3>2. i + m \in 1 .. m + n /\ i + m > m /\ (i + m) - m = i
      BY <1>1
    <3>3. l = u[i + m].label
      BY <1>1, <1>2, <3>1, <3>2
    <3> QED BY <1>3, <3>2, <3>3 DEF Labels
  <2> QED BY <2>1, <2>2, <2>3
<1>7. ASSUME NEW i \in 1 .. m + n, NEW j \in 1 .. m + n, u[i].label = u[j].label
      PROVE  i = j
  <2>1. ASSUME NEW a \in 1 .. m + n, NEW b \in 1 .. m + n, a <= m, b > m
        PROVE  u[a].label # u[b].label
    <3>1. u[a] = s[a] /\ a \in 1 .. m /\ u[b] = t[b - m] /\ b - m \in 1 .. n
      BY <1>1, <1>2, <2>1
    <3>2. u[a].label \in Labels(s) /\ u[b].label \in Labels(t)
      BY <1>1, <3>1 DEF Labels
    <3> QED BY <3>2 DEF Share
  <2>2. CASE i <= m /\ j <= m
    BY <1>1, <1>2, <1>7, <2>2 DEF Listed
  <2>3. CASE i > m /\ j > m
    <3>1. u[i] = t[i - m] /\ i - m \in 1 .. n /\ u[j] = t[j - m] /\ j - m \in 1 .. n
      BY <1>1, <1>2, <2>3
    <3>2. i - m = j - m
      BY <1>1, <1>7, <3>1 DEF Listed
    <3> QED BY <1>1, <3>2
  <2> QED BY <1>1, <1>7, <2>1, <2>2, <2>3
<1>8. (m > 0 => u[1] = s[1]) /\ (m = 0 => u = t)
  BY <1>1, <1>2, <1>4, <1>5
<1>9. Listed(u, R)
  BY <1>2, <1>3, <1>7 DEF Listed
<1>10. n > 0 => u[m + 1] = t[1]
  <2>1. ASSUME n > 0
        PROVE  m + 1 \in 1 .. m + n /\ ~(m + 1 <= m) /\ (m + 1) - m = 1
    BY <1>1, <2>1
  <2> QED BY <1>2, <2>1
<1> QED BY <1>1, <1>2, <1>6, <1>8, <1>9, <1>10 DEF JoinIs, u, m, n

\* A reason that is there or not.
LEMMA WhenIs ==
  ASSUME NEW R, NEW c \in BOOLEAN, NEW r \in R
  PROVE  /\ Listed(When(c, r), R)
         /\ c => When(c, r) = <<r>> /\ Labels(When(c, r)) = {r.label} /\ Len(When(c, r)) = 1
         /\ ~c => When(c, r) = <<>> /\ Labels(When(c, r)) = {} /\ Len(When(c, r)) = 0
<1>1. CASE c
  <2> DEFINE s == <<r>>
  <2>1. s \in Seq(R) /\ Len(s) = 1 /\ DOMAIN s = 1 .. 1 /\ s[1] = r
    OBVIOUS
  <2>2. When(c, r) = s
    BY <1>1 DEF When
  <2> HIDE DEF s
  <2>3. Listed(s, R) /\ Labels(s) = {r.label}
    <3>1. \A i \in DOMAIN s : i = 1
      BY <2>1
    <3>2. 1 \in DOMAIN s
      BY <2>1
    <3> QED BY <2>1, <3>1, <3>2 DEF Listed, Labels
  <2> QED BY <1>1, <2>1, <2>2, <2>3 DEF s
<1>2. CASE ~c
  <2> DEFINE s == <<>>
  <2>1. When(c, r) = s /\ s \in Seq(R) /\ Len(s) = 0 /\ DOMAIN s = {}
    BY <1>2 DEF When
  <2> HIDE DEF s
  <2>2. Listed(s, R) /\ Labels(s) = {}
    BY <2>1 DEF Listed, Labels
  <2> QED BY <1>2, <2>1, <2>2 DEF s
<1> QED BY <1>1, <1>2

LEMMA PairIs ==
  ASSUME NEW R, NEW q \in R, NEW r \in R, q.label # r.label
  PROVE  /\ Listed(<<q, r>>, R) /\ Labels(<<q, r>>) = {q.label, r.label} /\ Len(<<q, r>>) = 2
<1> DEFINE s == <<q, r>>
<1>1. s \in Seq(R) /\ Len(s) = 2 /\ DOMAIN s = 1 .. 2 /\ s[1] = q /\ s[2] = r
  OBVIOUS
<1> HIDE DEF s
<1>2. \A i \in DOMAIN s : i = 1 \/ i = 2
  BY <1>1
<1>3. 1 \in DOMAIN s /\ 2 \in DOMAIN s
  BY <1>1
<1>4. Labels(s) = {q.label, r.label}
  BY <1>1, <1>2, <1>3 DEF Labels
<1>5. Listed(s, R)
  BY <1>1, <1>2 DEF Listed
<1> QED BY <1>1, <1>4, <1>5 DEF s

\* What is told of a period: the service's reason, or what it looks like.
LooksLike == {"probably a reboot", "recurs", "unstable", "blip", "internet", "short power cut", "power cut",
              "mobile network", "extended", "device fault", "down"}
Told(p) == {Inferred(l) : l \in LooksLike} \cup {Confirmed(p.reason)}

LEMMA InferredIs == \A l : Inferred(l).label = l /\ Confirmed(l).label = l
BY DEF Inferred, Confirmed

LEMMA TenLooks ==
  /\ "probably a reboot" \in LooksLike /\ "recurs" \in LooksLike /\ "unstable" \in LooksLike
  /\ "blip" \in LooksLike /\ "internet" \in LooksLike /\ "short power cut" \in LooksLike
  /\ "power cut" \in LooksLike /\ "mobile network" \in LooksLike /\ "extended" \in LooksLike
  /\ "device fault" \in LooksLike /\ "down" \in LooksLike
BY DEF LooksLike

LEMMA LooksTold == \A p : (\A l \in LooksLike : Inferred(l) \in Told(p)) /\ Confirmed(p.reason) \in Told(p)
BY DEF Told

LengthLabels == {"blip", "internet", "short power cut", "power cut", "mobile network", "extended", "device fault", "down"}

LEMMA LengthTold ==
  ASSUME NEW p \in OfflinePeriod
  PROVE  /\ Listed(ByLength(p), Told(p)) /\ Labels(ByLength(p)) \subseteq LengthLabels
         /\ (p.seconds <= 5 * Minute /\ NearReboot(p)) \/ Len(ByLength(p)) > 0
<1> DEFINE R == Told(p)
           c == ~NearReboot(p)
<1>1. /\ Inferred("blip") \in R /\ Inferred("internet") \in R /\ Inferred("short power cut") \in R
      /\ Inferred("power cut") \in R /\ Inferred("mobile network") \in R /\ Inferred("extended") \in R
      /\ Inferred("device fault") \in R /\ Inferred("down") \in R
  BY TenLooks, LooksTold
<1>2. \A l : Inferred(l).label = l
  BY InferredIs
<1>3. c \in BOOLEAN
  BY DEF NearReboot
<1>4. \/ ByLength(p) = When(c, Inferred("blip")) /\ p.seconds <= 5 * Minute
      \/ ByLength(p) = <<Inferred("internet"), Inferred("short power cut")>>
      \/ ByLength(p) = <<Inferred("power cut"), Inferred("mobile network")>>
      \/ ByLength(p) = <<Inferred("extended"), Inferred("device fault")>>
      \/ ByLength(p) = <<Inferred("down"), Inferred("device fault")>>
  BY DEF ByLength
<1> HIDE DEF R
<1>5. CASE ByLength(p) = When(c, Inferred("blip")) /\ p.seconds <= 5 * Minute
  <2> DEFINE b == Inferred("blip")
  <2>1. b \in R /\ b.label = "blip"
    BY <1>1, <1>2
  <2>2. c = TRUE \/ NearReboot(p)
    OBVIOUS
  <2>3. ByLength(p) = When(c, b)
    BY <1>5
  <2> HIDE DEF b, c
  <2>4. /\ Listed(When(c, b), R)
        /\ c => Labels(When(c, b)) = {b.label} /\ Len(When(c, b)) = 1
        /\ ~c => Labels(When(c, b)) = {}
    BY <1>3, <2>1, WhenIs
  <2>5. Labels(ByLength(p)) \subseteq LengthLabels
    BY <2>1, <2>3, <2>4 DEF LengthLabels
  <2>6. (p.seconds <= 5 * Minute /\ NearReboot(p)) \/ Len(ByLength(p)) > 0
    BY <1>5, <2>2, <2>3, <2>4
  <2> QED BY <2>3, <2>4, <2>5, <2>6 DEF R
<1>6. ASSUME NEW q \in R, NEW r \in R, q.label # r.label, ByLength(p) = <<q, r>>,
             q.label \in LengthLabels, r.label \in LengthLabels
      PROVE  Listed(ByLength(p), R) /\ Labels(ByLength(p)) \subseteq LengthLabels /\ Len(ByLength(p)) > 0
  <2>1. Listed(<<q, r>>, R) /\ Labels(<<q, r>>) = {q.label, r.label} /\ Len(<<q, r>>) = 2
    BY <1>6, PairIs
  <2> QED BY <1>6, <2>1
<1>7. /\ Inferred("internet").label = "internet" /\ Inferred("short power cut").label = "short power cut"
      /\ Inferred("power cut").label = "power cut" /\ Inferred("mobile network").label = "mobile network"
      /\ Inferred("extended").label = "extended" /\ Inferred("device fault").label = "device fault"
      /\ Inferred("down").label = "down"
  BY <1>2
<1>8. CASE ByLength(p) = <<Inferred("internet"), Inferred("short power cut")>>
  <2>1. Listed(ByLength(p), R) /\ Labels(ByLength(p)) \subseteq LengthLabels /\ Len(ByLength(p)) > 0
    BY <1>1, <1>6, <1>7, <1>8 DEF LengthLabels
  <2> QED BY <2>1 DEF R
<1>9. CASE ByLength(p) = <<Inferred("power cut"), Inferred("mobile network")>>
  <2>1. Listed(ByLength(p), R) /\ Labels(ByLength(p)) \subseteq LengthLabels /\ Len(ByLength(p)) > 0
    BY <1>1, <1>6, <1>7, <1>9 DEF LengthLabels
  <2> QED BY <2>1 DEF R
<1>10. CASE ByLength(p) = <<Inferred("extended"), Inferred("device fault")>>
  <2>1. Listed(ByLength(p), R) /\ Labels(ByLength(p)) \subseteq LengthLabels /\ Len(ByLength(p)) > 0
    BY <1>1, <1>6, <1>7, <1>10 DEF LengthLabels
  <2> QED BY <2>1 DEF R
<1>11. CASE ByLength(p) = <<Inferred("down"), Inferred("device fault")>>
  <2>1. Listed(ByLength(p), R) /\ Labels(ByLength(p)) \subseteq LengthLabels /\ Len(ByLength(p)) > 0
    BY <1>1, <1>6, <1>7, <1>11 DEF LengthLabels
  <2> QED BY <2>1 DEF R
<1> QED BY <1>4, <1>5, <1>8, <1>9, <1>10, <1>11 DEF R

\* What is found: no two the same, and what the service says, or else the reboot it
\* looks like, before anything else.
LEMMA FoundIs ==
  ASSUME NEW p \in OfflinePeriod, NEW i
  PROVE  LET s == ReasonsOf(p, i)
         IN /\ Listed(s, Told(p)) /\ Len(s) > 0 /\ ~("still offline" \in Labels(s))
            /\ p.reason # "" => s[1].label = p.reason
            /\ p.reason = "" /\ NearReboot(p) /\ p.seconds <= 15 * Minute
                 => s[1].label = "probably a reboot"
<1> DEFINE R == Told(p)
           c1 == p.reason # ""
           c2 == p.reason = "" /\ NearReboot(p) /\ p.seconds <= 15 * Minute
           c3 == p.reason = "" /\ ~NearReboot(p) /\ Cardinality(SameTimeDays(p, i)) >= 2
           c4 == p.reason = "" /\ Cardinality(Crowd(p, i)) >= 2
           r1 == Confirmed(p.reason)
           r2 == Inferred("probably a reboot")
           r3 == Inferred("recurs")
           r4 == Inferred("unstable")
           a1 == When(c1, r1)
           a2 == When(c2, r2)
           a3 == When(c3, r3)
           a4 == When(c4, r4)
           a5 == IF p.reason \in {"", KeepAlive} THEN ByLength(p) ELSE <<>>
           s2 == a1 \o a2
           s3 == s2 \o a3
           s4 == s3 \o a4
           s5 == s4 \o a5
<1>1. ReasonsOf(p, i) = s5
  BY DEF ReasonsOf
<1>2. c1 \in BOOLEAN /\ c2 \in BOOLEAN /\ c3 \in BOOLEAN /\ c4 \in BOOLEAN
  BY DEF NearReboot
<1>3. /\ r1 \in R /\ r1.label = p.reason /\ r2 \in R /\ r2.label = "probably a reboot"
      /\ r3 \in R /\ r3.label = "recurs" /\ r4 \in R /\ r4.label = "unstable"
  BY TenLooks, LooksTold, InferredIs
<1>4. p.reason # "still offline" /\ p.seconds \in Nat
  BY DEF OfflinePeriod
<1>5. (c2 \/ c3 \/ c4 => ~c1) /\ (c2 => NearReboot(p) /\ p.seconds <= 15 * Minute)
      /\ (~c1 /\ NearReboot(p) /\ p.seconds <= 5 * Minute => c2)
  <2>1. p.seconds <= 5 * Minute => p.seconds <= 15 * Minute
    <3>1. p.seconds \in Nat
      BY <1>4
    <3> QED BY <3>1 DEF Minute
  <2>2. c2 \/ c3 \/ c4 => ~c1
    OBVIOUS
  <2>3. c2 => NearReboot(p) /\ p.seconds <= 15 * Minute
    OBVIOUS
  <2>4. ~c1 /\ NearReboot(p) /\ p.seconds <= 5 * Minute => c2
    BY <2>1
  <2> QED BY <2>2, <2>3, <2>4
<1>7. c1 => p.reason # "" /\ (p.reason = KeepAlive => p.reason \notin LengthLabels)
  BY DEF KeepAlive, LengthLabels
<1>8. (c1 <=> p.reason # "") /\ (c2 <=> p.reason = "" /\ NearReboot(p) /\ p.seconds <= 15 * Minute)
  OBVIOUS
<1> HIDE DEF c1, c2, c3, c4
<1>6. /\ Listed(a5, R) /\ Labels(a5) \subseteq LengthLabels
      /\ ~c1 /\ ~c2 => Len(a5) > 0
      /\ c1 /\ Len(a5) > 0 => p.reason = KeepAlive
  <2>1. CASE p.reason \in {"", KeepAlive}
    <3>1. a5 = ByLength(p)
      BY <2>1
    <3>2. (p.seconds <= 5 * Minute /\ NearReboot(p)) \/ Len(a5) > 0
      BY <3>1, LengthTold
    <3>3. Listed(a5, R) /\ Labels(a5) \subseteq LengthLabels
      BY <3>1, LengthTold
    <3>4. c1 => p.reason = KeepAlive
      BY <1>8, <2>1
    <3> QED BY <1>5, <3>2, <3>3, <3>4
  <2>2. CASE p.reason \notin {"", KeepAlive}
    <3> DEFINE none == When(FALSE, r1)
    <3>1. a5 = <<>> /\ c1
      BY <1>8, <2>2
    <3>2. Listed(none, R) /\ none = <<>> /\ Labels(none) = {} /\ Len(none) = 0
      BY <1>3, WhenIs
    <3> HIDE DEF none, a5, R
    <3>3. a5 = none
      BY <3>1, <3>2
    <3>4. Listed(a5, R) /\ Labels(a5) = {} /\ Len(a5) = 0
      BY <3>2, <3>3
    <3> QED BY <3>1, <3>4
  <2> QED BY <2>1, <2>2
<1> HIDE DEF r1, r2, r3, r4, R, a5
<1>11. /\ Listed(a1, R) /\ (c1 => a1 = <<r1>> /\ Labels(a1) = {r1.label} /\ Len(a1) = 1)
       /\ (~c1 => a1 = <<>> /\ Labels(a1) = {} /\ Len(a1) = 0)
  BY <1>2, <1>3, WhenIs
<1>12. /\ Listed(a2, R) /\ (c2 => a2 = <<r2>> /\ Labels(a2) = {r2.label} /\ Len(a2) = 1)
       /\ (~c2 => a2 = <<>> /\ Labels(a2) = {} /\ Len(a2) = 0)
  BY <1>2, <1>3, WhenIs
<1>13. /\ Listed(a3, R) /\ (c3 => Labels(a3) = {r3.label}) /\ (~c3 => Labels(a3) = {})
  BY <1>2, <1>3, WhenIs
<1>14. /\ Listed(a4, R) /\ (c4 => Labels(a4) = {r4.label}) /\ (~c4 => Labels(a4) = {})
  BY <1>2, <1>3, WhenIs
<1>15. Len(a3) \in Nat /\ Len(a4) \in Nat /\ Len(a5) \in Nat /\ (Len(a5) = 0 => Labels(a5) = {})
  <2>1. a3 \in Seq(R) /\ a4 \in Seq(R) /\ a5 \in Seq(R)
    BY <1>6, <1>13, <1>14 DEF Listed
  <2> HIDE DEF a3, a4
  <2>2. Len(a3) \in Nat /\ Len(a4) \in Nat /\ Len(a5) \in Nat /\ DOMAIN a5 = 1 .. Len(a5)
    BY <2>1
  <2> QED BY <2>2 DEF Labels
<1>16. /\ c1 => Len(a1) = 1 /\ Len(a2) = 0 /\ a1[1].label = p.reason
       /\ c2 => Len(a1) = 0 /\ Len(a2) = 1 /\ a2[1].label = "probably a reboot"
       /\ ~c1 /\ ~c2 => Len(a1) = 0 /\ Len(a2) = 0 /\ Len(a5) > 0
  <2>1. <<r1>>[1] = r1 /\ <<r2>>[1] = r2
    OBVIOUS
  <2> HIDE DEF a1, a2
  <2>2. c1 => a1[1].label = p.reason
    BY <1>3, <1>11, <2>1
  <2>3. c2 => a2[1].label = "probably a reboot"
    BY <1>3, <1>12, <2>1
  <2> QED BY <1>5, <1>6, <1>11, <1>12, <2>2, <2>3
<1> HIDE DEF a1, a2, a3, a4
<1>17. /\ c1 => Labels(a1) = {p.reason} /\ Labels(a2) = {}
       /\ ~c1 => Labels(a1) = {} /\ Labels(a2) \subseteq {"probably a reboot"}
       /\ c1 => Labels(a3) = {} /\ Labels(a4) = {}
       /\ Labels(a3) \subseteq {"recurs"} /\ Labels(a4) \subseteq {"unstable"}
  BY <1>3, <1>5, <1>11, <1>12, <1>13, <1>14
<1>18. ~Share(a1, a2)
  BY <1>17 DEF Share
<1>21. JoinIs(s2, a1, a2, R)
  BY <1>11, <1>12, <1>18, Joined
<1> HIDE DEF s2
<1>22. /\ c1 => Len(s2) > 0 /\ s2[1].label = p.reason
       /\ c2 => Len(s2) > 0 /\ s2[1].label = "probably a reboot"
       /\ Len(s2) \in Nat /\ Listed(s2, R)
  <2>1. /\ Len(s2) = Len(a1) + Len(a2) /\ Listed(s2, R) /\ Len(a1) \in Nat /\ Len(a2) \in Nat
        /\ Len(a1) > 0 => s2[1] = a1[1]
        /\ Len(a1) = 0 => s2 = a2
    BY <1>21 DEF JoinIs
  <2>2. (Len(a1) = 1 => Len(s2) > 0 /\ s2[1] = a1[1]) /\ (Len(a1) = 0 /\ Len(a2) = 1 => Len(s2) > 0 /\ s2 = a2)
        /\ Len(s2) \in Nat
    BY <2>1
  <2>3. c1 => Len(s2) > 0 /\ s2[1].label = p.reason
    <3>1. c1 => Len(a1) = 1 /\ a1[1].label = p.reason
      BY <1>16
    <3> QED BY <2>2, <3>1, Zenon
  <2>4. c2 => Len(s2) > 0 /\ s2[1].label = "probably a reboot"
    <3>1. c2 => Len(a1) = 0 /\ Len(a2) = 1 /\ a2[1].label = "probably a reboot"
      BY <1>16
    <3> QED BY <2>2, <3>1, Zenon
  <2> QED BY <2>1, <2>2, <2>3, <2>4
<1>23. (c1 => Labels(s2) = {p.reason}) /\ (~c1 => Labels(s2) \subseteq {"probably a reboot"})
  BY <1>17, <1>21 DEF JoinIs
<1>24. ~Share(s2, a3)
  BY <1>17, <1>23 DEF Share
<1>31. JoinIs(s3, s2, a3, R)
  BY <1>13, <1>22, <1>24, Joined
<1> HIDE DEF s3
<1>32. (c1 => Labels(s3) = {p.reason}) /\ (~c1 => Labels(s3) \subseteq {"probably a reboot", "recurs"})
  BY <1>17, <1>23, <1>31 DEF JoinIs
<1>33. ~Share(s3, a4)
  BY <1>17, <1>32 DEF Share
<1>34. Len(s3) \in Nat /\ Listed(s3, R) /\ (Len(s2) > 0 => Len(s3) > 0 /\ s3[1] = s2[1])
  BY <1>31 DEF JoinIs
<1>41. JoinIs(s4, s3, a4, R)
  BY <1>14, <1>33, <1>34, Joined
<1> HIDE DEF s4
<1>42. /\ (c1 => Labels(s4) = {p.reason})
       /\ (~c1 => Labels(s4) \subseteq {"probably a reboot", "recurs", "unstable"})
  BY <1>17, <1>32, <1>41 DEF JoinIs
<1>43. ~Share(s4, a5)
  <2>1. CASE c1
    <3>1. Labels(a5) # {} => p.reason \notin LengthLabels
      <4>1. Labels(a5) # {} => Len(a5) > 0
        BY <1>15
      <4>2. Len(a5) > 0 => p.reason = KeepAlive
        BY <1>6, <2>1
      <4>3. p.reason = KeepAlive => p.reason \notin LengthLabels
        BY <1>7, <2>1
      <4> QED BY <4>1, <4>2, <4>3
    <3> QED BY <1>6, <1>42, <2>1, <3>1 DEF Share
  <2>2. CASE ~c1
    BY <1>6, <1>42, <2>2 DEF LengthLabels, Share
  <2> QED BY <2>1, <2>2
<1>44. Len(s4) \in Nat /\ Listed(s4, R) /\ (Len(s3) > 0 => Len(s4) > 0 /\ s4[1] = s3[1])
  BY <1>41 DEF JoinIs
<1>51. JoinIs(s5, s4, a5, R)
  BY <1>6, <1>43, <1>44, Joined
<1> HIDE DEF s5
<1>52. /\ Listed(s5, R) /\ (Len(s4) > 0 => Len(s5) > 0 /\ s5[1] = s4[1]) /\ (Len(a5) > 0 => Len(s5) > 0)
       /\ Labels(s5) = Labels(s4) \cup Labels(a5)
  BY <1>51 DEF JoinIs
<1>53. "still offline" \notin Labels(s5)
  <2>1. "still offline" \notin Labels(a5)
    BY <1>6 DEF LengthLabels
  <2>2. "still offline" \notin Labels(s4)
    BY <1>4, <1>42
  <2> QED BY <1>52, <2>1, <2>2
<1>54. Len(s5) > 0
  <2>1. c1 \/ c2 \/ Len(a5) > 0
    BY <1>16
  <2> QED BY <1>22, <1>34, <1>44, <1>52, <2>1
<1>55. (c1 => s5[1].label = p.reason) /\ (c2 => s5[1].label = "probably a reboot")
  <2>1. c1 \/ c2 => s5[1] = s2[1]
    BY <1>22, <1>34, <1>44, <1>52
  <2> QED BY <1>22, <2>1
<1> QED BY <1>1, <1>8, <1>52, <1>53, <1>54, <1>55 DEF R

\* The first reasons of a period, before few heartbeats are told with one of them.
AllReasons(i) == When(Ongoing(i), StillOff) \o ReasonsOf(outages.periods[i], i)
Fewest(n) == IF n < MaxReasons THEN n ELSE MaxReasons
FirstReasons(i) == SubSeq(AllReasons(i), 1, Fewest(Len(AllReasons(i))))

LEMMA PeriodsHere ==
  ASSUME ReasonsInv
  PROVE  /\ outages.periods \in Seq(OfflinePeriod) /\ outages.still \in BOOLEAN
         /\ \A i \in DOMAIN outages.periods : outages.periods[i] \in OfflinePeriod
<1>1. outages.periods \in Seq(OfflinePeriod) /\ outages.still \in BOOLEAN
  BY DEF ReasonsInv
<1> DEFINE q == outages.periods
<1>2. q \in Seq(OfflinePeriod)
  BY <1>1
<1> HIDE DEF q
<1>3. \A i \in DOMAIN q : q[i] \in OfflinePeriod
  BY <1>2
<1> QED BY <1>1, <1>3 DEF q

LEMMA Wider ==
  ASSUME NEW R, NEW S, R \subseteq S, NEW s, Listed(s, R)
  PROVE  Listed(s, S)
<1>1. s \in Seq(R) /\ Len(s) \in Nat
  BY DEF Listed
<1>2. \A k \in 1 .. Len(s) : s[k] \in S
  BY <1>1
<1>3. SubSeq(s, 1, Len(s)) \in Seq(S)
  BY <1>1, <1>2, SubSeqProperties
<1>4. SubSeq(s, 1, Len(s)) = s
  BY <1>1, SubSeqFull
<1> QED BY <1>3, <1>4 DEF Listed

LEMMA AllIs ==
  ASSUME ReasonsInv, NEW i \in DOMAIN outages.periods
  PROVE  LET p == outages.periods[i]
             found == ReasonsOf(p, i)
             all == AllReasons(i)
             R == Told(p) \cup {StillOff}
         IN /\ Listed(all, R) /\ Len(all) \in Nat /\ Len(all) > 0
            /\ Ongoing(i) => all[1] = StillOff /\ Len(all) > 1 /\ all[2] = found[1]
            /\ ~Ongoing(i) => all[1] = found[1] /\ all[1].label # "still offline"
<1> DEFINE p == outages.periods[i]
           found == ReasonsOf(p, i)
           all == AllReasons(i)
           R == Told(p) \cup {StillOff}
           c == Ongoing(i)
           a == When(c, StillOff)
<1>1. p \in OfflinePeriod /\ c \in BOOLEAN
  BY PeriodsHere DEF Ongoing
<1>2. Listed(found, Told(p)) /\ Len(found) > 0 /\ ~("still offline" \in Labels(found))
  BY <1>1, FoundIs
<1>3. StillOff \in R /\ StillOff.label = "still offline" /\ Told(p) \subseteq R
  BY InferredIs DEF StillOff
<1>4. all = a \o found
  BY DEF AllReasons
<1>5. 1 \in DOMAIN found
  <2>1. found \in Seq(Told(p))
    BY <1>2 DEF Listed
  <2>2. Len(found) > 0
    BY <1>2
  <2> HIDE DEF found, p
  <2> QED BY <2>1, <2>2
<1>6. found[1].label # "still offline"
  BY <1>2, <1>5 DEF Labels
<1> HIDE DEF R, p, found, c
<1>7. Listed(found, R)
  BY <1>2, <1>3, Wider
<1>8. /\ Listed(a, R)
      /\ (c => a = <<StillOff>> /\ Labels(a) = {StillOff.label} /\ Len(a) = 1)
      /\ (~c => a = <<>> /\ Labels(a) = {} /\ Len(a) = 0)
  BY <1>1, <1>3, WhenIs
<1>9. c => a[1] = StillOff
  <2>1. <<StillOff>>[1] = StillOff
    OBVIOUS
  <2> HIDE DEF a
  <2> QED BY <1>8, <2>1
<1> HIDE DEF a
<1>10. ~Share(a, found)
  BY <1>2, <1>3, <1>8 DEF Share
<1>11. JoinIs(a \o found, a, found, R)
  BY <1>7, <1>8, <1>10, Joined
<1> HIDE DEF all
<1>12. JoinIs(all, a, found, R)
  BY <1>4, <1>11
<1>13. /\ Listed(all, R) /\ Len(all) = Len(a) + Len(found) /\ Len(a) \in Nat /\ Len(found) \in Nat
       /\ Len(a) > 0 => all[1] = a[1]
       /\ all[Len(a) + 1] = found[1]
  BY <1>2, <1>12 DEF JoinIs
<1>14. Len(all) \in Nat /\ Len(all) > 0
  <2>1. Len(all) = Len(a) + Len(found) /\ Len(a) \in Nat /\ Len(found) \in Nat /\ Len(found) > 0
    BY <1>2, <1>13
  <2> QED BY <2>1
<1>15. ASSUME Len(a) = 1
       PROVE  all[1] = a[1] /\ Len(all) > 1 /\ all[2] = found[1]
  <2>1. Len(a) + 1 = 2 /\ Len(a) > 0
    BY <1>15
  <2>2. Len(all) = Len(a) + Len(found) /\ Len(found) \in Nat /\ Len(found) > 0
    BY <1>2, <1>13
  <2>3. Len(all) > 1
    BY <1>15, <2>2
  <2> QED BY <1>13, <2>1, <2>3
<1>16. ASSUME Len(a) = 0
       PROVE  all[1] = found[1]
  <2>1. Len(a) + 1 = 1
    BY <1>16
  <2> QED BY <1>13, <2>1
<1>17. c => all[1] = StillOff /\ Len(all) > 1 /\ all[2] = found[1]
  BY <1>8, <1>9, <1>15, Zenon
<1>18. ~c => all[1] = found[1] /\ all[1].label # "still offline"
  BY <1>6, <1>8, <1>16, Zenon
<1> QED BY <1>13, <1>14, <1>17, <1>18 DEF R, p, found, c, all

LEMMA FirstIs ==
  ASSUME ReasonsInv, NEW i \in DOMAIN outages.periods
  PROVE  LET shown == FirstReasons(i)
             p == outages.periods[i]
             m == Fewest(Len(AllReasons(i)))
         IN /\ m \in 1 .. MaxReasons /\ Len(shown) = m /\ DOMAIN shown = 1 .. m
            /\ \A k \in 1 .. m : shown[k] \in Told(p) \cup {StillOff}
            /\ \A j, k \in 1 .. m : shown[j].label = shown[k].label => j = k
            /\ Ongoing(i) => shown[1] = StillOff
            /\ ~Ongoing(i) => shown[1].label # "still offline"
            /\ \E k \in 1 .. m : shown[k] = ReasonsOf(p, i)[1]
<1> DEFINE p == outages.periods[i]
           found == ReasonsOf(p, i)
           all == AllReasons(i)
           R == Told(p) \cup {StillOff}
           c == Ongoing(i)
           n == Len(all)
           m == Fewest(n)
           shown == FirstReasons(i)
<1>1. /\ Listed(all, R) /\ n \in Nat /\ n > 0
      /\ c => all[1] = StillOff /\ n > 1 /\ all[2] = found[1]
      /\ ~c => all[1] = found[1] /\ all[1].label # "still offline"
  BY AllIs
<1>2. shown = SubSeq(all, 1, m)
  BY DEF FirstReasons
<1> HIDE DEF p, found, all, R, c, shown
<1>3. all \in Seq(R) /\ DOMAIN all = 1 .. n /\ \A k \in 1 .. n : all[k] \in R
  <2>1. all \in Seq(R)
    BY <1>1 DEF Listed
  <2> QED BY <2>1
<1> HIDE DEF n
<1>0. n \in Nat /\ n > 0
  BY <1>1
<1>4. /\ m \in 1 .. MaxReasons /\ m \in 1 .. n /\ MaxReasons = 3 /\ m \in Int
  BY <1>0 DEF Fewest, MaxReasons
<1>5. n > 1 => 2 \in 1 .. m
  BY <1>0 DEF Fewest, MaxReasons
<1> HIDE DEF m
<1>9. \A k \in 1 .. m : k \in 1 .. n
  BY <1>0, <1>4
<1>6. \A k \in 1 .. m : all[k] \in R
  BY <1>3, <1>9
<1>7. shown \in Seq(R) /\ Len(shown) = m /\ \A k \in 1 .. m : shown[k] = all[k]
  <2> DEFINE sub == SubSeq(all, 1, m)
  <2>1. /\ sub \in Seq(R) /\ Len(sub) = IF 1 <= m THEN m - 1 + 1 ELSE 0
        /\ \A k \in 1 .. m - 1 + 1 : sub[k] = all[1 + k - 1]
    BY <1>4, <1>6, SubSeqProperties
  <2> HIDE DEF sub
  <2>2. m - 1 + 1 = m /\ 1 <= m
    BY <1>4
  <2>3. \A k \in 1 .. m : 1 + k - 1 = k
    OBVIOUS
  <2>4. shown = sub
    BY <1>2 DEF sub
  <2> QED BY <2>1, <2>2, <2>3, <2>4
<1>8. DOMAIN shown = 1 .. m
  BY <1>7
<1>10. \A j, k \in 1 .. m : shown[j].label = shown[k].label => j = k
  <2>1. \A j, k \in 1 .. n : all[j].label = all[k].label => j = k
    BY <1>1, <1>3 DEF Listed
  <2> QED BY <1>7, <1>9, <2>1
<1>11. 1 \in 1 .. m
  BY <1>4
<1>12. c => shown[1] = StillOff
  BY <1>1, <1>7, <1>11
<1>13. ~c => shown[1].label # "still offline"
  BY <1>1, <1>7, <1>11
<1>14. \E k \in 1 .. m : shown[k] = found[1]
  <2>1. CASE c
    <3>1. 2 \in 1 .. m /\ all[2] = found[1]
      BY <1>1, <1>5, <2>1
    <3> QED BY <1>7, <3>1
  <2>2. CASE ~c
    BY <1>1, <1>7, <1>11, <2>2
  <2> QED BY <2>1, <2>2
<1>15. \A k \in 1 .. m : shown[k] \in R
  BY <1>6, <1>7
<1> QED BY <1>4, <1>7, <1>8, <1>10, <1>12, <1>13, <1>14, <1>15 DEF p, found, all, R, c, shown, m, n

LEMMA PossibleIs ==
  ASSUME ReasonsInv, NEW i \in DOMAIN outages.periods
  PROVE  LET told == PossibleReasons(i)
             shown == FirstReasons(i)
             p == outages.periods[i]
             m == Fewest(Len(AllReasons(i)))
         IN /\ Len(told) = m /\ DOMAIN told = 1 .. m /\ m \in 1 .. MaxReasons
            /\ \A k \in 1 .. m :
                 /\ told[k].label = shown[k].label /\ told[k].confirmed = shown[k].confirmed
                 /\ told[k].beats => k \in MostLikely(shown)
                 /\ k \notin MostLikely(shown) => told[k] = shown[k]
<1> DEFINE told == PossibleReasons(i)
           shown == FirstReasons(i)
           p == outages.periods[i]
           m == Fewest(Len(AllReasons(i)))
           b(k) == HasEvidence(p, ReasonsOf(p, i)) /\ k \in MostLikely(shown)
<1>1. /\ m \in 1 .. MaxReasons /\ DOMAIN shown = 1 .. m
      /\ \A k \in 1 .. m : shown[k] \in Told(p) \cup {StillOff}
  BY FirstIs
<1>2. told = [k \in DOMAIN shown |-> [shown[k] EXCEPT !.beats = b(k)]]
  BY DEF PossibleReasons, AllReasons, FirstReasons, Fewest
<1>3. ASSUME NEW k \in 1 .. m
      PROVE  \E l, c : c \in BOOLEAN /\ shown[k] = [label |-> l, confirmed |-> c, beats |-> FALSE]
  <2>1. shown[k] \in Told(p) \/ shown[k] = StillOff
    BY <1>1
  <2> QED BY <2>1 DEF Told, Inferred, Confirmed, StillOff
<1> HIDE DEF shown, p, m, told
<1>4. DOMAIN told = 1 .. m /\ \A k \in 1 .. m : told[k] = [shown[k] EXCEPT !.beats = b(k)]
  BY <1>1, <1>2
<1>5. m \in Nat
  BY <1>1 DEF MaxReasons
<1>6. Len(told) = m
  BY <1>1, <1>2, <1>5
<1>7. ASSUME NEW k \in 1 .. m
      PROVE  /\ told[k].label = shown[k].label /\ told[k].confirmed = shown[k].confirmed
             /\ told[k].beats => k \in MostLikely(shown)
             /\ k \notin MostLikely(shown) => told[k] = shown[k]
  <2> DEFINE e == b(k)
  <2>1. PICK l, c : c \in BOOLEAN /\ shown[k] = [label |-> l, confirmed |-> c, beats |-> FALSE]
    BY <1>3
  <2>2. told[k] = [shown[k] EXCEPT !.beats = e]
    BY <1>4
  <2>3. e \in BOOLEAN /\ (e => k \in MostLikely(shown)) /\ (k \notin MostLikely(shown) => e = FALSE)
    BY DEF HasEvidence
  <2> HIDE DEF e
  <2>4. told[k] = [label |-> l, confirmed |-> c, beats |-> e]
    BY <2>1, <2>2
  <2>5. told[k].label = shown[k].label
    BY <2>1, <2>4
  <2>6. told[k].confirmed = shown[k].confirmed
    BY <2>1, <2>4
  <2>7. told[k].beats = e
    BY <2>4
  <2>8. e = FALSE => told[k] = shown[k]
    BY <2>1, <2>4
  <2> QED BY <2>3, <2>5, <2>6, <2>7, <2>8
<1> QED BY <1>1, <1>4, <1>6, <1>7 DEF shown, p, m, told

\* Minutes of the day.
LEMMA MinutesAre ==
  ASSUME NEW p \in OfflinePeriod
  PROVE  p.start \in Nat /\ p.seconds \in Nat /\ MinuteOfDay(p) \in 0 .. DayMinutes - 1
<1>1. p.start \in Nat /\ p.seconds \in Nat
  BY DEF OfflinePeriod
<1>2. \A x \in Nat : x % 1440 \in 0 .. 1440 - 1
  OBVIOUS
<1> QED BY <1>1, <1>2 DEF MinuteOfDay, DayMinutes

LEMMA SameMinute ==
  ASSUME NEW p \in OfflinePeriod, NEW q \in OfflinePeriod, Apart(p.start, q.start) \in {0, DayMinutes}
  PROVE  NearReboot(p) = NearReboot(q)
<1>1. p.start \in Nat /\ q.start \in Nat
  BY MinutesAre
<1>2. p.start = q.start \/ p.start = q.start + 1440 \/ q.start = p.start + 1440
  BY <1>1 DEF Apart, DayMinutes
<1>3. MinuteOfDay(p) = MinuteOfDay(q)
  BY <1>1, <1>2 DEF MinuteOfDay, DayMinutes
<1> QED BY <1>3 DEF NearReboot

LEMMA MidnightIsNear ==
  ASSUME NEW p \in OfflinePeriod, MinuteOfDay(p) \in ((DayMinutes - Tolerance)..DayMinutes) \cup 0..Tolerance
  PROVE  NearReboot(p)
<1>1. MinuteOfDay(p) \in 0 .. 1439
  BY MinutesAre DEF DayMinutes
<1>2. Circular(MinuteOfDay(p), 60 * 0) <= Tolerance
  BY <1>1 DEF Circular, Apart, DayMinutes, Tolerance
<1> QED BY <1>2 DEF NearReboot, RebootHours

LEMMA ReasonsSound == ReasonsInv => ReasonsAreSound
<1> SUFFICES ASSUME ReasonsInv, NEW i \in DOMAIN outages.periods
             PROVE  LET p == outages.periods[i]
                        shown == PossibleReasons(i)
                        labels == {shown[k].label : k \in DOMAIN shown}
                        tells == {k \in DOMAIN shown : shown[k].beats}
                    IN /\ shown # <<>> /\ Len(shown) <= MaxReasons /\ Cardinality(labels) = Len(shown)
                       /\ p.reason # "" => p.reason \in labels
                       /\ \A k \in DOMAIN shown : shown[k].confirmed => shown[k].label = p.reason
                       /\ (shown[1] = StillOff) = Ongoing(i)
                       /\ Cardinality(tells) <= 1
                       /\ \A k \in tells : ~shown[k].confirmed /\ shown[k].label # StillOff.label
                       /\ \A j \in DOMAIN outages.periods :
                            LET q == outages.periods[j]
                            IN /\ Apart(p.start, q.start) \in {0, DayMinutes} /\ p.reason = q.reason
                                  /\ p.seconds = q.seconds =>
                                    (NearReboot(p) = NearReboot(q))
                               /\ /\ p.reason = "" /\ p.seconds <= 5 * Minute
                                  /\ MinuteOfDay(p) \in ((DayMinutes - Tolerance)..DayMinutes) \cup 0..Tolerance
                                  => "probably a reboot" \in labels
  BY DEF ReasonsAreSound
<1> DEFINE p == outages.periods[i]
           told == PossibleReasons(i)
           first == FirstReasons(i)
           found == ReasonsOf(p, i)
           m == Fewest(Len(AllReasons(i)))
           labels == {told[k].label : k \in DOMAIN told}
           tells == {k \in DOMAIN told : told[k].beats}
           c == Ongoing(i)
<1>1. p \in OfflinePeriod /\ c \in BOOLEAN
  BY PeriodsHere DEF Ongoing
<1>2. /\ Len(told) = m /\ DOMAIN told = 1 .. m /\ m \in 1 .. MaxReasons
      /\ \A k \in 1 .. m :
           /\ told[k].label = first[k].label /\ told[k].confirmed = first[k].confirmed
           /\ told[k].beats => k \in MostLikely(first)
           /\ k \notin MostLikely(first) => told[k] = first[k]
  BY PossibleIs
<1>3. /\ DOMAIN first = 1 .. m
      /\ \A k \in 1 .. m : first[k] \in Told(p) \cup {StillOff}
      /\ \A j, k \in 1 .. m : first[j].label = first[k].label => j = k
      /\ c => first[1] = StillOff
      /\ ~c => first[1].label # "still offline"
      /\ \E k \in 1 .. m : first[k] = found[1]
  BY FirstIs
<1>4. /\ p.reason # "" => found[1].label = p.reason
      /\ p.reason = "" /\ NearReboot(p) /\ p.seconds <= 15 * Minute => found[1].label = "probably a reboot"
  BY <1>1, FoundIs
<1>5. \A r \in Told(p) : (r.confirmed => r.label = p.reason) /\ (~r.confirmed => r = Inferred(r.label))
  BY DEF Told, Inferred, Confirmed
<1>6. StillOff.label = "still offline" /\ StillOff.confirmed = FALSE /\ StillOff = Inferred("still offline")
  BY DEF StillOff, Inferred
<1>7. m \in Nat /\ m >= 1 /\ m <= MaxReasons
  BY <1>2 DEF MaxReasons
<1>8. p.seconds <= 5 * Minute => p.seconds <= 15 * Minute
  <2>1. p.seconds \in Nat
    BY <1>1, MinutesAre
  <2> QED BY <2>1 DEF Minute
<1> HIDE DEF p, told, first, found, m, c
<1>11. told # <<>> /\ Len(told) <= MaxReasons
  <2>1. 1 \in DOMAIN told
    BY <1>2, <1>7
  <2> QED BY <1>2, <1>7, <2>1
<1>12. Cardinality(labels) = Len(told)
  <2> DEFINE S == 1 .. m
             f == [k \in S |-> told[k].label]
             L == {f[x] : x \in S}
  <2>1. IsFiniteSet(S) /\ Cardinality(S) = m
    BY <1>7, FS_Interval
  <2>2. DOMAIN f = S /\ f = [k \in S |-> f[k]] /\ \A k \in S : f[k] = told[k].label
    OBVIOUS
  <2>3. \A x, y \in S : f[x] = f[y] => x = y
    BY <1>2, <1>3, <2>2
  <2>4. labels = L
    BY <1>2, <2>2
  <2> HIDE DEF f, labels, S
  <2>5. Cardinality(L) = Cardinality(S)
    BY <2>1, <2>2, <2>3, ImageIs
  <2> QED BY <1>2, <2>1, <2>4, <2>5
<1>13. found[1].label \in labels
  <2>1. PICK k \in 1 .. m : first[k] = found[1]
    BY <1>3
  <2>2. k \in DOMAIN told /\ told[k].label = found[1].label
    BY <1>2, <2>1
  <2> QED BY <2>2
<1>14. ASSUME NEW k \in DOMAIN told, told[k].confirmed
       PROVE  told[k].label = p.reason
  <2>1. first[k] \in Told(p) \/ first[k] = StillOff
    BY <1>2, <1>3
  <2>2. told[k].confirmed = first[k].confirmed /\ told[k].label = first[k].label
    BY <1>2
  <2>3. CASE first[k] \in Told(p)
    BY <1>5, <1>14, <2>2, <2>3
  <2>4. CASE first[k] = StillOff
    BY <1>6, <1>14, <2>2, <2>4
  <2> QED BY <2>1, <2>3, <2>4
<1>15. (told[1] = StillOff) = c
  <2>1. 1 \in 1 .. m
    BY <1>7
  <2>2. CASE c
    <3>1. first[1] = StillOff
      BY <1>3, <2>2
    <3>2. 1 \notin MostLikely(first)
      BY <3>1 DEF MostLikely
    <3>3. told[1] = first[1]
      BY <1>2, <2>1, <3>2
    <3> QED BY <1>1, <2>2, <3>1, <3>3
  <2>3. CASE ~c
    <3>1. told[1].label # "still offline"
      BY <1>2, <1>3, <2>1, <2>3
    <3>2. told[1] # StillOff
      BY <1>6, <3>1
    <3> QED BY <1>1, <2>3, <3>2
  <2> QED BY <2>2, <2>3
<1>16. \A k \in tells : k \in MostLikely(first) /\ k \in 1 .. m
  BY <1>2
<1>17. ASSUME NEW k \in tells
       PROVE  ~told[k].confirmed /\ told[k].label # StillOff.label
  <2>1. k \in MostLikely(first) /\ k \in 1 .. m
    BY <1>16
  <2>2. ~first[k].confirmed /\ first[k] # StillOff
    BY <2>1 DEF MostLikely
  <2>3. first[k] \in Told(p)
    BY <1>3, <2>1, <2>2
  <2>4. first[k] = Inferred(first[k].label)
    BY <1>5, <2>2, <2>3
  <2>5. first[k].label # "still offline"
    BY <1>6, <2>2, <2>4
  <2> QED BY <1>2, <1>6, <2>1, <2>2, <2>5
<1>18. Cardinality(tells) <= 1
  <2>1. \A j, k \in tells : j = k
    <3>1. ASSUME NEW j \in tells, NEW k \in tells, j < k
          PROVE  FALSE
      <4>1. j \in MostLikely(first) /\ k \in MostLikely(first) /\ j \in 1 .. m /\ k \in 1 .. m
        BY <1>16
      <4>2. j \in 1 .. (k - 1)
        BY <1>7, <3>1, <4>1
      <4>3. first[j].confirmed \/ first[j] = StillOff
        BY <4>1, <4>2 DEF MostLikely
      <4>4. ~first[j].confirmed /\ first[j] # StillOff
        BY <4>1 DEF MostLikely
      <4> QED BY <4>3, <4>4
    <3>2. \A k \in tells : k \in Int
      BY <1>7, <1>16
    <3> HIDE DEF tells
    <3>3. \A j, k \in tells : ~(j < k)
      BY <3>1
    <3> QED BY <3>2, <3>3
  <2> HIDE DEF tells
  <2>2. CASE tells = {}
    BY <2>2, FS_EmptySet
  <2>3. CASE tells # {}
    <3>1. PICK k : k \in tells
      BY <2>3
    <3>2. tells = {k}
      BY <2>1, <3>1
    <3>3. Cardinality({k}) = 1
      BY FS_Singleton
    <3> QED BY <3>2, <3>3
  <2> QED BY <2>2, <2>3
<1>19. ASSUME NEW j \in DOMAIN outages.periods, Apart(p.start, outages.periods[j].start) \in {0, DayMinutes}
       PROVE  NearReboot(p) = NearReboot(outages.periods[j])
  <2>1. outages.periods[j] \in OfflinePeriod
    BY PeriodsHere
  <2> QED BY <1>1, <1>19, <2>1, SameMinute
<1>20. ASSUME p.reason = "", p.seconds <= 5 * Minute,
              MinuteOfDay(p) \in ((DayMinutes - Tolerance)..DayMinutes) \cup 0..Tolerance
       PROVE  "probably a reboot" \in labels
  <2>1. NearReboot(p)
    BY <1>1, <1>20, MidnightIsNear
  <2> QED BY <1>4, <1>8, <1>13, <1>20, <2>1
<1>21. p.reason # "" => p.reason \in labels
  BY <1>4, <1>13
<1> HIDE DEF labels, tells
<1> QED BY <1>11, <1>12, <1>14, <1>15, <1>17, <1>18, <1>19, <1>20, <1>21 DEF p, told, c, labels, tells

-----------------------------------------------------------------------------
(* Tables: an order by a value, then by the gateway, without a value last. *)
Before(x, y, m, n, asc) ==
  IF x = y THEN m < n
  ELSE IF NoFigure \in {x, y} THEN y = NoFigure
  ELSE IF asc THEN x < y ELSE x > y
Sorted(S, V, K, asc) == {p \in S \X S : Before(V[p[1]], V[p[2]], K[p[1]], K[p[2]], asc)}

LEMMA SortedOrders ==
  ASSUME NEW S, NEW V, NEW K, NEW asc \in BOOLEAN,
         \A x \in S : V[x] \in Int /\ K[x] \in Int,
         \A x, y \in S : K[x] = K[y] => x = y
  PROVE  /\ Orders(Sorted(S, V, K, asc), S)
         /\ \A x, y \in S : <<x, y>> \in Sorted(S, V, K, asc)
                              <=> Before(V[x], V[y], K[x], K[y], asc)
<1> DEFINE B == Sorted(S, V, K, asc)
<1>1. \A x, y \in S : <<x, y>> \in B <=> Before(V[x], V[y], K[x], K[y], asc)
  BY DEF Sorted
<1> HIDE DEF B
<1>2. \A x \in S : <<x, x>> \notin B
  BY <1>1 DEF Before
<1>3. ASSUME NEW x \in S, NEW y \in S, x # y
      PROVE  <<x, y>> \in B \/ <<y, x>> \in B
  <2>1. V[x] \in Int /\ K[x] \in Int /\ V[y] \in Int /\ K[y] \in Int /\ K[x] # K[y]
    BY <1>3
  <2>2. Before(V[x], V[y], K[x], K[y], asc) \/ Before(V[y], V[x], K[y], K[x], asc)
    <3>1. CASE asc = TRUE
      BY <2>1, <3>1 DEF Before, NoFigure
    <3>2. CASE asc = FALSE
      BY <2>1, <3>2 DEF Before, NoFigure
    <3> QED BY <3>1, <3>2
  <2> QED BY <1>1, <2>2
<1>4. ASSUME NEW x \in S, NEW y \in S, NEW z \in S, <<x, y>> \in B, <<y, z>> \in B
      PROVE  <<x, z>> \in B
  <2>1. /\ V[x] \in Int /\ K[x] \in Int /\ V[y] \in Int /\ K[y] \in Int /\ V[z] \in Int /\ K[z] \in Int
    OBVIOUS
  <2>2. Before(V[x], V[y], K[x], K[y], asc) /\ Before(V[y], V[z], K[y], K[z], asc)
    BY <1>1, <1>4
  <2>3. Before(V[x], V[z], K[x], K[z], asc)
    <3>1. CASE asc = TRUE
      BY <2>1, <2>2, <3>1 DEF Before, NoFigure
    <3>2. CASE asc = FALSE
      BY <2>1, <2>2, <3>2 DEF Before, NoFigure
    <3> QED BY <3>1, <3>2
  <2> QED BY <1>1, <2>3
<1>5. Orders(B, S)
  BY <1>2, <1>3, <1>4 DEF Orders
<1> QED BY <1>1, <1>5 DEF B

\* The last page, and what is left for a page up to it.
LEMMA LastPageIs ==
  ASSUME NEW n \in Nat, NEW size \in Nat \ {0}
  PROVE  /\ LastFleetPage(n, size) \in Nat
         /\ \A page \in Nat : n > 0 /\ page <= LastFleetPage(n, size) => page * size + 1 <= n
<1> DEFINE k == (n + size - 1) \div size
<1>1. k \in Nat /\ k * size <= n + size - 1
  <2> DEFINE m == n + size - 1
  <2>1. m \in Nat
    OBVIOUS
  <2> HIDE DEF m
  <2>2. m \div size \in Nat /\ (m \div size) * size <= m
    BY <2>1
  <2> QED BY <2>2 DEF m
<1> HIDE DEF k
<1>2. LastFleetPage(n, size) = IF 0 >= k - 1 THEN 0 ELSE k - 1
  <2>1. Max({0, k - 1}) = IF 0 >= k - 1 THEN 0 ELSE k - 1
    BY <1>1, MaxTwo
  <2> QED BY <2>1 DEF LastFleetPage, k
<1>3. ASSUME NEW page \in Nat, n > 0, page <= LastFleetPage(n, size)
      PROVE  page * size + 1 <= n
  <2>1. CASE page = 0
    BY <1>3, <2>1
  <2>2. CASE page # 0
    <3>1. page <= k - 1
      BY <1>1, <1>2, <1>3, <2>2
    <3>2. page * size <= (k - 1) * size
      <4>1. PICK e \in Nat : k - 1 = page + e
        <5>1. (k - 1) - page \in Nat /\ k - 1 = page + ((k - 1) - page)
          BY <1>1, <3>1
        <5> QED BY <5>1
      <4>2. (page + e) * size = page * size + e * size /\ e * size \in Nat /\ page * size \in Nat
        OBVIOUS
      <4> HIDE DEF k
      <4> QED BY <4>1, <4>2
    <3>3. (k - 1) * size = k * size - size
      BY <1>1
    <3>4. page * size \in Int /\ k * size \in Int
      BY <1>1
    <3> QED BY <1>1, <3>2, <3>3, <3>4
  <2> QED BY <2>1, <2>2
<1> QED BY <1>1, <1>2, <1>3

-----------------------------------------------------------------------------
(* The table of the status page.                                           *)
FleetKeys == {"gatewayId", "address", "status", "uptime", "onlineTime", "downtimeEvents"}
FleetStates == {"all", "online", "offline", "no-data"}
FleetTables == [key : FleetKeys, asc : BOOLEAN, page : Nat, size : Nat \ {0}]
FleetViews == [state : FleetStates, search : SUBSET Fleet]

PageExists(told, v, t) ==
  told # NoData => t.page <= LastFleetPage(Cardinality(FleetRows(told, v)), t.size)

FleetInv ==
  /\ fleetTold \in FleetTold \cup {NoData}
  /\ fleetView \in FleetViews
  /\ fleetTable \in FleetTables
  /\ PageExists(fleetTold, fleetView, fleetTable)

\* What a row of the table says.
LEMMA FleetRowIs ==
  ASSUME NEW told \in FleetTold, NEW g \in Fleet
  PROVE  /\ FleetRow(g, told).gateway = g /\ FleetRow(g, told).status = g[told.at]
         /\ FleetRow(g, told).events \in Int /\ FleetRow(g, told).uptime \in Int
         /\ FleetRow(g, told).online \in Int
<1> DEFINE r == told.range
           at == told.at
           base == BaseRangeFor({r}, DayOf(at))
           cut == SliceGateway(Report(g, base, at), r)
<1>1. Answered(r) /\ at \in Moment
  <2>1. r \in TableRange /\ at \in Moment
    BY DEF FleetTold
  <2>2. r \in AnyRange /\ Accepted(r)
    BY <2>1 DEF TableRange, AnyRange
  <2> QED BY <2>1, <2>2 DEF Answered
<1> HIDE DEF r, at
<1>2. CoversRange(base, r, at)
  <2> DEFINE R == {r}
  <2>1. IsFiniteSet(R) /\ r \in R /\ \A x \in R : Answered(x)
    BY <1>1, FS_Singleton
  <2> HIDE DEF R
  <2>2. CoversRange(BaseRangeFor(R, DayOf(at)), r, at)
    BY <1>1, <2>1, BaseCovers
  <2> QED BY <2>2 DEF R
<1> HIDE DEF base
<1>3. Figures(g, r, at, cut)
  BY <1>1, <1>2, CutIs
<1>4. IsFiniteSet(Moments(r, at))
  BY <1>1, <1>2, SeenInRange
<1>5. /\ Cardinality(OnlineOf(g, Moments(r, at))) \in Nat
      /\ Cardinality({t \in Moments(r, at) : g[t] # "no-data"}) \in Nat
      /\ Cardinality(Began(g, Moments(r, at))) \in Nat
  <2>1. /\ OnlineOf(g, Moments(r, at)) \subseteq Moments(r, at)
        /\ {t \in Moments(r, at) : g[t] # "no-data"} \subseteq Moments(r, at)
        /\ Began(g, Moments(r, at)) \subseteq Moments(r, at)
    BY DEF OnlineOf, Began
  <2> QED BY <1>4, <2>1, FS_Subset, FS_CardinalityType
<1>6. cut.online \in Nat /\ cut.observed \in Nat /\ cut.events \in Nat /\ cut.status = g[at]
  BY <1>3, <1>5 DEF Figures
<1>7. FleetRow(g, told) = [gateway |-> g, status |-> cut.status, events |-> cut.events,
      uptime |-> IF cut.observed = 0 THEN NoFigure ELSE (1000 * cut.online) \div cut.observed,
      online |-> IF cut.seen THEN cut.online ELSE NoFigure]
  BY DEF FleetRow, r, at, base
<1> HIDE DEF cut
<1> DEFINE up == IF cut.observed = 0 THEN NoFigure ELSE (1000 * cut.online) \div cut.observed
           on == IF cut.seen THEN cut.online ELSE NoFigure
<1>8. up \in Int
  <2>1. CASE cut.observed = 0
    BY <2>1 DEF NoFigure
  <2>2. CASE cut.observed # 0
    <3> DEFINE a == cut.online
               b == cut.observed
    <3>1. a \in Nat /\ b \in Nat /\ b > 0
      BY <1>6, <2>2
    <3> HIDE DEF a, b
    <3>2. (1000 * a) \div b \in Int
      BY <3>1
    <3> QED BY <2>2, <3>2 DEF a, b
  <2> QED BY <2>1, <2>2
<1>9. on \in Int
  BY <1>6 DEF NoFigure
<1> HIDE DEF up, on
<1>10. FleetRow(g, told) = [gateway |-> g, status |-> cut.status, events |-> cut.events, uptime |-> up, online |-> on]
  BY <1>7 DEF up, on
<1> QED BY <1>6, <1>8, <1>9, <1>10 DEF at

MatchingOf(told, v) == {g \in v.search : v.state \in {"all", g[told.at]}}

\* The rows are the gateways that match, each once.
LEMMA FleetRowsAre ==
  ASSUME NEW told \in FleetTold, NEW v \in FleetViews
  PROVE  /\ IsFiniteSet(FleetRows(told, v)) /\ IsFiniteSet(MatchingOf(told, v))
         /\ MatchingOf(told, v) \subseteq Fleet
         /\ FleetRows(told, v) = {FleetRow(g, told) : g \in MatchingOf(told, v)}
         /\ \A row \in FleetRows(told, v) : row.gateway \in MatchingOf(told, v) /\ row = FleetRow(row.gateway, told)
         /\ \A g \in MatchingOf(told, v) : FleetRow(g, told) \in FleetRows(told, v)
         /\ Cardinality(FleetRows(told, v)) = Cardinality(MatchingOf(told, v))
         /\ Cardinality(FleetRows(told, v)) \in Nat
<1> DEFINE M == MatchingOf(told, v)
           f == [g \in M |-> FleetRow(g, told)]
           rows == FleetRows(told, v)
<1>1. v.search \subseteq Fleet
  BY DEF FleetViews
<1>2. M \subseteq Fleet /\ IsFiniteSet(M)
  <2>1. M \subseteq Fleet
    BY <1>1 DEF MatchingOf
  <2> QED BY <2>1, FS_Subset, FleetAssumption
<1>3. rows = {f[g] : g \in M}
  <2>1. FleetReport[told] = {FleetRow(g, told) : g \in Fleet}
    BY DEF FleetReport
  <2>2. \A row : row \in rows <=> \E g \in Fleet : row = FleetRow(g, told) /\ FleetKept(row, v)
    BY <2>1 DEF FleetRows
  <2>3. \A g \in Fleet : FleetKept(FleetRow(g, told), v) <=> g \in M
    <3>1. ASSUME NEW g \in Fleet
          PROVE  FleetKept(FleetRow(g, told), v) <=> g \in M
      <4>1. FleetRow(g, told).gateway = g /\ FleetRow(g, told).status = g[told.at]
        BY FleetRowIs
      <4> QED BY <4>1 DEF FleetKept, MatchingOf
    <3> QED BY <3>1
  <2>4. \A row : row \in rows <=> \E g \in M : row = FleetRow(g, told)
    BY <1>2, <2>2, <2>3
  <2>5. \A row : row \in {f[g] : g \in M} <=> \E g \in M : row = FleetRow(g, told)
    OBVIOUS
  <2> HIDE DEF rows, f, M
  <2> QED BY <2>4, <2>5
<1>4. \A g \in M : f[g] = FleetRow(g, told) /\ f[g].gateway = g
  BY <1>2, FleetRowIs
<1>5. DOMAIN f = M /\ f = [g \in M |-> f[g]]
  OBVIOUS
<1> HIDE DEF M, f, rows
<1>6. \A x, y \in M : f[x] = f[y] => x = y
  BY <1>4
<1>7. IsFiniteSet({f[x] : x \in M}) /\ Cardinality({f[x] : x \in M}) = Cardinality(M)
  BY <1>2, <1>5, <1>6, ImageIs
<1>8. \A row \in rows : row.gateway \in M /\ row = FleetRow(row.gateway, told)
  BY <1>3, <1>4
<1>9. \A g \in M : FleetRow(g, told) \in rows
  BY <1>3, <1>4
<1>10. rows = {FleetRow(g, told) : g \in M}
  BY <1>3, <1>4
<1>11. IsFiniteSet(rows) /\ Cardinality(rows) = Cardinality(M) /\ Cardinality(M) \in Nat
  BY <1>2, <1>3, <1>7, FS_CardinalityType
<1> QED BY <1>2, <1>8, <1>9, <1>10, <1>11 DEF M, rows

LEMMA FleetOrders ==
  ASSUME NEW told \in FleetTold, NEW v \in FleetViews, NEW t \in FleetTables
  PROVE  LET rows == FleetRows(told, v)
             B == {p \in rows \X rows : FleetBefore(p[1], p[2], t)}
         IN /\ Orders(B, rows)
            /\ \A x, y \in rows : <<x, y>> \in B /\ FleetValue(x, t.key) = NoFigure
                                    => FleetValue(y, t.key) = NoFigure
<1> DEFINE rows == FleetRows(told, v)
           B == {p \in rows \X rows : FleetBefore(p[1], p[2], t)}
           V == [x \in rows |-> FleetValue(x, t.key)]
           K == [x \in rows |-> GatewayRank[x.gateway]]
           asc == t.asc
<1>1. \A x \in rows : x.gateway \in Fleet /\ x = FleetRow(x.gateway, told)
  BY FleetRowsAre
<1>2. asc \in BOOLEAN
  BY DEF FleetTables
<1>3. ASSUME NEW x \in rows
      PROVE  V[x] \in Int /\ K[x] \in Int
  <2>1. x.gateway \in Fleet /\ x = FleetRow(x.gateway, told)
    BY <1>1
  <2>2. x.events \in Int /\ x.uptime \in Int /\ x.online \in Int
    BY <2>1, FleetRowIs
  <2>3. GatewayRank[x.gateway] \in Int /\ AddressRank[x.gateway] \in Int
    BY <2>1, UptimeAssumption
  <2>4. FleetValue(x, t.key) \in Int
    BY <2>2, <2>3 DEF FleetValue, StatusRank, NoFigure
  <2> HIDE DEF rows
  <2> QED BY <2>3, <2>4
<1>4. ASSUME NEW x \in rows, NEW y \in rows, K[x] = K[y]
      PROVE  x = y
  <2>1. GatewayRank[x.gateway] = GatewayRank[y.gateway]
    <3> HIDE DEF rows
    <3> QED BY <1>4
  <2>2. x.gateway = y.gateway
    BY <1>1, <2>1, UptimeAssumption
  <2> QED BY <1>1, <2>2
<1>5. \A x, y \in rows : FleetBefore(x, y, t) = Before(V[x], V[y], K[x], K[y], asc)
  <2> HIDE DEF rows
  <2> QED BY DEF FleetBefore, Before
<1>6. B = Sorted(rows, V, K, asc)
  <2> HIDE DEF rows, V, K, asc
  <2> QED BY <1>5 DEF Sorted
<1> HIDE DEF rows, V, K, asc, B
<1>7. Orders(B, rows) /\ \A x, y \in rows : <<x, y>> \in B <=> Before(V[x], V[y], K[x], K[y], asc)
  BY <1>2, <1>3, <1>4, <1>6, SortedOrders
<1>8. ASSUME NEW x \in rows, NEW y \in rows, <<x, y>> \in B, V[x] = NoFigure
      PROVE  V[y] = NoFigure
  BY <1>7, <1>8 DEF Before
<1>9. \A x \in rows : V[x] = FleetValue(x, t.key)
  BY DEF V
<1>10. \A x, y \in rows : <<x, y>> \in B /\ FleetValue(x, t.key) = NoFigure => FleetValue(y, t.key) = NoFigure
  BY <1>8, <1>9
<1> QED BY <1>7, <1>10 DEF rows, B

LEMMA FleetIsShown == FleetInv => FleetShown
<1> SUFFICES ASSUME FleetInv, fleetTold # NoData
             PROVE  FleetShown
  BY DEF FleetShown
<1> DEFINE told == fleetTold
           v == fleetView
           t == fleetTable
           S == FleetRows(told, v)
           B == {p \in S \X S : FleetBefore(p[1], p[2], t)}
           rows == FleetOnScreen
           M == MatchingOf(told, v)
           n == Cardinality(S)
<1>1. told \in FleetTold /\ v \in FleetViews /\ t \in FleetTables
      /\ t.page <= LastFleetPage(n, t.size)
  BY DEF FleetInv, PageExists
<1>2. rows = OrderedBy(S, B)
  BY DEF FleetOnScreen, FleetSorted
<1>3. /\ IsFiniteSet(S) /\ n = Cardinality(M) /\ n \in Nat
      /\ \A row \in S : row.gateway \in M
      /\ \A g \in M : FleetRow(g, told) \in S /\ FleetRow(g, told).gateway = g
  BY <1>1, FleetRowsAre, FleetRowIs
<1>4. Orders(B, S) /\ \A x, y \in S : <<x, y>> \in B /\ FleetValue(x, t.key) = NoFigure => FleetValue(y, t.key) = NoFigure
  BY <1>1, FleetOrders
<1>5. M = {g \in v.search : v.state \in {"all", g[told.at]}}
  BY DEF MatchingOf
<1>6. t.page \in Nat /\ t.size \in Nat \ {0}
  BY <1>1 DEF FleetTables
<1> HIDE DEF S, B, rows, M
<1>7. /\ Len(OrderedBy(S, B)) = n /\ DOMAIN OrderedBy(S, B) = 1 .. n /\ OrderedBy(S, B) \in Seq(S)
      /\ {OrderedBy(S, B)[i] : i \in DOMAIN OrderedBy(S, B)} = S
      /\ \A i, j \in DOMAIN OrderedBy(S, B) : i < j => <<OrderedBy(S, B)[i], OrderedBy(S, B)[j]>> \in B
  BY <1>3, <1>4, InOrder
<1>8. /\ Len(rows) = n /\ DOMAIN rows = 1 .. n /\ rows \in Seq(S)
      /\ {rows[i] : i \in DOMAIN rows} = S
      /\ \A i, j \in DOMAIN rows : i < j => <<rows[i], rows[j]>> \in B
  BY <1>2, <1>7
<1>9. \A i \in DOMAIN rows : rows[i] \in S
  BY <1>8
<1>10. {rows[i].gateway : i \in DOMAIN rows} = M
  <2>1. \A i \in DOMAIN rows : rows[i].gateway \in M
    BY <1>3, <1>9
  <2>2. \A g \in M : \E i \in DOMAIN rows : rows[i].gateway = g
    <3>1. ASSUME NEW g \in M
          PROVE  \E i \in DOMAIN rows : rows[i].gateway = g
      <4>1. PICK i \in DOMAIN rows : rows[i] = FleetRow(g, told)
        BY <1>3, <1>8
      <4> QED BY <1>3, <4>1
    <3> QED BY <3>1
  <2> QED BY <2>1, <2>2
<1>11. M # {} => FleetVisible # <<>>
  <2> DEFINE a == t.page * t.size + 1
             z == (t.page + 1) * t.size
             e == Min({z, n})
             sub == SubSeq(rows, a, e)
  <2>1. FleetVisible = sub
    BY <1>8 DEF FleetVisible, rows
  <2>2. a \in Nat /\ z \in Nat /\ a >= 1 /\ a <= z
    <3> DEFINE p == t.page
               s == t.size
    <3>1. p \in Nat /\ s \in Nat /\ s >= 1
      BY <1>6
    <3> HIDE DEF p, s
    <3>2. p * s \in Nat /\ (p + 1) * s = p * s + s
      BY <3>1
    <3>3. p * s + 1 \in Nat /\ (p + 1) * s \in Nat /\ p * s + 1 >= 1 /\ p * s + 1 <= (p + 1) * s
      BY <3>1, <3>2
    <3> QED BY <3>3 DEF p, s
  <2>3. ASSUME M # {}
        PROVE  n > 0
    <3>1. S # {}
      BY <1>3, <2>3
    <3>2. n # 0
      BY <1>3, <3>1, FS_EmptySet
    <3> QED BY <1>3, <3>2
  <2>4. n > 0 => a <= n
    BY <1>1, <1>3, <1>6, LastPageIs
  <2> HIDE DEF a, z, n
  <2>5. e = IF z <= n THEN z ELSE n
    BY <1>3, <2>2, MinTwo
  <2> HIDE DEF e
  <2>6. ASSUME M # {}
        PROVE  a <= e /\ e <= n /\ e \in Int
    BY <1>3, <2>2, <2>3, <2>4, <2>5, <2>6
  <2>7. ASSUME M # {}
        PROVE  sub # <<>>
    <3>1. \A i \in a .. e : rows[i] \in S
      BY <1>3, <1>8, <1>9, <2>2, <2>6, <2>7
    <3>2. Len(sub) = IF a <= e THEN e - a + 1 ELSE 0
      BY <2>2, <2>6, <2>7, <3>1, SubSeqProperties
    <3>3. Len(sub) > 0
      BY <2>2, <2>6, <2>7, <3>2
    <3>4. Len(<<>>) = 0
      OBVIOUS
    <3> HIDE DEF sub
    <3> QED BY <3>3, <3>4
  <2> QED BY <2>1, <2>7
<1>12. \A i, j \in DOMAIN rows :
         i < j /\ FleetValue(rows[i], t.key) = NoFigure => FleetValue(rows[j], t.key) = NoFigure
  BY <1>4, <1>8, <1>9
<1> QED BY <1>3, <1>5, <1>8, <1>10, <1>11, <1>12 DEF FleetShown, rows

LEMMA FleetRowCount ==
  ASSUME NEW told \in FleetTold, NEW v \in FleetViews
  PROVE  Cardinality(FleetRows(told, v)) \in Nat
BY FleetRowsAre

LEMMA NewTableIs == NewTable \in FleetTables /\ NewTable.page = 0
<1>1. FleetSize \in Nat \ {0}
  BY StatusTableAssumption
<1>2. TRUE \in BOOLEAN /\ "gatewayId" \in FleetKeys
  BY DEF FleetKeys
<1> QED BY <1>1, <1>2 DEF NewTable, FleetTables

\* A table with its page changed.
LEMMA WithPage ==
  ASSUME NEW t \in FleetTables, NEW p \in Nat
  PROVE  [t EXCEPT !.page = p] \in FleetTables /\ [t EXCEPT !.page = p].page = p
         /\ [t EXCEPT !.page = p].size = t.size
BY DEF FleetTables

FleetLast(told, v, t) == LastFleetPage(Cardinality(FleetRows(told, v)), t.size)

LEMMA FleetLastIs ==
  ASSUME NEW told \in FleetTold, NEW v \in FleetViews, NEW t \in FleetTables
  PROVE  FleetLast(told, v, t) \in Nat
<1>1. t.size \in Nat \ {0}
  BY DEF FleetTables
<1> QED BY <1>1, FleetRowCount, LastPageIs DEF FleetLast

LEMMA FleetAfterIs ==
  ASSUME NEW told \in FleetTold \cup {NoData}, NEW v \in FleetViews, NEW t \in FleetTables
  PROVE  FleetAfter(told, v, t) \in FleetTables /\ PageExists(told, v, FleetAfter(told, v, t))
<1>1. CASE told = NoData
  BY <1>1, NewTableIs DEF FleetAfter, PageExists
<1>2. CASE told # NoData
  <2> DEFINE last == FleetLast(told, v, t)
             p == Min({t.page, last})
             after == [t EXCEPT !.page = p]
  <2>1. told \in FleetTold
    BY <1>2
  <2>2. last \in Nat /\ t.page \in Nat
    BY <2>1, FleetLastIs DEF FleetTables
  <2>3. FleetAfter(told, v, t) = after
    BY <1>2 DEF FleetAfter, PageThatExists, FleetLast
  <2> HIDE DEF last
  <2>4. p = IF t.page <= last THEN t.page ELSE last
    BY <2>2, MinTwo
  <2>5. p \in Nat /\ p <= last
    BY <2>2, <2>4
  <2> HIDE DEF p
  <2>6. after \in FleetTables /\ after.page = p /\ after.size = t.size
    BY <2>5, WithPage
  <2> HIDE DEF after
  <2>7. FleetLast(told, v, after) = last
    BY <2>6 DEF FleetLast, last
  <2>8. after.page <= FleetLast(told, v, after)
    BY <2>5, <2>6, <2>7
  <2> QED BY <2>3, <2>6, <2>8 DEF PageExists, FleetLast
<1> QED BY <1>1, <1>2

LEMMA FleetInitially == FleetInit => FleetInv
<1> SUFFICES ASSUME FleetInit PROVE FleetInv
  OBVIOUS
<1>1. [state |-> "all", search |-> Fleet] \in FleetViews
  <2>1. "all" \in FleetStates
    BY DEF FleetStates
  <2> QED BY <2>1 DEF FleetViews
<1> QED BY <1>1, NewTableIs DEF FleetInit, FleetInv, PageExists

\* What may be shown: a table with a page that it has.
LEMMA FleetShowKeeps ==
  ASSUME FleetInv, NEW t \in FleetTables, PageExists(fleetTold, fleetView, t), FleetShow(t)
  PROVE  FleetInv'
BY DEF FleetShow, FleetInv, PageExists, FleetRows, FleetReport

LEMMA FleetShowsKeeps ==
  ASSUME FleetInv, NEW told \in FleetTold \cup {NoData}, FleetShows(told)
  PROVE  FleetInv'
<1> DEFINE t == FleetAfter(told, fleetView, fleetTable)
<1>1. t \in FleetTables /\ PageExists(told, fleetView, t)
  BY FleetAfterIs DEF FleetInv
<1>2. fleetTold' = told /\ fleetTable' = t /\ fleetView' = fleetView
  BY DEF FleetShows
<1> HIDE DEF t
<1> QED BY <1>1, <1>2 DEF FleetInv, PageExists, FleetRows, FleetReport

LEMMA FleetFilterKeeps ==
  ASSUME FleetInv, NEW v \in FleetViews, FleetFilter(v)
  PROVE  FleetInv'
<1> DEFINE t == FleetAfter(fleetTold, v, fleetTable)
<1>1. t \in FleetTables /\ PageExists(fleetTold, v, t)
  BY FleetAfterIs DEF FleetInv
<1>2. fleetTold' = fleetTold /\ fleetTable' = t /\ fleetView' = v
  BY DEF FleetFilter
<1> HIDE DEF t
<1> QED BY <1>1, <1>2 DEF FleetInv, PageExists, FleetRows, FleetReport

LEMMA FleetSortKeeps ==
  ASSUME FleetInv, NEW key \in FleetKeys, FleetSort(key)
  PROVE  FleetInv'
<1> DEFINE b == IF fleetTable.key = key THEN ~fleetTable.asc ELSE TRUE
           t == [fleetTable EXCEPT !.key = key, !.asc = b]
<1>1. FleetShow(t) /\ fleetTable \in FleetTables /\ fleetTold # NoData /\ fleetTold \in FleetTold
  BY DEF FleetSort, FleetInv
<1>2. b \in BOOLEAN
  BY <1>1 DEF FleetTables
<1> HIDE DEF b
<1>3. t \in FleetTables /\ t.page = fleetTable.page /\ t.size = fleetTable.size
  BY <1>1, <1>2 DEF FleetTables
<1> HIDE DEF t
<1>4. PageExists(fleetTold, fleetView, t)
  BY <1>3 DEF FleetInv, PageExists
<1> QED BY <1>1, <1>3, <1>4, FleetShowKeeps

LEMMA FleetPageKeeps ==
  ASSUME FleetInv, NEW to \in Nat, FleetPage(to)
  PROVE  FleetInv'
<1> DEFINE t == [fleetTable EXCEPT !.page = to]
           last == FleetLast(fleetTold, fleetView, fleetTable)
           p == fleetTable.page
<1>1. /\ FleetShow(t) /\ fleetTable \in FleetTables /\ fleetTold \in FleetTold /\ fleetView \in FleetViews
      /\ p <= last
      /\ \/ to \in {0, p - 1} /\ p # 0
         \/ to \in {last, p + 1} /\ p < last
  BY DEF FleetPage, FleetInv, FleetLast, PageExists
<1>2. last \in Nat /\ p \in Nat
  BY <1>1, FleetLastIs DEF FleetTables
<1> HIDE DEF last, p
<1>3. to <= last
  BY <1>1, <1>2
<1>4. t \in FleetTables /\ t.page = to /\ t.size = fleetTable.size
  BY <1>1, WithPage
<1> HIDE DEF t
<1>5. PageExists(fleetTold, fleetView, t)
  BY <1>3, <1>4 DEF PageExists, last, FleetLast
<1> QED BY <1>1, <1>4, <1>5, FleetShowKeeps

LEMMA FleetResizeKeeps ==
  ASSUME FleetInv, NEW n \in FleetSizes, FleetResize(n)
  PROVE  FleetInv'
<1> DEFINE t == [fleetTable EXCEPT !.size = n, !.page = 0]
<1>1. FleetShow(t) /\ fleetTable \in FleetTables /\ fleetTold \in FleetTold /\ fleetView \in FleetViews
  BY DEF FleetResize, FleetInv
<1>2. n \in Nat \ {0}
  BY StatusTableAssumption
<1>3. t \in FleetTables /\ t.page = 0
  BY <1>1, <1>2 DEF FleetTables
<1> HIDE DEF t
<1>4. FleetLast(fleetTold, fleetView, t) \in Nat
  BY <1>1, <1>3, FleetLastIs
<1>5. t.page <= FleetLast(fleetTold, fleetView, t)
  BY <1>3, <1>4
<1>6. PageExists(fleetTold, fleetView, t)
  BY <1>5 DEF PageExists, FleetLast
<1> QED BY <1>1, <1>3, <1>6, FleetShowKeeps

LEMMA FleetKeptOn ==
  ASSUME FleetInv, [FleetNext]_fleetVars
  PROVE  FleetInv'
<1>1. ASSUME NEW told \in FleetTold \cup {NoData}, FleetShows(told)
      PROVE  FleetInv'
  BY <1>1, FleetShowsKeeps
<1>2. ASSUME NEW s \in {"online", "offline", "no-data"}, FleetChip(s)
      PROVE  FleetInv'
  <2> DEFINE v == [fleetView EXCEPT !.state = IF @ = s THEN "all" ELSE s]
  <2>1. s \in FleetStates /\ "all" \in FleetStates
    BY <1>2 DEF FleetStates
  <2>2. v \in FleetViews
    BY <2>1 DEF FleetViews, FleetInv
  <2>3. FleetFilter(v)
    BY <1>2 DEF FleetChip
  <2> HIDE DEF v
  <2> QED BY <2>2, <2>3, FleetFilterKeeps
<1>3. ASSUME NEW q \in Searches, FleetSearch(q)
      PROVE  FleetInv'
  <2> DEFINE v == [fleetView EXCEPT !.search = q]
  <2>1. q \in SUBSET Fleet
    BY UptimeAssumption
  <2>2. v \in FleetViews
    BY <2>1 DEF FleetViews, FleetInv
  <2>3. FleetFilter(v)
    BY <1>3 DEF FleetSearch
  <2> HIDE DEF v
  <2> QED BY <2>2, <2>3, FleetFilterKeeps
<1>4. ASSUME NEW key \in FleetKeys, FleetSort(key)
      PROVE  FleetInv'
  BY <1>4, FleetSortKeeps
<1>5. ASSUME NEW to \in 0 .. Cardinality(Fleet), FleetPage(to)
      PROVE  FleetInv'
  <2>1. Cardinality(Fleet) \in Nat
    BY FleetAssumption, FS_CardinalityType
  <2>2. to \in Nat
    BY <2>1
  <2> QED BY <1>5, <2>2, FleetPageKeeps
<1>6. ASSUME NEW n \in FleetSizes, FleetResize(n)
      PROVE  FleetInv'
  BY <1>6, FleetResizeKeeps
<1>7. CASE UNCHANGED fleetVars
  BY <1>7 DEF FleetInv, PageExists, FleetRows, FleetReport, fleetVars
<1> QED BY <1>1, <1>2, <1>3, <1>4, <1>5, <1>6, <1>7 DEF FleetNext, FleetKeys

-----------------------------------------------------------------------------
(* Sums of numbers, compared part by part.                                 *)

\* A unit of a part for each of what f says of it.
Units(f, S) == UNION {{<<x, k>> : k \in 1 .. f[x]} : x \in S}
PartOf(f, S) == [u \in Units(f, S) |-> u[1]]

LEMMA UnitsOfOne ==
  ASSUME NEW f, NEW S, NEW x \in S, f[x] \in Nat
  PROVE  /\ Parted(Units(f, S), PartOf(f, S), {x}) = {<<x, k>> : k \in 1 .. f[x]}
         /\ IsFiniteSet({<<x, k>> : k \in 1 .. f[x]})
         /\ Cardinality({<<x, k>> : k \in 1 .. f[x]}) = f[x]
<1> DEFINE K == 1 .. f[x]
           U == {<<x, k>> : k \in K}
           h == [k \in K |-> <<x, k>>]
<1>1. IsFiniteSet(K) /\ Cardinality(K) = f[x]
  <2>1. f[x] \in Nat /\ 1 \in Int
    OBVIOUS
  <2> QED BY <2>1, FS_Interval
<1>2. DOMAIN h = K /\ h = [k \in K |-> h[k]] /\ U = {h[k] : k \in K}
      /\ \A k, l \in K : h[k] = h[l] => k = l
  OBVIOUS
<1>3. Parted(Units(f, S), PartOf(f, S), {x}) = U
  BY DEF Parted, Units, PartOf
<1> HIDE DEF K, U, h
<1>4. IsFiniteSet(U) /\ Cardinality(U) = f[x]
  BY <1>1, <1>2, ImageIs
<1> QED BY <1>3, <1>4 DEF U, K

LEMMA UnitsFinite ==
  ASSUME NEW S, IsFiniteSet(S), NEW f, \A x \in S : f[x] \in Nat
  PROVE  IsFiniteSet(Units(f, S))
<1> DEFINE F == {{<<x, k>> : k \in 1 .. f[x]} : x \in S}
           h == [x \in S |-> {<<x, k>> : k \in 1 .. f[x]}]
<1>1. DOMAIN h = S /\ h = [x \in S |-> h[x]] /\ F = {h[x] : x \in S}
  OBVIOUS
<1>2. \A y \in F : IsFiniteSet(y)
  BY UnitsOfOne
<1> HIDE DEF F, h
<1>3. IsFiniteSet(F)
  BY <1>1, ImageIs
<1>4. IsFiniteSet(UNION F)
  BY <1>2, <1>3, FS_UNION
<1> QED BY <1>4 DEF F, Units

LEMMA UnitsTell ==
  ASSUME NEW S, IsFiniteSet(S), NEW f, \A x \in S : f[x] \in Nat
  PROVE  Tells(f, S, Units(f, S), PartOf(f, S))
<1>1. \A x \in S : f[x] = Cardinality(Parted(Units(f, S), PartOf(f, S), {x}))
  BY UnitsOfOne
<1> QED BY <1>1, UnitsFinite DEF Tells

\* The sum of every part of S, one more at a time.
SumOf(f, S) == [T \in SUBSET S |-> Cardinality(Parted(Units(f, S), PartOf(f, S), T))]

Summed(f, S, F) ==
  /\ Total(f, S) = F[S] /\ F \in [SUBSET S -> Nat] /\ F[{}] = 0
  /\ \A T \in SUBSET S : \A x \in T : F[T] = f[x] + F[T \ {x}]

LEMMA SumOfIs ==
  ASSUME NEW S, IsFiniteSet(S), NEW f, \A x \in S : f[x] \in Nat
  PROVE  Summed(f, S, SumOf(f, S))
<1> DEFINE N == Units(f, S)
           p == PartOf(f, S)
           G == [T \in SUBSET S |-> Cardinality(Parted(N, p, T))]
<1>1. Tells(f, S, N, p)
  BY UnitsTell
<1>2. IsFiniteSet(N)
  BY UnitsFinite
<1> HIDE DEF N, p
<1>3. Total(f, S) = Cardinality(Parted(N, p, S))
  BY <1>1, PartsSum DEF Total
<1>4. ASSUME NEW T \in SUBSET S
      PROVE  Cardinality(Parted(N, p, T)) \in Nat
  <2>1. Parted(N, p, T) \in SUBSET N
    BY DEF Parted
  <2>2. IsFiniteSet(Parted(N, p, T))
    BY <1>2, <2>1, FS_Subset
  <2> QED BY <2>2, FS_CardinalityType
<1>5. Cardinality(Parted(N, p, {})) = 0
  <2>1. Parted(N, p, {}) = {}
    BY DEF Parted
  <2> QED BY <2>1, FS_EmptySet
<1>6. ASSUME NEW T \in SUBSET S, NEW x \in T
      PROVE  Cardinality(Parted(N, p, T)) = f[x] + Cardinality(Parted(N, p, T \ {x}))
  <2>1. f[x] = Cardinality(Parted(N, p, {x}))
    BY <1>1 DEF Tells
  <2> QED BY <1>2, <2>1, PartsAdd
<1>7. SumOf(f, S) = G
  BY DEF SumOf, N, p
<1> QED BY <1>3, <1>4, <1>5, <1>6, <1>7 DEF Summed

\* What holds of every part, with one to spare or none, holds of the sums.
LEMMA SumsCompare ==
  ASSUME NEW S, IsFiniteSet(S), S # {},
         NEW f, \A x \in S : f[x] \in Nat, NEW g, \A x \in S : g[x] \in Nat,
         NEW a \in Nat, NEW b \in Nat, NEW e \in {0, 1},
         \A x \in S : a * f[x] + e <= b * g[x]
  PROVE  /\ Total(f, S) \in Nat /\ Total(g, S) \in Nat
         /\ a * Total(f, S) + e <= b * Total(g, S)
<1> DEFINE F == SumOf(f, S)
           G == SumOf(g, S)
           Good(T) == a * F[T] <= b * G[T] /\ (T # {} => a * F[T] + e <= b * G[T])
           Wrong == {T \in SUBSET S : ~Good(T)}
<1>1. /\ Total(f, S) = F[S] /\ F \in [SUBSET S -> Nat] /\ F[{}] = 0
      /\ \A T \in SUBSET S : \A x \in T : F[T] = f[x] + F[T \ {x}]
  <2>1. Summed(f, S, F)
    BY SumOfIs
  <2> HIDE DEF F
  <2> QED BY <2>1 DEF Summed
<1>2. /\ Total(g, S) = G[S] /\ G \in [SUBSET S -> Nat] /\ G[{}] = 0
      /\ \A T \in SUBSET S : \A x \in T : G[T] = g[x] + G[T \ {x}]
  <2>1. Summed(g, S, G)
    BY SumOfIs
  <2> HIDE DEF G
  <2> QED BY <2>1 DEF Summed
<1> HIDE DEF F, G
<1>3. Wrong = {}
  <2> SUFFICES ASSUME Wrong # {} PROVE FALSE
    OBVIOUS
  <2>1. Wrong \in SUBSET (SUBSET S)
    OBVIOUS
  <2> HIDE DEF Wrong
  <2>2. PICK T \in Wrong : \A B \in Wrong : B \subseteq T => B = T
    BY <2>1, SmallestSubset
  <2>3. T \in SUBSET S /\ ~Good(T)
    BY DEF Wrong
  <2>4. T # {}
    <3> SUFFICES ASSUME T = {} PROVE FALSE
      OBVIOUS
    <3>1. a * 0 = 0 /\ b * 0 = 0
      OBVIOUS
    <3> QED BY <1>1, <1>2, <2>3, <3>1
  <2>5. PICK x \in T : TRUE
    BY <2>4
  <2> DEFINE R == T \ {x}
             u == F[R]
             v == G[R]
  <2>6. R \in SUBSET S /\ R \subseteq T /\ R # T
    BY <2>3, <2>5
  <2>7. Good(R)
    BY <2>2, <2>6 DEF Wrong
  <2>8. F[T] = f[x] + u /\ G[T] = g[x] + v /\ u \in Nat /\ v \in Nat
    BY <1>1, <1>2, <2>3, <2>5, <2>6
  <2>9. a * u <= b * v
    BY <2>7
  <2>10. f[x] \in Nat /\ g[x] \in Nat /\ a * f[x] + e <= b * g[x]
    BY <2>3, <2>5
  <2> HIDE DEF u, v, R
  <2>11. a * (f[x] + u) = a * f[x] + a * u /\ b * (g[x] + v) = b * g[x] + b * v
    BY <2>8, <2>10
  <2>12. a * f[x] \in Nat /\ a * u \in Nat /\ b * g[x] \in Nat /\ b * v \in Nat
    BY <2>8, <2>10
  <2>13. a * F[T] + e <= b * G[T] /\ a * F[T] <= b * G[T]
    BY <2>8, <2>9, <2>10, <2>11, <2>12
  <2> QED BY <2>3, <2>13
<1>4. Good(S)
  BY <1>3
<1> QED BY <1>1, <1>2, <1>4

LEMMA SumIsNat ==
  ASSUME NEW S, IsFiniteSet(S), NEW f, \A x \in S : f[x] \in Nat
  PROVE  Total(f, S) \in Nat
<1>1. Total(f, S) = SumOf(f, S)[S] /\ SumOf(f, S) \in [SUBSET S -> Nat]
  BY SumOfIs DEF Summed
<1> QED BY <1>1

\* What is said of every part is said of the mean: of m out of b, in thousandths.
PerMille(m, b) == (1000 * m) \div b

LEMMA PerMilleIs ==
  ASSUME NEW m \in Nat, NEW b \in Nat \ {0}
  PROVE  /\ PerMille(m, b) \in Nat
         /\ \A k \in Nat : k <= PerMille(m, b) <=> k * b <= 1000 * m
         /\ m <= b => PerMille(m, b) <= 1000
<1> DEFINE q == (1000 * m) \div b
           n == 1000 * m
<1>1. n \in Nat
  OBVIOUS
<1> HIDE DEF n
<1>2. n \div b \in Nat /\ (n \div b) * b <= n /\ n < (n \div b) * b + b
  BY <1>1
<1>3. q \in Nat /\ q * b <= 1000 * m /\ 1000 * m < q * b + b
  BY <1>2 DEF n
<1> HIDE DEF q
<1>4. ASSUME NEW k \in Nat
      PROVE  k <= q <=> k * b <= 1000 * m
  <2>1. ASSUME k <= q PROVE k * b <= 1000 * m
    <3>1. PICK j \in Nat : q = k + j
      <4>1. q - k \in Nat /\ q = k + (q - k)
        BY <1>3, <2>1
      <4> QED BY <4>1
    <3>2. (k + j) * b = k * b + j * b /\ k * b \in Nat /\ j * b \in Nat
      OBVIOUS
    <3>3. q * b = k * b + j * b
      BY <3>1, <3>2
    <3> QED BY <1>3, <3>2, <3>3
  <2>2. ASSUME q < k PROVE ~ (k * b <= 1000 * m)
    <3>1. PICK j \in Nat : k = (q + 1) + j
      <4>1. k - (q + 1) \in Nat /\ k = (q + 1) + (k - (q + 1))
        BY <1>3, <2>2
      <4> QED BY <4>1
    <3>2. ((q + 1) + j) * b = q * b + b + j * b /\ q * b \in Nat /\ j * b \in Nat
      BY <1>3
    <3>3. k * b = q * b + b + j * b
      BY <3>1, <3>2
    <3> QED BY <1>3, <3>2, <3>3
  <2> QED BY <1>3, <2>1, <2>2
<1>5. ASSUME m <= b PROVE q <= 1000
  <2>1. ~ (1001 * b <= 1000 * m)
    BY <1>5
  <2>2. 1001 \in Nat
    OBVIOUS
  <2>3. ~ (1001 <= q)
    BY <1>4, <2>1, <2>2
  <2> QED BY <1>3, <2>3
<1> QED BY <1>3, <1>4, <1>5 DEF PerMille, q

ReachesPart(k, m, b) == k * b <= 1000 * m
LEMMA AtLeast ==
  ASSUME NEW m \in Nat, NEW b \in Nat \ {0}, NEW k \in Nat
  PROVE  k <= PerMille(m, b) <=> ReachesPart(k, m, b)
<1>1. \A j \in Nat : j <= PerMille(m, b) <=> j * b <= 1000 * m
  BY PerMilleIs
<1>2. \A j \in Nat : j <= PerMille(m, b) <=> ReachesPart(j, m, b)
  BY <1>1 DEF ReachesPart
<1> QED BY ONLY <1>2, k \in Nat, Zenon

LEMMA MeanBetween ==
  ASSUME NEW S, IsFiniteSet(S), S # {},
         NEW m, \A x \in S : m[x] \in Nat, NEW b, \A x \in S : b[x] \in Nat \ {0},
         \A x \in S : m[x] <= b[x],
         NEW lo \in Nat, NEW hi \in Nat,
         \A x \in S : lo <= PerMille(m[x], b[x]) /\ PerMille(m[x], b[x]) <= hi
  PROVE  /\ Total(m, S) \in Nat /\ Total(b, S) \in Nat \ {0} /\ Total(m, S) <= Total(b, S)
         /\ lo <= PerMille(Total(m, S), Total(b, S))
         /\ PerMille(Total(m, S), Total(b, S)) <= hi
<1> DEFINE M == Total(m, S)
           B == Total(b, S)
<1>0. 1000 \in Nat /\ 1 \in Nat /\ 0 \in Nat /\ hi + 1 \in Nat /\ 0 \in {0, 1} /\ 1 \in {0, 1}
      /\ \A x \in S : b[x] \in Nat
  OBVIOUS
<1>1. M \in Nat /\ B \in Nat /\ 1 * M + 0 <= 1 * B
  <2>1. \A x \in S : 1 * m[x] + 0 <= 1 * b[x]
    OBVIOUS
  <2> QED BY <1>0, <2>1, SumsCompare
<1>2. 0 * M + 1 <= 1 * B
  <2>1. \A x \in S : 0 * m[x] + 1 <= 1 * b[x]
    OBVIOUS
  <2> QED BY <1>0, <2>1, SumsCompare
<1>3. lo * B + 0 <= 1000 * M
  <2>1. \A x \in S : lo * b[x] + 0 <= 1000 * m[x]
    <3> TAKE x \in S
    <3>1. lo * b[x] <= 1000 * m[x]
      BY PerMilleIs
    <3>2. lo * b[x] \in Nat
      BY <1>0
    <3> QED BY <3>1, <3>2
  <2> QED BY <1>0, <2>1, SumsCompare
<1>4. 1000 * M + 1 <= (hi + 1) * B
  <2>1. \A x \in S : 1000 * m[x] + 1 <= (hi + 1) * b[x]
    <3> TAKE x \in S
    <3>1. m[x] \in Nat /\ b[x] \in Nat \ {0} /\ PerMille(m[x], b[x]) \in Nat /\ PerMille(m[x], b[x]) <= hi
      BY PerMilleIs
    <3>2. ~ (hi + 1 <= PerMille(m[x], b[x]))
      BY <3>1
    <3>3. ~ ((hi + 1) * b[x] <= 1000 * m[x])
      <4> DEFINE k == hi + 1
      <4>1. k \in Nat /\ ~ (k <= PerMille(m[x], b[x]))
        BY <3>1, <3>2
      <4> HIDE DEF k
      <4> DEFINE p == m[x]
                 q == b[x]
      <4>3. p \in Nat /\ q \in Nat \ {0} /\ ~ (k <= PerMille(p, q))
        BY <3>1, <4>1
      <4> HIDE DEF p, q
      <4>5. k \in Nat
        BY <4>1
      <4>6. k <= PerMille(p, q) <=> ReachesPart(k, p, q)
        BY ONLY <4>3, <4>5, AtLeast
      <4>4. ~ (k * q <= 1000 * p)
        BY ONLY <4>3, <4>6 DEF ReachesPart
      <4>2. ~ (k * b[x] <= 1000 * m[x])
        BY <4>4 DEF p, q
      <4> QED BY <4>2 DEF k
    <3>4. (hi + 1) * b[x] \in Nat /\ 1000 * m[x] \in Nat
      BY <1>0, <3>1
    <3> QED BY <3>3, <3>4
  <2> DEFINE c == hi + 1
  <2>2. /\ c \in Nat /\ 1000 \in Nat /\ 1 \in {0, 1}
        /\ \A x \in S : m[x] \in Nat /\ b[x] \in Nat
        /\ \A x \in S : 1000 * m[x] + 1 <= c * b[x]
    BY <1>0, <2>1
  <2> HIDE DEF c
  <2>3. IsFiniteSet(S) /\ S # {}
    OBVIOUS
  <2>4. 1000 * Total(m, S) + 1 <= c * Total(b, S)
    BY ONLY <2>2, <2>3, SumsCompare
  <2> QED BY <2>4 DEF c
<1> HIDE DEF M, B
<1>5. B \in Nat \ {0} /\ M <= B
  BY <1>1, <1>2
<1>6. lo * B <= 1000 * M /\ ~ ((hi + 1) * B <= 1000 * M)
  <2>1. lo * B \in Nat /\ (hi + 1) * B \in Nat /\ 1000 * M \in Nat
    BY <1>0, <1>1
  <2> QED BY <1>3, <1>4, <2>1
<1>7. lo <= PerMille(M, B) /\ ~ (hi + 1 <= PerMille(M, B)) /\ PerMille(M, B) \in Nat
  BY ONLY <1>0, <1>1, <1>5, <1>6, lo \in Nat, hi \in Nat, PerMilleIs
<1>8. PerMille(M, B) <= hi
  BY <1>7
<1> QED BY <1>1, <1>5, <1>7, <1>8 DEF M, B

-----------------------------------------------------------------------------
(* What the uptime table tells of a gateway's day.                         *)
OnDayWatched(g, d, at) == {t \in OnDay(d, at) : g[t] # "no-data"}

LEMMA DayHolds ==
  ASSUME NEW g \in Fleet, NEW d \in Int, NEW at \in Moment
  PROVE  /\ IsFiniteSet(OnDayWatched(g, d, at))
         /\ TrueOnline(g, d, at) \in Nat /\ TrueWatched(g, d, at) \in Nat
         /\ TrueOnline(g, d, at) <= TrueWatched(g, d, at)
         /\ TrueWatched(g, d, at) <= TicksPerDay
<1> DEFINE T == LastTick(d - 1) + 1 .. LastTick(d)
           A == OnDay(d, at)
           W == OnDayWatched(g, d, at)
           U == OnlineOf(g, A)
<1>0. at \in Nat \ {0} /\ d - 1 \in Int /\ TicksPerDay \in Nat \ {0}
  BY ConstantsAre DEF Moment
<1>1. LastTick(d) \in Int /\ LastTick(d - 1) \in Int /\ LastTick(d) = LastTick(d - 1) + TicksPerDay
  <2>1. (d - 1) * TicksPerDay = d * TicksPerDay - TicksPerDay /\ d * TicksPerDay \in Int
    BY <1>0
  <2> QED BY <1>0, <2>1 DEF LastTick
<1>2. A \in SUBSET T
  <2>1. ASSUME NEW t \in A
        PROVE  t \in T
    <3>1. t \in Nat \ {0} /\ DayOf(t) = d
      BY <1>0 DEF OnDay
    <3>2. t <= LastTick(d)
      BY <3>1, DayIs
    <3>3. ~ (t <= LastTick(d - 1))
      BY <1>0, <3>1, DayIs
    <3> QED BY <1>1, <3>1, <3>2, <3>3
  <2> QED BY <2>1
<1>3. IsFiniteSet(T) /\ Cardinality(T) = TicksPerDay
  <2>1. LastTick(d - 1) + 1 \in Int /\ LastTick(d - 1) + 1 <= LastTick(d)
    BY <1>0, <1>1
  <2>2. IsFiniteSet(T)
    BY <1>1, <2>1, FS_Interval
  <2>3. Cardinality(T) = LastTick(d) - (LastTick(d - 1) + 1) + 1
    BY <1>1, <2>1, FS_Interval
  <2> QED BY <1>0, <1>1, <2>2, <2>3
<1>4. W \in SUBSET A /\ U \in SUBSET W
  BY DEF OnDayWatched, OnlineOf
<1>5. TrueOnline(g, d, at) = Cardinality(U) /\ TrueWatched(g, d, at) = Cardinality(W)
  BY DEF TrueOnline, TrueWatched, OnDayWatched
<1> HIDE DEF T, A, W, U
<1>6. W \in SUBSET T
  BY <1>2, <1>4
<1>7. IsFiniteSet(W) /\ Cardinality(W) <= TicksPerDay
  BY <1>3, <1>6, FS_Subset
<1>8. IsFiniteSet(U) /\ Cardinality(U) <= Cardinality(W)
  BY <1>4, <1>7, FS_Subset
<1>9. Cardinality(U) \in Nat /\ Cardinality(W) \in Nat
  BY <1>7, <1>8, FS_CardinalityType
<1> QED BY <1>5, <1>7, <1>8, <1>9 DEF W

RowBase(r, at) == BaseRangeFor({r}, DayOf(at))

LEMMA RowCovers ==
  ASSUME NEW r, Answered(r), NEW at \in Moment
  PROVE  CoversRange(RowBase(r, at), r, at)
<1> DEFINE R == {r}
<1>1. IsFiniteSet(R) /\ r \in R /\ \A x \in R : Answered(x)
  BY FS_Singleton
<1>2. RowBase(r, at) = BaseRangeFor(R, DayOf(at))
  BY DEF RowBase
<1> HIDE DEF R
<1> QED BY <1>1, <1>2, BaseCovers

LEMMA DayOfRange ==
  ASSUME NEW g \in Fleet, NEW r, Answered(r), NEW at \in Moment, NEW d \in r.from .. r.to
  PROVE  OfDay(g, RowBase(r, at), at, d) = OnDayWatched(g, d, at)
<1> DEFINE base == RowBase(r, at)
<1>1. CoversRange(base, r, at)
  BY RowCovers
<1>2. at \in Nat \ {0} /\ r \in AnyRange /\ d \in Int /\ r.from <= d /\ d <= r.to
  BY ConstantsAre DEF Moment, Answered, AnyRange
<1> HIDE DEF base
<1>3. ASSUME NEW t \in 1 .. at, DayOf(t) = d
      PROVE  t \in Watched(g, base, at) <=> g[t] # "no-data"
  <2>1. t \in Nat \ {0}
    BY <1>2
  <2>2. Within(DayOf(t), r)
    BY <1>2, <1>3 DEF Within
  <2>3. FirstTick(r) <= t
    BY <1>2, <2>1, <2>2, WithinIs
  <2>4. /\ FirstTick(base) \in Int /\ FirstTick(r) \in Int /\ FirstTick(base) <= FirstTick(r)
        /\ t \in Watched(g, base, at) <=> FirstTick(base) <= t /\ g[t] # "no-data"
    BY <1>1, CoversIs
  <2> QED BY <2>1, <2>3, <2>4
<1>4. \A t \in Watched(g, base, at) : t \in 1 .. at
  BY DEF Watched
<1>5. OfDay(g, base, at, d) = OnDayWatched(g, d, at)
  BY <1>3, <1>4 DEF OfDay, OnDayWatched, OnDay
<1> QED BY <1>5 DEF base

DayTold(g, r, at, d) ==
  LET days == Report(g, RowBase(r, at), at).days
  IN IF d \in DOMAIN days THEN days[d] ELSE NoDay

LEMMA DayToldIs ==
  ASSUME NEW g \in Fleet, NEW r, Answered(r), NEW at \in Moment, NEW d \in r.from .. r.to
  PROVE  /\ DayTold(g, r, at, d).online = TrueOnline(g, d, at)
         /\ DayTold(g, r, at, d).watched = TrueWatched(g, d, at)
<1> DEFINE base == RowBase(r, at)
           days == Report(g, base, at).days
           W == OnDayWatched(g, d, at)
<1>1. DaysTold(g, base, at, days)
  BY ReportIs
<1>2. OfDay(g, base, at, d) = W
  BY DayOfRange
<1>3. DayTold(g, r, at, d) = IF d \in DOMAIN days THEN days[d] ELSE NoDay
  BY DEF DayTold
<1>4. TrueOnline(g, d, at) = Cardinality(OnlineOf(g, W)) /\ TrueWatched(g, d, at) = Cardinality(W)
  <2>1. OnlineOf(g, W) = OnlineOf(g, OnDay(d, at))
    BY DEF OnlineOf, OnDayWatched
  <2> QED BY <2>1 DEF TrueOnline, TrueWatched, OnDayWatched
<1>5. d \in ReportDays(g, base, at) <=> OfDay(g, base, at, d) # {}
  BY DEF ReportDays, OfDay
<1> HIDE DEF base, days, W
<1>6. CASE d \in DOMAIN days
  BY <1>1, <1>2, <1>3, <1>4, <1>6 DEF DaysTold
<1>7. CASE d \notin DOMAIN days
  <2>1. W = {}
    BY <1>1, <1>2, <1>5, <1>7 DEF DaysTold
  <2>2. OnlineOf(g, W) = {}
    BY <2>1 DEF OnlineOf
  <2> QED BY <1>3, <1>4, <1>7, <2>1, <2>2, FS_EmptySet DEF NoDay
<1> QED BY <1>6, <1>7

\* A cell: its time online, whether anything is known, and its share in thousandths.
CellSays(c, d, now, online, watched) ==
  /\ c.minutes = online
  /\ c.kind \in {"nodata", "partial", "full"}
  /\ (c.kind = "nodata") = (watched = 0)
  /\ c.kind = "full" => d < now /\ watched >= WholeDay
  /\ c.kind = "nodata" => c.percent = NoFigure
  /\ c.kind # "nodata" => /\ c.basis \in Nat \ {0} /\ online <= c.basis
                          /\ c.percent = PerMille(online, c.basis)

LEMMA CellIs ==
  ASSUME NEW day, NEW d \in Int, NEW now \in Int,
         day.online \in Nat, day.watched \in Nat, day.online <= day.watched,
         day.watched <= TicksPerDay
  PROVE  CellSays(Cell(day, d, now), d, now, day.online, day.watched)
<1> DEFINE o == day.online
           w == day.watched
<1>1. CASE day.watched = 0
  BY <1>1 DEF Cell, CellSays
<1>2. CASE day.watched # 0 /\ PartOfDay(day, d, now)
  <2>1. PerMille(o, w) \in Nat /\ PerMille(o, w) <= 1000
    BY <1>2, PerMilleIs
  <2>2. Min({1000, PerMille(o, w)}) = PerMille(o, w)
    BY <2>1, MinTwo
  <2>3. Cell(day, d, now) = [kind |-> "partial", minutes |-> o, basis |-> w,
                             percent |-> Min({1000, PerMille(o, w)})]
    BY <1>2 DEF Cell, PerMille
  <2>4. w \in Nat \ {0}
    BY <1>2
  <2> QED BY <1>2, <2>2, <2>3, <2>4 DEF CellSays
<1>3. CASE day.watched # 0 /\ ~PartOfDay(day, d, now)
  <2>1. Cell(day, d, now) = [kind |-> "full", minutes |-> o, basis |-> TicksPerDay,
                             percent |-> PerMille(o, TicksPerDay)]
    BY <1>3 DEF Cell, PerMille
  <2>2. TicksPerDay \in Nat \ {0} /\ o <= TicksPerDay
    BY ConstantsAre
  <2>3. WholeDay \in Int
    BY UptimeAssumption
  <2>4. d < now /\ w >= WholeDay
    BY <1>3, <2>3 DEF PartOfDay
  <2> QED BY <1>3, <2>1, <2>2, <2>4 DEF CellSays
<1> QED BY <1>1, <1>2, <1>3

-----------------------------------------------------------------------------
(* The rows of the uptime table.                                           *)
RowCells(g, r, at, now) == [d \in r.from .. r.to |-> Cell(DayTold(g, r, at, d), d, now)]
DaysKnown(r, cells) == {d \in r.from .. r.to : cells[d].kind # "nodata"}
OnlineDays(D, cells) == [d \in D |-> cells[d].minutes]
BasisDays(D, cells) == [d \in D |-> cells[d].basis]
MeanMinutes(n, online) == IF n = 0 THEN NoFigure ELSE (2 * online + n) \div (2 * n)
MeanPercent(D, cells) ==
  IF Cardinality(D) = 0 THEN NoFigure
  ELSE Min({1000, PerMille(Total(OnlineDays(D, cells), D), Total(BasisDays(D, cells), D))})

LEMMA RowForm ==
  ASSUME NEW g, NEW r, NEW at, NEW now
  PROVE  /\ UptimeRow(g, r, at, now).gateway = g
         /\ UptimeRow(g, r, at, now).status = Report(g, RowBase(r, at), at).status
         /\ UptimeRow(g, r, at, now).cells = RowCells(g, r, at, now)
         /\ UptimeRow(g, r, at, now).percent =
              MeanPercent(DaysKnown(r, RowCells(g, r, at, now)), RowCells(g, r, at, now))
<1> DEFINE cells == RowCells(g, r, at, now)
           D == DaysKnown(r, cells)
           minutes == MeanMinutes(Cardinality(D), Total(OnlineDays(D, cells), D))
<1>1. UptimeRow(g, r, at, now) =
        [gateway |-> g, status |-> Report(g, RowBase(r, at), at).status, cells |-> cells,
         minutes |-> minutes, percent |-> MeanPercent(D, cells)]
  BY DEF UptimeRow, RowBase, RowCells, DayTold, DaysKnown, OnlineDays, BasisDays,
         MeanMinutes, MeanPercent, PerMille
<1> HIDE DEF cells, D, minutes
<1> DEFINE row == UptimeRow(g, r, at, now)
<1>2. /\ row.gateway = g /\ row.status = Report(g, RowBase(r, at), at).status
      /\ row.cells = cells /\ row.percent = MeanPercent(D, cells)
  BY <1>1
<1> QED BY <1>2 DEF cells, D

CellsSay(g, r, at, now, cells) ==
  /\ DOMAIN cells = r.from .. r.to
  /\ \A d \in r.from .. r.to :
       CellSays(cells[d], d, now, TrueOnline(g, d, at), TrueWatched(g, d, at))

LEMMA RowCellsAre ==
  ASSUME NEW g \in Fleet, NEW r, Answered(r), NEW at \in Moment, NEW now \in Int
  PROVE  CellsSay(g, r, at, now, RowCells(g, r, at, now))
<1>1. ASSUME NEW d \in r.from .. r.to
      PROVE  CellSays(Cell(DayTold(g, r, at, d), d, now), d, now, TrueOnline(g, d, at), TrueWatched(g, d, at))
  <2>1. d \in Int
    BY DEF Answered, AnyRange
  <2> DEFINE day == DayTold(g, r, at, d)
  <2>2. day.online = TrueOnline(g, d, at) /\ day.watched = TrueWatched(g, d, at)
    BY DayToldIs
  <2>3. /\ day.online \in Nat /\ day.watched \in Nat /\ day.online <= day.watched
        /\ day.watched <= TicksPerDay
    BY <2>1, <2>2, DayHolds
  <2> HIDE DEF day
  <2>4. CellSays(Cell(day, d, now), d, now, day.online, day.watched)
    BY <2>1, <2>3, CellIs
  <2> QED BY <2>2, <2>4 DEF day
<1>2. DOMAIN RowCells(g, r, at, now) = r.from .. r.to
  BY DEF RowCells
<1>3. \A d \in r.from .. r.to : RowCells(g, r, at, now)[d] = Cell(DayTold(g, r, at, d), d, now)
  BY DEF RowCells
<1> QED BY <1>1, <1>2, <1>3 DEF CellsSay

MeanFits(D, cells, mean) ==
  /\ D = {} => mean = NoFigure
  /\ D # {} => /\ mean \in Nat
               /\ mean >= Min({cells[d].percent : d \in D})
               /\ mean <= Max({cells[d].percent : d \in D})

\* The mean lies between the days.
LEMMA MeanIs ==
  ASSUME NEW g \in Fleet, NEW r, Answered(r), NEW at \in Moment, NEW now \in Int,
         NEW cells, CellsSay(g, r, at, now, cells),
         NEW D, D = DaysKnown(r, cells)
  PROVE  MeanFits(D, cells, MeanPercent(D, cells))
<1> DEFINE m == OnlineDays(D, cells)
           b == BasisDays(D, cells)
           P == {cells[d].percent : d \in D}
           M == Total(m, D)
           B == Total(b, D)
<1>1. IsFiniteSet(D) /\ \A d \in D : d \in Int /\ d \in r.from .. r.to /\ cells[d].kind # "nodata"
  <2>1. r.from \in Int /\ r.to \in Int
    BY DEF Answered, AnyRange
  <2>2. IsFiniteSet(r.from .. r.to) /\ D \in SUBSET (r.from .. r.to)
    BY <2>1, FS_Interval DEF DaysKnown
  <2> QED BY <2>1, <2>2, FS_Subset DEF DaysKnown
<1>2. CASE D = {}
  BY <1>2, FS_EmptySet DEF MeanPercent, MeanFits
<1>3. CASE D # {}
  <2>1. Cardinality(D) # 0
    BY <1>1, <1>3, FS_EmptySet
  <2>2. ASSUME NEW d \in D
        PROVE  /\ m[d] \in Nat /\ b[d] \in Nat \ {0} /\ m[d] <= b[d]
               /\ cells[d].percent = PerMille(m[d], b[d]) /\ cells[d].percent \in Nat
               /\ cells[d].percent <= 1000
    <3>1. CellSays(cells[d], d, now, TrueOnline(g, d, at), TrueWatched(g, d, at))
      BY <1>1 DEF CellsSay
    <3>2. TrueOnline(g, d, at) \in Nat
      BY <1>1, DayHolds
    <3>3. /\ cells[d].minutes \in Nat /\ cells[d].basis \in Nat \ {0}
          /\ cells[d].minutes <= cells[d].basis
          /\ cells[d].percent = PerMille(cells[d].minutes, cells[d].basis)
      BY <1>1, <3>1, <3>2 DEF CellSays
    <3>4. m[d] = cells[d].minutes /\ b[d] = cells[d].basis
      BY DEF OnlineDays, BasisDays
    <3>5. PerMille(m[d], b[d]) \in Nat /\ PerMille(m[d], b[d]) <= 1000
      BY <3>3, <3>4, PerMilleIs
    <3> QED BY <3>3, <3>4, <3>5
  <2>3. IsFiniteSet(P) /\ P # {} /\ \A y \in P : y \in Int
    <3> DEFINE f == [d \in D |-> cells[d].percent]
    <3>1. DOMAIN f = D /\ f = [d \in D |-> f[d]] /\ P = {f[d] : d \in D}
      OBVIOUS
    <3>2. P # {} /\ \A y \in P : y \in Int
      BY <1>3, <2>2
    <3> HIDE DEF f, P
    <3> QED BY <1>1, <3>1, <3>2, ImageIs
  <2>4. \A d \in D : cells[d].percent \in P
    OBVIOUS
  <2>5. \A y \in P : y \in Nat /\ y <= 1000
    BY <2>2
  <2> HIDE DEF m, b, P
  <2>6. Min(P) \in P /\ (\A y \in P : Min(P) <= y) /\ Max(P) \in P /\ (\A y \in P : y <= Max(P))
    BY <2>3, MinFound, MaxFound
  <2> DEFINE lo == Min(P)
             hi == Max(P)
  <2>7. lo \in Nat /\ hi \in Nat /\ hi <= 1000
    BY <2>5, <2>6
  <2>8. \A d \in D : lo <= PerMille(m[d], b[d]) /\ PerMille(m[d], b[d]) <= hi
    BY <2>2, <2>4, <2>6
  <2> HIDE DEF lo, hi
  <2>9. /\ M \in Nat /\ B \in Nat \ {0} /\ M <= B
        /\ lo <= PerMille(M, B) /\ PerMille(M, B) <= hi
    <3>1. /\ \A d \in D : m[d] \in Nat
          /\ \A d \in D : b[d] \in Nat \ {0}
          /\ \A d \in D : m[d] <= b[d]
      BY <2>2
    <3> QED BY <1>1, <1>3, <2>7, <2>8, <3>1, MeanBetween
  <2> HIDE DEF M, B
  <2>10. PerMille(M, B) \in Nat /\ PerMille(M, B) <= 1000
    BY <2>9, PerMilleIs
  <2>11. Min({1000, PerMille(M, B)}) = PerMille(M, B)
    BY <2>10, MinTwo
  <2>12. MeanPercent(D, cells) = PerMille(M, B)
    BY <2>1, <2>11 DEF MeanPercent, M, B, m, b
  <2>13. D # {} /\ MeanPercent(D, cells) \in Nat /\ MeanPercent(D, cells) >= lo /\ MeanPercent(D, cells) <= hi
    BY <1>3, <2>7, <2>9, <2>10, <2>12
  <2> QED BY <2>13 DEF lo, hi, P, MeanFits
<1> QED BY <1>2, <1>3

RowSays(g, r, at, now, row) ==
  /\ row.gateway = g /\ row.status = g[at]
  /\ CellsSay(g, r, at, now, row.cells)
  /\ row.percent \in Nat \cup {NoFigure}
  /\ DaysKnown(r, row.cells) # {} =>
       /\ row.percent >= Min({row.cells[d].percent : d \in DaysKnown(r, row.cells)})
       /\ row.percent <= Max({row.cells[d].percent : d \in DaysKnown(r, row.cells)})

LEMMA RowIs ==
  ASSUME NEW g \in Fleet, NEW r, Answered(r), NEW at \in Moment, NEW now \in Int
  PROVE  RowSays(g, r, at, now, UptimeRow(g, r, at, now))
<1> DEFINE row == UptimeRow(g, r, at, now)
           cells == RowCells(g, r, at, now)
           D == DaysKnown(r, cells)
<1>1. /\ row.gateway = g /\ row.status = Report(g, RowBase(r, at), at).status
      /\ row.cells = cells /\ row.percent = MeanPercent(D, cells)
  BY RowForm
<1>2. CellsSay(g, r, at, now, cells)
  BY RowCellsAre
<1> HIDE DEF row, cells
<1>3. MeanFits(D, cells, MeanPercent(D, cells))
  <2> HIDE DEF D
  <2>1. D = DaysKnown(r, cells)
    BY DEF D
  <2> QED BY <1>2, <2>1, MeanIs
<1>4. Report(g, RowBase(r, at), at).status = g[at]
  <2> DEFINE base == RowBase(r, at)
  <2>1. CoversRange(base, r, at)
    BY RowCovers
  <2>2. Report(g, base, at).status = g[Min({at, LastTick(base.to)})]
    BY ReportIs
  <2> HIDE DEF base
  <2>3. at \in Int /\ LastTick(base.to) \in Int /\ at <= LastTick(base.to)
    BY <2>1, CoversIs
  <2>4. Min({at, LastTick(base.to)}) = at
    BY <2>3, MinTwo
  <2> QED BY <2>2, <2>4 DEF base
<1>5. RowSays(g, r, at, now, row)
  BY <1>1, <1>2, <1>3, <1>4 DEF RowSays, MeanFits
<1> QED BY <1>5 DEF row

-----------------------------------------------------------------------------
(* The rows of the uptime table that are shown, in their order.            *)
UptimeViews ==
  [state : FleetStates, search : SUBSET Fleet, below : Threshold \cup {NoFigure},
   key : {"average", "gatewayId", "address"}, asc : BOOLEAN, menu : BOOLEAN]

RowsKept(r, at, now, v) ==
  {row \in {UptimeRow(g, r, at, now) : g \in Fleet} : UptimeKept(row, v)}

LEMMA RowsKeptAre ==
  ASSUME NEW r, Answered(r), NEW at \in Moment, NEW now \in Int, NEW v
  PROVE  /\ IsFiniteSet(RowsKept(r, at, now, v))
         /\ \A row \in RowsKept(r, at, now, v) :
              /\ row.gateway \in Fleet /\ row = UptimeRow(row.gateway, r, at, now)
              /\ RowSays(row.gateway, r, at, now, row) /\ UptimeKept(row, v)
<1> DEFINE f == [g \in Fleet |-> UptimeRow(g, r, at, now)]
           S == {UptimeRow(g, r, at, now) : g \in Fleet}
           rows == RowsKept(r, at, now, v)
<1>1. IsFiniteSet(Fleet)
  BY FleetAssumption
<1>2. DOMAIN f = Fleet /\ f = [g \in Fleet |-> f[g]] /\ S = {f[g] : g \in Fleet}
  OBVIOUS
<1>3. rows \in SUBSET S /\ \A row \in rows : UptimeKept(row, v)
  BY DEF RowsKept
<1>4. \A g \in Fleet : f[g] = UptimeRow(g, r, at, now) /\ RowSays(g, r, at, now, f[g]) /\ f[g].gateway = g
  <2> TAKE g \in Fleet
  <2>1. RowSays(g, r, at, now, UptimeRow(g, r, at, now))
    BY RowIs
  <2> QED BY <2>1 DEF RowSays
<1> HIDE DEF f, S, rows
<1>5. IsFiniteSet(S)
  BY <1>1, <1>2, ImageIs
<1>6. IsFiniteSet(rows)
  BY <1>3, <1>5, FS_Subset
<1>7. ASSUME NEW row \in rows
      PROVE  /\ row.gateway \in Fleet /\ row = UptimeRow(row.gateway, r, at, now)
             /\ RowSays(row.gateway, r, at, now, row) /\ UptimeKept(row, v)
  <2>1. PICK g \in Fleet : row = f[g]
    BY <1>2, <1>3
  <2> QED BY <1>3, <1>4, <2>1
<1> QED BY <1>6, <1>7 DEF rows

LEMMA RowsOrdered ==
  ASSUME NEW r, Answered(r), NEW at \in Moment, NEW now \in Int, NEW v \in UptimeViews
  PROVE  LET rows == RowsKept(r, at, now, v)
         IN Orders({p \in rows \X rows : RowBefore(p[1], p[2], v)}, rows)
<1> DEFINE rows == RowsKept(r, at, now, v)
           B == {p \in rows \X rows : RowBefore(p[1], p[2], v)}
           V == [x \in rows |-> SortValue(x, v.key)]
           K == [x \in rows |-> GatewayRank[x.gateway]]
           asc == v.asc
<1>1. \A x \in rows : x.gateway \in Fleet /\ x = UptimeRow(x.gateway, r, at, now)
                      /\ RowSays(x.gateway, r, at, now, x)
  BY RowsKeptAre
<1>2. asc \in BOOLEAN
  BY DEF UptimeViews
<1>3. ASSUME NEW x \in rows
      PROVE  V[x] \in Int /\ K[x] \in Int
  <2>0. x.gateway \in Fleet /\ RowSays(x.gateway, r, at, now, x)
    BY <1>1
  <2>1. x.gateway \in Fleet /\ x.percent \in Int
    <3>1. x.percent \in Nat \cup {NoFigure}
      BY <2>0 DEF RowSays
    <3> QED BY <2>0, <3>1 DEF NoFigure
  <2>2. GatewayRank[x.gateway] \in Int /\ AddressRank[x.gateway] \in Int
    BY <2>1, UptimeAssumption
  <2>3. SortValue(x, v.key) \in Int
    BY <2>1, <2>2 DEF SortValue, NoFigure
  <2> HIDE DEF rows
  <2> QED BY <2>2, <2>3
<1>4. ASSUME NEW x \in rows, NEW y \in rows, K[x] = K[y]
      PROVE  x = y
  <2>1. GatewayRank[x.gateway] = GatewayRank[y.gateway]
    <3> HIDE DEF rows
    <3> QED BY <1>4
  <2>2. x.gateway = y.gateway
    BY <1>1, <2>1, UptimeAssumption
  <2> QED BY <1>1, <2>2
<1>5. \A x, y \in rows : RowBefore(x, y, v) = Before(V[x], V[y], K[x], K[y], asc)
  <2> HIDE DEF rows
  <2> QED BY DEF RowBefore, Before
<1>6. B = Sorted(rows, V, K, asc)
  <2> HIDE DEF rows, V, K, asc
  <2> QED BY <1>5 DEF Sorted
<1> HIDE DEF rows, V, K, asc, B
<1>7. Orders(B, rows)
  BY <1>2, <1>3, <1>4, <1>6, SortedOrders
<1> QED BY <1>7 DEF rows, B

InTable(rows, r, at, now, v) ==
  /\ Len(rows) \in Nat /\ DOMAIN rows = 1 .. Len(rows)
  /\ \A i \in DOMAIN rows :
       /\ rows[i].gateway \in Fleet /\ rows[i] = UptimeRow(rows[i].gateway, r, at, now)
       /\ RowSays(rows[i].gateway, r, at, now, rows[i]) /\ UptimeKept(rows[i], v)
  /\ \A i, j \in DOMAIN rows : i < j => RowBefore(rows[i], rows[j], v)
  /\ \A i, j \in DOMAIN rows : i # j => rows[i].gateway # rows[j].gateway

LEMMA RowsListed ==
  ASSUME NEW r, Answered(r), NEW at \in Moment, NEW now \in Int, NEW v \in UptimeViews
  PROVE  InTable(UptimeRows(r, at, now, v), r, at, now, v)
<1> DEFINE S == RowsKept(r, at, now, v)
           B == {p \in S \X S : RowBefore(p[1], p[2], v)}
           rows == UptimeRows(r, at, now, v)
           n == Cardinality(S)
<1>1. rows = OrderedBy(S, B)
  BY DEF UptimeRows, RowsKept
<1>2. /\ IsFiniteSet(S)
      /\ \A row \in S : /\ row.gateway \in Fleet /\ row = UptimeRow(row.gateway, r, at, now)
                        /\ RowSays(row.gateway, r, at, now, row) /\ UptimeKept(row, v)
  BY RowsKeptAre
<1>3. Orders(B, S)
  BY RowsOrdered
<1>4. \A p \in B : p \in S \X S /\ RowBefore(p[1], p[2], v)
  OBVIOUS
<1> HIDE DEF S, B, rows
<1>5. /\ Len(OrderedBy(S, B)) = n /\ n \in Nat /\ DOMAIN OrderedBy(S, B) = 1 .. n
      /\ OrderedBy(S, B) \in Seq(S)
      /\ \A i, j \in DOMAIN OrderedBy(S, B) : i < j => <<OrderedBy(S, B)[i], OrderedBy(S, B)[j]>> \in B
  BY <1>2, <1>3, InOrder
<1>6. /\ Len(rows) = n /\ n \in Nat /\ DOMAIN rows = 1 .. n /\ rows \in Seq(S)
      /\ \A i, j \in DOMAIN rows : i < j => <<rows[i], rows[j]>> \in B
  BY <1>1, <1>5
<1>7. \A i \in DOMAIN rows : rows[i] \in S
  BY <1>6
<1>8. \A i, j \in DOMAIN rows : i < j => RowBefore(rows[i], rows[j], v)
  <2> TAKE i, j \in DOMAIN rows
  <2> HAVE i < j
  <2> DEFINE p == <<rows[i], rows[j]>>
  <2>1. p \in B
    BY <1>6
  <2>2. RowBefore(p[1], p[2], v)
    BY <1>4, <2>1
  <2> QED BY <2>2
<1>9. ASSUME NEW i \in DOMAIN rows, NEW j \in DOMAIN rows, i # j
      PROVE  rows[i].gateway # rows[j].gateway
  <2>1. i \in Int /\ j \in Int
    BY <1>6
  <2>2. <<rows[i], rows[j]>> \in B \/ <<rows[j], rows[i]>> \in B
    BY <1>6, <1>9, <2>1
  <2>3. rows[i] # rows[j]
    BY <1>3, <1>7, <2>2 DEF Orders
  <2> QED BY <1>2, <1>7, <2>3
<1> QED BY <1>2, <1>6, <1>7, <1>8, <1>9 DEF InTable, rows

\* The best first.
LEMMA BestFirst ==
  ASSUME NEW a, NEW b, NEW v, RowBefore(a, b, v), v.key = "average", ~v.asc,
         a.percent \in Nat \cup {NoFigure}, b.percent \in Nat \cup {NoFigure},
         GatewayRank[a.gateway] \in Int, GatewayRank[b.gateway] \in Int
  PROVE  a.percent >= b.percent
<1>1. SortValue(a, v.key) = a.percent /\ SortValue(b, v.key) = b.percent
  BY DEF SortValue
<1>2. a.percent = b.percent \/ a.percent > b.percent \/ b.percent = NoFigure
  BY <1>1 DEF RowBefore
<1> QED BY <1>2 DEF NoFigure

-----------------------------------------------------------------------------
(* What the uptime page shows.                                             *)
UptimeLoads ==
  /\ uptimeLoad \in FreshLoad(AnyRange)
  /\ uptimeLoad.key = UptimeRange
  /\ uptimeLoad.kept.data # NoData => Accepted(uptimeLoad.kept.key)
  /\ uptimeToday \in Int

LEMMA ShownAnswered ==
  ASSUME UptimeLoads, UptimeAt # NoData
  PROVE  /\ uptimeLoad.key = UptimeRange /\ Answered(UptimeRange) /\ UptimeAt \in Moment
         /\ uptimeToday \in Int
<1>1. uptimeLoad.kept.key = uptimeLoad.key /\ uptimeLoad.kept.data = UptimeAt
  BY DEF UptimeAt
<1>2. uptimeLoad.kept \in KeptLoad(AnyRange)
  BY DEF UptimeLoads, FreshLoad
<1>3. UptimeAt \in Moment /\ uptimeLoad.kept.key \in AnyRange
  BY <1>1, <1>2 DEF KeptLoad
<1>4. Accepted(UptimeRange) /\ UptimeRange \in AnyRange
  BY <1>1, <1>3 DEF UptimeLoads
<1> QED BY <1>3, <1>4 DEF Answered, UptimeLoads

\* What is said of the days of a row.
CellsFit(g, r, at, now, row, told) ==
  /\ \A d \in r.from .. r.to :
       LET c == row.cells[d]
       IN /\ c.minutes = TrueOnline(g, d, at)
          /\ (c.kind = "nodata") = (TrueWatched(g, d, at) = 0)
          /\ c.kind = "full" => d < now /\ TrueWatched(g, d, at) >= WholeDay
  /\ told # {} =>
       /\ row.percent >= Min({row.cells[d].percent : d \in told})
       /\ row.percent <= Max({row.cells[d].percent : d \in told})

LEMMA CellsShown ==
  ASSUME NEW g, NEW r, NEW at, NEW now, NEW row, RowSays(g, r, at, now, row),
         NEW told, told = {d \in r.from .. r.to : row.cells[d].kind # "nodata"}
  PROVE  CellsFit(g, r, at, now, row, told)
<1>1. \A d \in r.from .. r.to :
        CellSays(row.cells[d], d, now, TrueOnline(g, d, at), TrueWatched(g, d, at))
  BY DEF RowSays, CellsSay
<1>2. told = DaysKnown(r, row.cells)
  BY DEF DaysKnown
<1> QED BY <1>1, <1>2 DEF CellSays, RowSays, CellsFit

LEMMA UptimeIsShown ==
  ASSUME UptimeLoads, uptimeView \in UptimeViews
  PROVE  UptimeShown
<1> SUFFICES ASSUME UptimeAt # NoData
             PROVE  UptimeShown
  BY DEF UptimeShown
<1> DEFINE r == UptimeRange
           at == UptimeAt
           now == uptimeToday
           v == uptimeView
           rows == RowsOnScreen
           here == {rows[i].gateway : i \in DOMAIN rows}
<1>1. uptimeLoad.key = r /\ Answered(r) /\ at \in Moment /\ now \in Int
  BY ShownAnswered
<1>2. InTable(rows, r, at, now, v)
  <2>1. rows = UptimeRows(r, at, now, v)
    BY DEF RowsOnScreen
  <2> HIDE DEF r, at, now, rows
  <2> QED BY <1>1, <2>1, RowsListed
<1> HIDE DEF r, at, now, rows
<1>3. ASSUME NEW g \in Fleet
      PROVE  LET row == UptimeRow(g, r, at, now)
                 told == {d \in r.from .. r.to : row.cells[d].kind # "nodata"}
             IN /\ \A d \in r.from .. r.to :
                     LET c == row.cells[d]
                     IN /\ c.minutes = TrueOnline(g, d, at)
                        /\ (c.kind = "nodata") = (TrueWatched(g, d, at) = 0)
                        /\ c.kind = "full" => d < now /\ TrueWatched(g, d, at) >= WholeDay
                /\ told # {} =>
                     /\ row.percent >= Min({row.cells[d].percent : d \in told})
                     /\ row.percent <= Max({row.cells[d].percent : d \in told})
                /\ g \in here =>
                     /\ v.state \in {"all", g[at]}
                     /\ v.below # NoFigure => row.percent \in 0 .. (v.below - 1)
  <2> DEFINE row == UptimeRow(g, r, at, now)
             told == {d \in r.from .. r.to : row.cells[d].kind # "nodata"}
  <2>1. RowSays(g, r, at, now, row)
    BY <1>1, RowIs
  <2>2. ASSUME g \in here
        PROVE  v.state \in {"all", g[at]} /\ (v.below # NoFigure => row.percent \in 0 .. (v.below - 1))
    <3>1. PICK i \in DOMAIN rows : rows[i].gateway = g
      BY <2>2
    <3>2. RowSays(g, r, at, now, rows[i]) /\ UptimeKept(rows[i], v)
      BY <1>2, <3>1 DEF InTable
    <3>3. rows[i] = row
      BY <1>2, <3>1 DEF InTable
    <3>4. v.state \in {"all", g[at]}
      BY <3>2 DEF RowSays, UptimeKept
    <3>5. v.below \in Nat \cup {NoFigure}
      BY UptimeAssumption DEF UptimeViews
    <3>6. BelowAverage(row, v.below) /\ row.percent \in Nat \cup {NoFigure}
      BY <2>1, <3>2, <3>3 DEF UptimeKept, RowSays
    <3> HIDE DEF row
    <3>7. v.below # NoFigure => row.percent \in 0 .. (v.below - 1)
      BY <3>5, <3>6 DEF BelowAverage, NoFigure
    <3> QED BY <3>4, <3>7
  <2> HIDE DEF row, here
  <2>3. told = {d \in r.from .. r.to : row.cells[d].kind # "nodata"}
    OBVIOUS
  <2> HIDE DEF told
  <2>4. CellsFit(g, r, at, now, row, told)
    BY <2>1, <2>3, CellsShown
  <2> QED BY <2>2, <2>4 DEF row, told, CellsFit
<1>4. Cardinality(here) = Len(rows)
  <2> DEFINE n == Len(rows)
             f == [i \in 1 .. n |-> rows[i].gateway]
             K == 1 .. n
  <2>1. n \in Nat /\ DOMAIN rows = K /\ \A i, j \in K : i # j => rows[i].gateway # rows[j].gateway
    BY <1>2 DEF InTable
  <2>2. IsFiniteSet(K) /\ Cardinality(K) = n
    BY <2>1, FS_Interval
  <2>3. DOMAIN f = K /\ f = [i \in K |-> f[i]] /\ here = {f[i] : i \in K}
        /\ \A i, j \in K : f[i] = f[j] => i = j
    BY <2>1
  <2> HIDE DEF n, f, K, here
  <2>4. Cardinality(here) = Cardinality(K)
    BY <2>2, <2>3, ImageIs
  <2> QED BY <2>2, <2>4 DEF n
<1>5. v.key = "average" /\ ~v.asc =>
        \A i, j \in DOMAIN rows : i < j => rows[i].percent >= rows[j].percent
  <2> SUFFICES ASSUME v.key = "average", ~v.asc, NEW i \in DOMAIN rows, NEW j \in DOMAIN rows, i < j
               PROVE  rows[i].percent >= rows[j].percent
    OBVIOUS
  <2>1. RowBefore(rows[i], rows[j], v)
    BY <1>2 DEF InTable
  <2>2. /\ rows[i].percent \in Nat \cup {NoFigure} /\ rows[j].percent \in Nat \cup {NoFigure}
        /\ rows[i].gateway \in Fleet /\ rows[j].gateway \in Fleet
    BY <1>2 DEF InTable, RowSays
  <2>3. GatewayRank[rows[i].gateway] \in Int /\ GatewayRank[rows[j].gateway] \in Int
    BY <2>2, UptimeAssumption
  <2> QED BY <2>1, <2>2, <2>3, BestFirst
<1> HIDE DEF here
<1> QED BY <1>1, <1>3, <1>4, <1>5 DEF UptimeShown, r, at, now, rows, here

-----------------------------------------------------------------------------
(* The load of the uptime page holds only what the server answers.         *)
UptimeUnits == {"hours", "percent"}
AnyUptimeUrl == {PresetUrl(p) : p \in DOMAIN UptimeDays} \cup AnyRange
UptimeUrls == [range : AnyUptimeUrl, unit : UptimeUnits]
GoodLoad(h) == h \in FreshLoad(AnyRange) /\ (h.kept.data # NoData => Accepted(h.kept.key))

UptimePageInv ==
  /\ ClockInv
  /\ uptimeUrl \in UptimeUrls
  /\ uptimeToday \in Int /\ uptimeToday >= DataFrom
  /\ GoodLoad(uptimeLoad) /\ uptimeLoad.key = UptimeRange

LEMMA PageLoads == UptimePageInv => UptimeLoads
BY DEF UptimePageInv, UptimeLoads, GoodLoad

LEMMA UptimePresetAny ==
  ASSUME NEW p \in DOMAIN UptimeDays, NEW day \in Int
  PROVE  UptimePreset(p, day) \in AnyRange
<1> DEFINE n == UptimeDays[p]
<1>1. n \in Int /\ DataFrom \in Int
  BY UptimeAssumption, ConstantsAre
<1>2. Max({DataFrom, day - n}) \in Int
  <2>1. day - n \in Int
    BY <1>1
  <2> QED BY <1>1, <2>1, MaxTwo
<1> QED BY <1>2 DEF UptimePreset, AnyRange

LEMMA UptimeRangeAny ==
  ASSUME NEW u \in AnyUptimeUrl, NEW day \in Int
  PROVE  UptimeRangeOf(u, day) \in AnyRange
<1>1. UptimePreset(UptimeDefault, day) \in AnyRange
  BY UptimePresetAny, UptimeAssumption
<1>2. CASE u \in AnyRange
  <2>1. u.from \in Int /\ u.to \in Int /\ "preset" \notin DOMAIN u
    BY <1>2 DEF AnyRange
  <2> DEFINE m == Max({u.from, DataFrom})
  <2>2. m \in Int
    BY <2>1, ConstantsAre, MaxTwo
  <2>3. UptimeRangeOf(u, day) = [u EXCEPT !.from = m] \/ UptimeRangeOf(u, day) = UptimePreset(UptimeDefault, day)
    BY <2>1 DEF UptimeRangeOf
  <2> HIDE DEF m
  <2>4. [u EXCEPT !.from = m] \in AnyRange
    BY <1>2, <2>2 DEF AnyRange
  <2> QED BY <1>1, <2>3, <2>4
<1>3. ASSUME NEW p \in DOMAIN UptimeDays, u = PresetUrl(p)
      PROVE  UptimeRangeOf(u, day) \in AnyRange
  <2>1. "preset" \in DOMAIN u /\ u.preset = p
    BY <1>3 DEF PresetUrl
  <2> QED BY <2>1, UptimePresetAny DEF UptimeRangeOf
<1> QED BY <1>2, <1>3 DEF AnyUptimeUrl

LEMMA UptimeUrlAny == UptimeUrl \subseteq AnyUptimeUrl
BY FleetAssumption DEF UptimeUrl, AnyUptimeUrl, AnyRange, Days

LEMMA UptimeParamsAny ==
  ASSUME NEW r \in AnyRange, NEW day
  PROVE  UptimeParams(r, day) \in AnyUptimeUrl
<1> DEFINE P == UptimePresets(r, day)
<1>1. DOMAIN UptimeDays = 1 .. Len(UptimeDays) /\ Len(UptimeDays) \in Nat
  BY UptimeAssumption
<1>2. IsFiniteSet(DOMAIN UptimeDays)
  BY <1>1, FS_Interval
<1>3. P \in SUBSET (DOMAIN UptimeDays)
  BY DEF UptimePresets
<1> HIDE DEF P
<1>4. IsFiniteSet(P) /\ \A p \in P : p \in Int
  BY <1>1, <1>2, <1>3, FS_Subset
<1>5. CASE P # {}
  <2>1. Min(P) \in P
    BY <1>4, <1>5, MinFound
  <2> QED BY <1>3, <1>5, <2>1 DEF UptimeParams, AnyUptimeUrl, P
<1>6. CASE P = {}
  BY <1>6 DEF UptimeParams, AnyUptimeUrl, P
<1> QED BY <1>5, <1>6

LEMMA UptimeRenders ==
  ASSUME ClockInv, time' = time, NEW u \in UptimeUrls, NEW h, GoodLoad(h), UptimeRender(u, h)
  PROVE  UptimePageInv' /\ uptimeToday' = DayOf(time)
<1> DEFINE day == DayOf(time)
           r == UptimeRangeOf(u.range, day)
           yes == TRUE
           K == AnyRange
<1>1. day \in Int /\ day >= DataFrom
  BY ClockDay
<1>2. uptimeUrl' = u /\ uptimeToday' = day /\ uptimeLoad' = Effect(h, r, yes)
  BY DEF UptimeRender
<1>3. u.range \in AnyUptimeUrl
  BY DEF UptimeUrls
<1>4. r \in K /\ yes \in BOOLEAN /\ h \in FreshLoad(K) /\ time \in Moment
  BY <1>1, <1>3, UptimeRangeAny DEF GoodLoad, ClockInv
<1>5. UptimeRange' = r
  BY <1>2 DEF UptimeRange
<1> HIDE DEF day, r, yes, K
<1>6. Effect(h, r, yes) \in FreshLoad(K) /\ Effect(h, r, yes).key = r /\ Effect(h, r, yes).kept = h.kept
  BY <1>4, EffectIs
<1>7. GoodLoad(uptimeLoad)' /\ (uptimeLoad.key = UptimeRange)'
  BY <1>2, <1>5, <1>6 DEF GoodLoad, K
<1>8. ClockInv'
  BY DEF ClockInv
<1>9. (uptimeUrl \in UptimeUrls)' /\ (uptimeToday \in Int /\ uptimeToday >= DataFrom)'
  BY <1>1, <1>2
<1> QED BY <1>2, <1>7, <1>8, <1>9 DEF UptimePageInv, day

LEMMA GoodRequested ==
  ASSUME NEW h, GoodLoad(h), time \in Moment
  PROVE  GoodLoad(Requested(h)) /\ Requested(h).key = h.key
BY RequestedIs DEF GoodLoad

LEMMA GoodAskAgain ==
  ASSUME NEW h, GoodLoad(h), time \in Moment
  PROVE  GoodLoad(AskAgain(h))
<1> DEFINE e == [h EXCEPT !.out = {}]
<1>0. {} \in SUBSET Moment
  OBVIOUS
<1>1. e \in FreshLoad(AnyRange)
  BY <1>0 DEF FreshLoad, GoodLoad
<1>2. e.kept = h.kept
  BY DEF FreshLoad, GoodLoad
<1>3. AskAgain(h) = IF h.on THEN Requested(e) ELSE h
  BY DEF AskAgain
<1> HIDE DEF e
<1>4. Requested(e) \in FreshLoad(AnyRange) /\ Requested(e).kept = h.kept
  BY <1>1, <1>2, RequestedIs
<1> QED BY <1>3, <1>4 DEF GoodLoad

LEMMA GoodLanded ==
  ASSUME NEW h, GoodLoad(h), NEW asked, NEW at \in Moment, Accepted(h.key)
  PROVE  GoodLoad(Landed(h, asked, at))
<1> DEFINE l == Landed(h, asked, at)
           k == [key |-> h.key, data |-> at, error |-> FALSE]
<1>1. l \in FreshLoad(AnyRange)
  BY LandedIs DEF GoodLoad
<1>2. l = [h EXCEPT !.out = @ \ {asked}, !.refreshing = FALSE, !.kept = k]
  BY DEF Landed
<1>3. k.key = h.key
  OBVIOUS
<1> HIDE DEF l, k
<1>4. l.kept = k
  BY <1>2 DEF FreshLoad, GoodLoad
<1> QED BY <1>1, <1>3, <1>4 DEF GoodLoad, l

LEMMA GoodFailed ==
  ASSUME NEW h, GoodLoad(h), NEW asked
  PROVE  GoodLoad(StatusFailed(h, asked))
<1> DEFINE l == StatusFailed(h, asked)
           k == [key |-> h.key, error |-> TRUE,
                 data |-> IF h.kept.key = h.key THEN h.kept.data ELSE NoData]
<1>1. l \in FreshLoad(AnyRange)
  BY FailedIs DEF GoodLoad
<1>2. l = [h EXCEPT !.out = @ \ {asked}, !.refreshing = FALSE, !.kept = k]
  BY DEF StatusFailed
<1>3. k.data # NoData => Accepted(k.key)
  BY DEF GoodLoad
<1> HIDE DEF l, k
<1>4. l.kept = k
  BY <1>2 DEF FreshLoad, GoodLoad
<1> QED BY <1>1, <1>3, <1>4 DEF GoodLoad, l

-----------------------------------------------------------------------------
(* The calendar of the uptime page.                                        *)
Calendars == [open : BOOLEAN, pick : Seq(Int), month : {MonthOf[d] : d \in Int}, today : Int]

\* A first day can be picked, and of both the server accepts the range.
PickFits(p, day) ==
  /\ Len(p) = 1 => p[1] >= DataFrom /\ p[1] <= day
  /\ Len(p) = 2 => Accepted(Days(p[1], p[2])) /\ p[2] <= day
CalendarFits(c, day) == c \in Calendars /\ c.today <= day /\ PickFits(c.pick, c.today)

LEMMA PickLasts ==
  ASSUME NEW p \in Seq(Int), NEW a \in Int, NEW b \in Int, a <= b, PickFits(p, a)
  PROVE  PickFits(p, b)
<1>1. Len(p) = 1 => p[1] \in Int
  OBVIOUS
<1>2. Len(p) = 2 => p[2] \in Int
  OBVIOUS
<1> QED BY <1>1, <1>2 DEF PickFits

LEMMA NewDayFits ==
  ASSUME ClockInv, NEW c, CalendarFits(c, DayOf(time))
  PROVE  CalendarFits(NewDay(c), DayOf(time)) /\ NewDay(c) \in Calendars /\ NewDay(c).pick = c.pick
         /\ NewDay(c).today = DayOf(time)
<1> DEFINE day == DayOf(time)
           n == NewDay(c)
<1>1. day \in Int
  BY ClockDay
<1>2. c \in Calendars /\ c.today <= day /\ PickFits(c.pick, c.today) /\ c.today \in Int /\ c.pick \in Seq(Int)
  BY DEF CalendarFits, Calendars
<1>3. n = [c EXCEPT !.today = day]
  BY DEF NewDay
<1> HIDE DEF day, n
<1>4. n \in Calendars
  BY <1>1, <1>2, <1>3 DEF Calendars
<1>5. n.pick = c.pick
  BY <1>2, <1>3 DEF Calendars
<1>6. n.today = day
  BY <1>2, <1>3 DEF Calendars
<1>7. PickFits(c.pick, day)
  BY <1>1, <1>2, PickLasts
<1> QED BY <1>1, <1>4, <1>5, <1>6, <1>7 DEF CalendarFits, day, n

LEMMA ClosedFits ==
  ASSUME ClockInv, NEW c, CalendarFits(c, DayOf(time))
  PROVE  CalendarFits(PickerClosed(c), DayOf(time))
<1> DEFINE day == DayOf(time)
           n == NewDay(c)
           e == PickerClosed(c)
<1>1. CalendarFits(n, day)
  BY NewDayFits
<1>2. e = [n EXCEPT !.open = FALSE] /\ FALSE \in BOOLEAN
  BY DEF PickerClosed
<1> HIDE DEF n, e, day
<1>3. n \in Calendars
  BY <1>1 DEF CalendarFits
<1>4. e \in Calendars
  BY <1>2, <1>3 DEF Calendars
<1>5. e.pick = n.pick
  BY <1>2, <1>3 DEF Calendars
<1>6. e.today = n.today
  BY <1>2, <1>3 DEF Calendars
<1>7. CalendarFits(e, day)
  BY <1>1, <1>4, <1>5, <1>6 DEF CalendarFits
<1> QED BY <1>7 DEF e, day

LEMMA MonthFits ==
  ASSUME NEW c, NEW day, CalendarFits(c, day), NEW m \in {MonthOf[d] : d \in Int}
  PROVE  CalendarFits([c EXCEPT !.month = m], day)
<1> DEFINE e == [c EXCEPT !.month = m]
<1>1. c \in Calendars
  BY DEF CalendarFits
<1>2. e \in Calendars
  BY <1>1 DEF Calendars
<1>3. e.pick = c.pick
  BY <1>1 DEF Calendars
<1>4. e.today = c.today
  BY <1>1 DEF Calendars
<1> HIDE DEF e
<1>5. CalendarFits(e, day)
  BY <1>2, <1>3, <1>4 DEF CalendarFits
<1> QED BY <1>5 DEF e

LEMMA OpenedFits ==
  ASSUME ClockInv, NEW m \in {MonthOf[d] : d \in Int}, NEW open \in BOOLEAN
  PROVE  CalendarFits([open |-> open, pick |-> <<>>, month |-> m, today |-> DayOf(time)], DayOf(time))
<1> DEFINE day == DayOf(time)
           e == [open |-> open, pick |-> <<>>, month |-> m, today |-> day]
<1>1. day \in Int
  BY ClockDay
<1> HIDE DEF day
<1>2. <<>> \in Seq(Int) /\ Len(<<>>) = 0
  OBVIOUS
<1>3. e \in Calendars /\ e.pick = <<>> /\ e.today = day
  BY <1>1, <1>2 DEF Calendars
<1> HIDE DEF e
<1>4. CalendarFits(e, day)
  BY <1>1, <1>2, <1>3 DEF CalendarFits, PickFits
<1> QED BY <1>4 DEF e, day

\* A day that may be picked leaves a pick that fits.
LEMMA PickedFits ==
  ASSUME NEW c \in Calendars, PickFits(c.pick, c.today), NEW d \in Int, MayPick(d, c)
  PROVE  Picked(c.pick, d) \in Seq(Int) /\ PickFits(Picked(c.pick, d), c.today)
<1> DEFINE p == c.pick
           day == c.today
<1>1. p \in Seq(Int) /\ day \in Int /\ d >= DataFrom /\ d <= day /\ DataFrom \in Int /\ MaxRangeDays \in Int
  BY ConstantsAre DEF Calendars, MayPick
<1>2. CASE Len(p) # 1
  <2> DEFINE q == <<d>>
  <2>1. q \in Seq(Int) /\ Len(q) = 1 /\ q[1] = d
    OBVIOUS
  <2>2. Picked(p, d) = q
    BY <1>2 DEF Picked
  <2> HIDE DEF q
  <2>3. PickFits(q, day)
    BY <1>1, <2>1 DEF PickFits
  <2> QED BY <2>1, <2>2, <2>3
<1>3. CASE Len(p) = 1
  <2> DEFINE a == p[1]
             lo == IF a <= d THEN a ELSE d
             hi == IF a <= d THEN d ELSE a
             q == <<lo, hi>>
             s == Days(lo, hi)
  <2>1. a \in Int /\ a >= DataFrom /\ a <= day
    BY <1>1, <1>3 DEF PickFits
  <2>2. DaysIn(Span(a, d)) <= MaxRangeDays
    BY <1>3 DEF MayPick
  <2>3. Span(a, d) = s
    BY DEF Span
  <2>4. Min({a, d}) = lo /\ Max({a, d}) = hi
    <3>1. Min({a, d}) = lo
      BY <2>1, MinTwo
    <3>2. Max({a, d}) = IF a >= d THEN a ELSE d
      BY <2>1, MaxTwo
    <3> QED BY <2>1, <3>1, <3>2
  <2>5. Picked(p, d) = q
    BY <1>3, <2>4 DEF Picked
  <2> HIDE DEF a
  <2>6. lo \in Int /\ hi \in Int /\ lo <= hi /\ lo >= DataFrom /\ hi <= day
    BY <1>1, <2>1
  <2> HIDE DEF lo, hi
  <2>7. q \in Seq(Int) /\ Len(q) = 2 /\ q[1] = lo /\ q[2] = hi
    BY <2>6
  <2>8. s.from = lo /\ s.to = hi
    BY DEF Days
  <2>9. Accepted(s)
    BY <2>2, <2>3, <2>6, <2>8 DEF Accepted
  <2> HIDE DEF q
  <2>10. PickFits(q, day)
    BY <2>6, <2>7, <2>9 DEF PickFits
  <2> QED BY <2>5, <2>7, <2>10
<1> QED BY <1>2, <1>3

LEMMA PressedFits ==
  ASSUME ClockInv, CalendarFits(calendar, DayOf(time)), NEW d \in Int, MayPick(d, calendar)
  PROVE  CalendarFits([NewDay(calendar) EXCEPT !.pick = Picked(@, d)], DayOf(time))
<1> DEFINE c == calendar
           n == NewDay(calendar)
           day == DayOf(time)
           q == Picked(c.pick, d)
           e == [n EXCEPT !.pick = q]
<1>1. /\ n \in Calendars /\ n.pick = c.pick /\ n.today = day /\ CalendarFits(n, day)
  BY NewDayFits
<1>2. q \in Seq(Int) /\ PickFits(q, c.today)
  <2>1. c \in Calendars /\ PickFits(c.pick, c.today) /\ MayPick(d, c)
    BY DEF CalendarFits
  <2> HIDE DEF c
  <2> QED BY <2>1, PickedFits
<1>3. c.today \in Int /\ day \in Int /\ c.today <= day
  BY ClockDay DEF CalendarFits, Calendars
<1>4. [NewDay(calendar) EXCEPT !.pick = Picked(@, d)] = e
  BY <1>1
<1> HIDE DEF c, n, day, q
<1>5. PickFits(q, day)
  BY <1>2, <1>3, PickLasts
<1>6. e \in Calendars
  BY <1>1, <1>2 DEF Calendars
<1>7. e.pick = q
  BY <1>1 DEF Calendars
<1>8. e.today = day
  BY <1>1 DEF Calendars
<1> HIDE DEF e
<1>9. CalendarFits(e, day)
  BY <1>3, <1>5, <1>6, <1>7, <1>8 DEF CalendarFits
<1> QED BY <1>4, <1>9 DEF day

LEMMA PicksFit ==
  ASSUME ClockInv, CalendarFits(calendar, DayOf(time))
  PROVE  PicksAreAccepted
<1> DEFINE p == calendar.pick
           day == calendar.today
           now == DayOf(time)
<1>1. /\ p \in Seq(Int) /\ day \in Int /\ now \in Int /\ day <= now /\ PickFits(p, day)
      /\ DataFrom \in Int /\ DataFrom >= 1 /\ MaxRangeDays \in Nat \ {0}
  BY ClockDay, ConstantsAre DEF CalendarFits, Calendars
<1> HIDE DEF now
<1>2. ASSUME Len(p) = 1
      PROVE  MayPick(p[1], calendar)
  <2> DEFINE a == p[1]
  <2>1. a \in Int /\ a >= DataFrom /\ a <= day
    BY <1>1, <1>2 DEF PickFits
  <2> HIDE DEF a
  <2>2. DaysIn(Span(a, a)) = 1
    BY <2>1 DEF DaysIn, Span, Days
  <2>3. DaysIn(Span(p[1], a)) <= MaxRangeDays
    BY <1>1, <2>2 DEF a
  <2> QED BY <2>1, <2>3 DEF MayPick, a
<1>3. ASSUME Len(p) = 2
      PROVE  Accepted(Days(p[1], p[2])) /\ UptimeRangeOf(Days(p[1], p[2]), now) = Days(p[1], p[2])
  <2> DEFINE a == p[1]
             b == p[2]
             u == Days(a, b)
  <2>1. a \in Int /\ b \in Int /\ Accepted(u) /\ b <= day
    BY <1>1, <1>3 DEF PickFits
  <2>2. u.from = a /\ u.to = b /\ "preset" \notin DOMAIN u
    BY DEF Days
  <2>3. [u EXCEPT !.from = a] = u
    BY DEF Days
  <2> HIDE DEF u, a, b
  <2>4. a <= b /\ a >= DataFrom /\ DaysIn(u) <= MaxRangeDays
    BY <2>1, <2>2 DEF Accepted
  <2>5. Max({a, DataFrom}) = a
    BY <1>1, <2>1, <2>4, MaxTwo
  <2>6. Usable(u) /\ u.to <= now
    BY <1>1, <2>1, <2>2, <2>4 DEF Usable
  <2>7. UptimeRangeOf(u, now) = u
    BY <2>2, <2>3, <2>5, <2>6 DEF UptimeRangeOf
  <2> QED BY <2>1, <2>7 DEF u, a, b
<1> QED BY <1>2, <1>3 DEF PicksAreAccepted, now

-----------------------------------------------------------------------------
(* The files of the uptime page.                                           *)
FileFrom(f, r, at, now, v) ==
  LET rows == UptimeRows(r, at, now, v)
  IN f = Workbook(rows, r, at) \/ \E unit \in UptimeUnits : f = Csv(rows, r, at, unit)
FileFits(f) ==
  \/ f = NoFile
  \/ \E r, at, now, v : /\ Answered(r) /\ at \in Moment /\ now \in Int /\ v \in UptimeViews
                        /\ FileFrom(f, r, at, now, v)

\* One sheet: every gateway of the table, every day of the range.
SheetSays(s, rows, r, unit) ==
  /\ Len(s) = Len(rows) /\ DOMAIN s = DOMAIN rows
  /\ \A i \in DOMAIN rows :
       /\ s[i].gateway = rows[i].gateway
       /\ DOMAIN s[i].cells = r.from .. r.to
       /\ \A d \in r.from .. r.to :
            /\ (s[i].cells[d].figure = NoFigure) = (rows[i].cells[d].kind = "nodata")
            /\ s[i].cells[d].star = (rows[i].cells[d].kind = "partial")

LEMMA CellTextIs ==
  ASSUME NEW c, NEW d, NEW now, NEW online \in Nat, NEW watched,
         CellSays(c, d, now, online, watched), NEW unit \in UptimeUnits
  PROVE  /\ (CellText(c, unit).figure = NoFigure) = (c.kind = "nodata")
         /\ CellText(c, unit).star = (c.kind = "partial")
<1>1. CASE c.kind = "nodata"
  BY <1>1 DEF CellText
<1>2. CASE c.kind # "nodata"
  <2>1. c.minutes \in Nat
    BY DEF CellSays
  <2>2. c.percent \in Nat
    BY <1>2, PerMilleIs DEF CellSays
  <2>3. CellText(c, unit).figure \in Nat
    BY <1>2, <2>1, <2>2 DEF CellText
  <2>4. CellText(c, unit).figure # NoFigure
    BY <2>3 DEF NoFigure
  <2> QED BY <1>2, <2>4 DEF CellText
<1> QED BY <1>1, <1>2

LEMMA SheetIs ==
  ASSUME NEW r, Answered(r), NEW at \in Moment, NEW now \in Int, NEW v,
         NEW rows, InTable(rows, r, at, now, v), NEW unit \in UptimeUnits
  PROVE  SheetSays(UptimeSheet(rows, unit), rows, r, unit)
<1> DEFINE s == UptimeSheet(rows, unit)
           n == Len(rows)
           V == {s[i] : i \in 1 .. n}
<1>1. n \in Nat /\ DOMAIN rows = 1 .. n
  BY DEF InTable
<1>2. DOMAIN s = 1 .. n /\ s = [i \in 1 .. n |-> s[i]]
  BY <1>1 DEF UptimeSheet
<1>3. \A i \in 1 .. n : s[i] =
        [gateway |-> rows[i].gateway,
         cells |-> [d \in DOMAIN rows[i].cells |-> CellText(rows[i].cells[d], unit)],
         colours |-> [d \in DOMAIN rows[i].cells |-> BucketOf(rows[i].cells[d].percent)],
         average |-> AvgText(rows[i], unit)]
  BY <1>1 DEF UptimeSheet
<1> HIDE DEF s
<1>4. Len(s) = n
  <2>1. s \in [1 .. n -> V]
    BY <1>2
  <2> HIDE DEF V
  <2>2. s \in Seq(V)
    BY <1>1, <2>1
  <2> QED BY <1>1, <1>2, <2>2
<1>5. ASSUME NEW i \in 1 .. n
      PROVE  /\ s[i].gateway = rows[i].gateway
             /\ DOMAIN s[i].cells = r.from .. r.to
             /\ \A d \in r.from .. r.to :
                  /\ (s[i].cells[d].figure = NoFigure) = (rows[i].cells[d].kind = "nodata")
                  /\ s[i].cells[d].star = (rows[i].cells[d].kind = "partial")
  <2> DEFINE g == rows[i].gateway
             cells == rows[i].cells
             texts == [d \in DOMAIN cells |-> CellText(cells[d], unit)]
             colours == [d \in DOMAIN cells |-> BucketOf(cells[d].percent)]
             average == AvgText(rows[i], unit)
  <2>0. s[i] = [gateway |-> g, cells |-> texts, colours |-> colours, average |-> average]
    BY <1>3
  <2>1. s[i].gateway = g /\ s[i].cells = texts
    <3> HIDE DEF g, cells, texts, colours, average
    <3> QED BY <2>0
  <2> HIDE DEF colours, average
  <2>2. g \in Fleet /\ CellsSay(g, r, at, now, cells)
    BY <1>1 DEF InTable, RowSays
  <2> HIDE DEF g, cells
  <2>3. DOMAIN texts = r.from .. r.to
    BY <2>2 DEF CellsSay
  <2>4. ASSUME NEW d \in r.from .. r.to
        PROVE  /\ (texts[d].figure = NoFigure) = (cells[d].kind = "nodata")
               /\ texts[d].star = (cells[d].kind = "partial")
    <3>1. texts[d] = CellText(cells[d], unit)
      BY <2>3
    <3>2. CellSays(cells[d], d, now, TrueOnline(g, d, at), TrueWatched(g, d, at))
      BY <2>2 DEF CellsSay
    <3>3. TrueOnline(g, d, at) \in Nat
      <4>1. d \in Int
        BY DEF Answered, AnyRange
      <4> QED BY <2>2, <4>1, DayHolds
    <3> HIDE DEF texts
    <3> QED BY <3>1, <3>2, <3>3, CellTextIs
  <2> HIDE DEF texts
  <2> QED BY <2>1, <2>3, <2>4 DEF g, cells
<1> QED BY <1>1, <1>2, <1>4, <1>5 DEF SheetSays, s

LEMMA SheetsAgree ==
  ASSUME NEW r, NEW rows, NEW a, NEW b, NEW x, NEW y,
         SheetSays(a, rows, r, x), SheetSays(b, rows, r, y)
  PROVE  /\ Len(a) = Len(rows) /\ Len(b) = Len(rows)
         /\ \A i \in DOMAIN a :
              /\ a[i].gateway = b[i].gateway
              /\ DOMAIN a[i].cells = r.from .. r.to
              /\ \A d \in DOMAIN a[i].cells :
                   /\ (a[i].cells[d].figure = NoFigure) = (b[i].cells[d].figure = NoFigure)
                   /\ a[i].cells[d].star = b[i].cells[d].star
<1>1. Len(a) = Len(rows) /\ Len(b) = Len(rows) /\ DOMAIN a = DOMAIN rows
  BY DEF SheetSays
<1>2. ASSUME NEW i \in DOMAIN rows
      PROVE  /\ a[i].gateway = b[i].gateway
             /\ DOMAIN a[i].cells = r.from .. r.to
  BY DEF SheetSays
<1>3. ASSUME NEW i \in DOMAIN rows, NEW d \in r.from .. r.to
      PROVE  (a[i].cells[d].figure = NoFigure) = (b[i].cells[d].figure = NoFigure)
  <2>1. (a[i].cells[d].figure = NoFigure) = (rows[i].cells[d].kind = "nodata")
    BY DEF SheetSays
  <2>2. (b[i].cells[d].figure = NoFigure) = (rows[i].cells[d].kind = "nodata")
    BY DEF SheetSays
  <2> QED BY <2>1, <2>2
<1>4. ASSUME NEW i \in DOMAIN rows, NEW d \in r.from .. r.to
      PROVE  a[i].cells[d].star = b[i].cells[d].star
  <2>1. a[i].cells[d].star = (rows[i].cells[d].kind = "partial")
    BY DEF SheetSays
  <2>2. b[i].cells[d].star = (rows[i].cells[d].kind = "partial")
    BY DEF SheetSays
  <2> QED BY <2>1, <2>2
<1>5. ASSUME NEW i \in DOMAIN a
      PROVE  /\ a[i].gateway = b[i].gateway
             /\ DOMAIN a[i].cells = r.from .. r.to
             /\ \A d \in DOMAIN a[i].cells :
                  /\ (a[i].cells[d].figure = NoFigure) = (b[i].cells[d].figure = NoFigure)
                  /\ a[i].cells[d].star = b[i].cells[d].star
  <2>1. i \in DOMAIN rows
    BY <1>1
  <2>2. a[i].gateway = b[i].gateway /\ DOMAIN a[i].cells = r.from .. r.to
    BY <1>2, <2>1
  <2>3. ASSUME NEW d \in DOMAIN a[i].cells
        PROVE  /\ (a[i].cells[d].figure = NoFigure) = (b[i].cells[d].figure = NoFigure)
               /\ a[i].cells[d].star = b[i].cells[d].star
    <3>1. d \in r.from .. r.to
      BY <2>2
    <3> QED BY <1>3, <1>4, <2>1, <3>1
  <2> QED BY <2>2, <2>3
<1> QED BY <1>1, <1>5

\* A figure for every gateway and every day.
LEMMA DataIs ==
  ASSUME NEW r, Answered(r), NEW at \in Moment, NEW now \in Int, NEW v,
         NEW rows, InTable(rows, r, at, now, v)
  PROVE  /\ \A x \in DataSheet(rows, r) : x.minutes = TrueOnline(x.gateway, x.date, at)
         /\ Cardinality(DataSheet(rows, r)) = Len(rows) * DaysIn(r)
<1> DEFINE n == Len(rows)
           I == 1 .. n
           D == r.from .. r.to
           N == I \X D
           row(i, d) == [gateway |-> rows[i].gateway, date |-> d, kind |-> rows[i].cells[d].kind,
                         minutes |-> rows[i].cells[d].minutes, percent |-> rows[i].cells[d].percent]
           f == [p \in N |-> row(p[1], p[2])]
           S == DataSheet(rows, r)
<1>1. /\ n \in Nat /\ DOMAIN rows = I
      /\ r.from \in Int /\ r.to \in Int /\ r.from <= r.to
  BY DEF InTable, Answered, Accepted, AnyRange
<1>2. IsFiniteSet(I) /\ Cardinality(I) = n
  <2>1. n \in Nat /\ 1 \in Int
    BY <1>1
  <2> HIDE DEF n
  <2> QED BY <2>1, FS_Interval
<1>3. IsFiniteSet(D) /\ Cardinality(D) = DaysIn(r)
  <2>1. IsFiniteSet(D) /\ Cardinality(D) = IF r.from > r.to THEN 0 ELSE r.to - r.from + 1
    <3> DEFINE a == r.from
               b == r.to
    <3>1. a \in Int /\ b \in Int
      BY <1>1
    <3> HIDE DEF a, b
    <3>2. IsFiniteSet(a .. b) /\ Cardinality(a .. b) = IF a > b THEN 0 ELSE b - a + 1
      BY ONLY <3>1, FS_Interval
    <3> QED BY <3>2 DEF a, b
  <2> QED BY <1>1, <2>1 DEF DaysIn
<1>4. IsFiniteSet(N) /\ Cardinality(N) = n * DaysIn(r)
  <2> HIDE DEF I, D, n
  <2>1. IsFiniteSet(I \X D) /\ Cardinality(I \X D) = Cardinality(I) * Cardinality(D)
    BY ONLY <1>2, <1>3, FS_Product
  <2> QED BY <1>2, <1>3, <2>1
<1>5. S = {row(i, d) : i \in I, d \in D}
  BY <1>1 DEF DataSheet
<1>6. \A i \in I, d \in D : row(i, d).gateway = rows[i].gateway /\ row(i, d).date = d
                            /\ row(i, d).minutes = rows[i].cells[d].minutes
  OBVIOUS
<1>7. ASSUME NEW i \in I, NEW d \in D
      PROVE  rows[i].cells[d].minutes = TrueOnline(rows[i].gateway, d, at)
  <2>1. CellsSay(rows[i].gateway, r, at, now, rows[i].cells)
    BY <1>1 DEF InTable, RowSays
  <2> QED BY <2>1 DEF CellsSay, CellSays
<1>8. \A i, j \in I : rows[i].gateway = rows[j].gateway => i = j
  BY <1>1 DEF InTable
<1> HIDE DEF row, I, D
<1>9. \A x \in S : \E i \in I, d \in D : x = row(i, d)
  BY <1>5
<1>10. \A x \in S : x.minutes = TrueOnline(x.gateway, x.date, at)
  BY <1>6, <1>7, <1>9
<1>11. /\ DOMAIN f = N /\ f = [p \in N |-> f[p]]
       /\ \A p \in N : f[p] = row(p[1], p[2]) /\ p[1] \in I /\ p[2] \in D /\ p = <<p[1], p[2]>>
  OBVIOUS
<1>14. S = {f[p] : p \in N}
  <2>1. ASSUME NEW x \in S
        PROVE  \E p \in N : x = f[p]
    <3>1. PICK i \in I, d \in D : x = row(i, d)
      BY <1>9
    <3> DEFINE p == <<i, d>>
    <3>2. p \in N /\ p[1] = i /\ p[2] = d
      OBVIOUS
    <3>3. f[p] = row(i, d)
      BY <1>11, <3>2
    <3> QED BY <3>1, <3>2, <3>3
  <2>2. ASSUME NEW p \in N
        PROVE  f[p] \in S
    BY <1>5, <1>11
  <2> HIDE DEF N, f, S
  <2> QED BY <2>1, <2>2
<1> HIDE DEF N, f, S
<1>12. \A p, q \in N : f[p] = f[q] => p = q
  <2> SUFFICES ASSUME NEW p \in N, NEW q \in N, f[p] = f[q]
               PROVE  p = q
    OBVIOUS
  <2>1. row(p[1], p[2]) = row(q[1], q[2])
    BY <1>11
  <2>2. p[1] = q[1] /\ p[2] = q[2]
    BY <1>6, <1>8, <1>11, <2>1
  <2> QED BY <1>11, <2>2
<1>13. Cardinality(S) = Cardinality(N)
  <2>1. IsFiniteSet(N) /\ DOMAIN f = N /\ f = [p \in N |-> f[p]]
    BY <1>4, <1>11
  <2>2. Cardinality({f[p] : p \in N}) = Cardinality(N)
    BY ONLY <1>12, <2>1, ImageIs
  <2> QED BY <1>14, <2>2
<1> QED BY <1>4, <1>10, <1>13 DEF S

FileTells(f, r, rows, at) ==
  /\ f.range = r /\ f.at = at /\ f.shown = Len(rows)
  /\ \A s \in f.sheets : \E unit \in UptimeUnits : s = UptimeSheet(rows, unit)
  /\ \/ f.kind = "xlsx" /\ f.data = DataSheet(rows, r)
     \/ f.kind = "csv" /\ f.data = {}

LEMMA FileTold ==
  ASSUME NEW f, NEW r, NEW rows, NEW at,
         f = Workbook(rows, r, at) \/ \E unit \in UptimeUnits : f = Csv(rows, r, at, unit)
  PROVE  FileTells(f, r, rows, at)
<1>1. CASE f = Workbook(rows, r, at)
  <2>1. "hours" \in UptimeUnits /\ "percent" \in UptimeUnits
    BY DEF UptimeUnits
  <2> QED BY <1>1, <2>1 DEF Workbook, FileTells
<1>2. ASSUME NEW unit \in UptimeUnits, f = Csv(rows, r, at, unit)
      PROVE  FileTells(f, r, rows, at)
  BY <1>2 DEF Csv, FileTells
<1> QED BY <1>1, <1>2

LEMMA FilesTell ==
  ASSUME FileFits(file)
  PROVE  FilesTellTheirRange
<1> SUFFICES ASSUME file # NoFile
             PROVE  FilesTellTheirRange
  BY DEF FilesTellTheirRange
<1>1. PICK r, at, now, v : /\ Answered(r) /\ at \in Moment /\ now \in Int /\ v \in UptimeViews
                           /\ FileFrom(file, r, at, now, v)
  BY DEF FileFits
<1> DEFINE rows == UptimeRows(r, at, now, v)
<1>2. InTable(rows, r, at, now, v)
  BY <1>1, RowsListed
<1>3. file = Workbook(rows, r, at) \/ \E unit \in UptimeUnits : file = Csv(rows, r, at, unit)
  BY <1>1 DEF FileFrom
<1> HIDE DEF rows
<1>4. FileTells(file, r, rows, at)
  BY <1>3, FileTold
<1>5. ASSUME NEW a \in file.sheets, NEW b \in file.sheets
      PROVE  /\ Len(a) = file.shown /\ Len(b) = file.shown
             /\ \A i \in DOMAIN a :
                  /\ a[i].gateway = b[i].gateway
                  /\ DOMAIN a[i].cells = file.range.from .. file.range.to
                  /\ \A d \in DOMAIN a[i].cells :
                       /\ (a[i].cells[d].figure = NoFigure) = (b[i].cells[d].figure = NoFigure)
                       /\ a[i].cells[d].star = b[i].cells[d].star
  <2>1. PICK x \in UptimeUnits : a = UptimeSheet(rows, x)
    BY <1>4 DEF FileTells
  <2>2. PICK y \in UptimeUnits : b = UptimeSheet(rows, y)
    BY <1>4 DEF FileTells
  <2>3. SheetSays(a, rows, r, x) /\ SheetSays(b, rows, r, y)
    BY <1>1, <1>2, <2>1, <2>2, SheetIs
  <2>4. file.shown = Len(rows) /\ file.range = r
    BY <1>4 DEF FileTells
  <2>5. /\ Len(a) = Len(rows) /\ Len(b) = Len(rows)
        /\ \A i \in DOMAIN a :
             /\ a[i].gateway = b[i].gateway
             /\ DOMAIN a[i].cells = r.from .. r.to
             /\ \A d \in DOMAIN a[i].cells :
                  /\ (a[i].cells[d].figure = NoFigure) = (b[i].cells[d].figure = NoFigure)
                  /\ a[i].cells[d].star = b[i].cells[d].star
    BY <2>3, SheetsAgree
  <2> QED BY <2>4, <2>5
<1>6. /\ \A x \in DataSheet(rows, r) : x.minutes = TrueOnline(x.gateway, x.date, at)
      /\ Cardinality(DataSheet(rows, r)) = Len(rows) * DaysIn(r)
  BY <1>1, <1>2, DataIs
<1>7. \A x \in file.data : x.minutes = TrueOnline(x.gateway, x.date, file.at)
  BY <1>4, <1>6 DEF FileTells
<1>8. file.kind = "xlsx" => Cardinality(file.data) = file.shown * DaysIn(file.range)
  BY <1>4, <1>6 DEF FileTells
<1> QED BY <1>5, <1>7, <1>8 DEF FilesTellTheirRange

-----------------------------------------------------------------------------
(* The uptime page, as long as it is open.                                 *)
UptimeInv ==
  /\ UptimePageInv
  /\ uptimeView \in UptimeViews
  /\ CalendarFits(calendar, DayOf(time))
  /\ FileFits(file)

LEMMA MenuShutIs ==
  ASSUME NEW v \in UptimeViews
  PROVE  MenuShut(v) \in UptimeViews
<1>1. FALSE \in BOOLEAN
  OBVIOUS
<1> QED BY <1>1 DEF MenuShut, UptimeViews

\* A step that renders the page, or leaves it.
LEMMA UptimeInvKept ==
  ASSUME ClockInv, time' = time, UptimePageInv', NEW v \in UptimeViews, uptimeView' = v,
         NEW c, CalendarFits(c, DayOf(time)), calendar' = c, FileFits(file')
  PROVE  UptimeInv'
<1>1. CalendarFits(calendar', DayOf(time'))
  OBVIOUS
<1>2. (uptimeView \in UptimeViews)'
  BY DEF UptimeViews
<1> QED BY <1>1, <1>2 DEF UptimeInv, CalendarFits, Calendars, PickFits, FileFits, FileFrom

LEMMA UptimeInitially == UptimeInit => UptimeInv
<1> SUFFICES ASSUME UptimeInit PROVE UptimeInv
  OBVIOUS
<1>1. ClockInv
  BY ClockFirst DEF UptimeInit
<1>2. DayOf(time) \in Int /\ DayOf(time) >= DataFrom /\ uptimeToday = DayOf(time) /\ time \in Moment
  BY <1>1, ClockDay DEF UptimeInit, ClockInv
<1>3. PICK u \in UptimeUrl : uptimeUrl = [range |-> u, unit |-> "hours"]
  BY DEF UptimeInit
<1>4. u \in AnyUptimeUrl /\ uptimeUrl.range = u
  BY <1>3, UptimeUrlAny
<1>5. uptimeUrl \in UptimeUrls
  <2>1. "hours" \in UptimeUnits
    BY DEF UptimeUnits
  <2> QED BY <1>3, <1>4, <2>1 DEF UptimeUrls
<1>6. UptimeRange \in AnyRange
  BY <1>2, <1>4, UptimeRangeAny DEF UptimeRange
<1>7. uptimeLoad = Loading(UptimeRange)
  BY DEF UptimeInit, UptimeRange
<1>8. uptimeLoad \in FreshLoad(AnyRange) /\ uptimeLoad.key = UptimeRange
  BY <1>2, <1>6, <1>7, LoadingIs
<1>9. uptimeLoad.kept.data = NoData
  BY <1>7 DEF Loading
<1>10. UptimePageInv
  BY <1>1, <1>2, <1>5, <1>8, <1>9 DEF UptimePageInv, GoodLoad
<1>11. uptimeView \in UptimeViews
  <2>1. "all" \in FleetStates /\ Fleet \in SUBSET Fleet /\ NoFigure \in Threshold \cup {NoFigure}
        /\ FALSE \in BOOLEAN /\ "average" \in {"average", "gatewayId", "address"}
    BY DEF FleetStates
  <2>2. uptimeView = [state |-> "all", search |-> Fleet, below |-> NoFigure, key |-> "average",
                      asc |-> FALSE, menu |-> FALSE]
    BY DEF UptimeInit
  <2> QED BY <2>1, <2>2 DEF UptimeViews
<1>12. CalendarFits(calendar, DayOf(time))
  <2> DEFINE m == MonthOf[DataFrom]
             closed == FALSE
  <2>1. m \in {MonthOf[d] : d \in Int} /\ closed \in BOOLEAN
    BY ConstantsAre
  <2>2. calendar = [open |-> closed, pick |-> <<>>, month |-> m, today |-> DayOf(time)]
    BY DEF UptimeInit
  <2> HIDE DEF m, closed
  <2> QED BY <1>1, <2>1, <2>2, OpenedFits
<1>13. FileFits(file)
  BY DEF UptimeInit, FileFits
<1> QED BY <1>10, <1>11, <1>12, <1>13 DEF UptimeInv

LEMMA UptimeClockKeeps ==
  ASSUME UptimeInv, UptimeTimePasses
  PROVE  UptimeInv'
<1>1. /\ UNCHANGED uptimeVars /\ time < LastMoment /\ time' = time + 1 /\ ClockInv
  BY DEF UptimeTimePasses, TimePasses, UptimeInv, UptimePageInv
<1>2. ClockInv'
  BY <1>1, ClockKept
<1>3. time \in Nat \ {0} /\ DayOf(time) \in Int
  BY <1>1, ClockDay
<1>4. DayOf(time) <= DayOf(time') /\ DayOf(time') \in Int
  <2> DEFINE t == time + 1
  <2>1. t \in Nat \ {0} /\ time <= t /\ time' = t /\ 1 \in Int
    BY <1>1, <1>3
  <2> HIDE DEF t
  <2>2. DayOf(time) <= DayOf(t) /\ DayOf(t) \in Int
    BY <1>3, <2>1, DaysGrow, DayIs
  <2> QED BY <2>1, <2>2
<1>5. UptimePageInv'
  BY <1>1, <1>2 DEF UptimeInv, UptimePageInv, UptimeRange, uptimeVars, GoodLoad
<1>6. CalendarFits(calendar', DayOf(time'))
  <2>1. CalendarFits(calendar, DayOf(time)) /\ calendar' = calendar
    BY <1>1 DEF UptimeInv, uptimeVars
  <2>2. calendar.today \in Int /\ calendar.today <= DayOf(time)
    BY <2>1 DEF CalendarFits, Calendars
  <2>3. calendar.today <= DayOf(time')
    BY <1>3, <1>4, <2>2
  <2> QED BY <2>1, <2>3 DEF CalendarFits
<1>7. FileFits(file') /\ uptimeView' \in UptimeViews
  BY <1>1 DEF UptimeInv, uptimeVars
<1> QED BY <1>5, <1>6, <1>7 DEF UptimeInv, CalendarFits, Calendars, PickFits, FileFits, FileFrom

LEMMA UptimeRefreshKeeps ==
  ASSUME UptimeInv, UptimeRefresh
  PROVE  UptimeInv'
<1>1. /\ ClockInv /\ time' = time /\ uptimeView' = uptimeView /\ file' = file
      /\ uptimeUrl \in UptimeUrls /\ GoodLoad(uptimeLoad) /\ uptimeLoad.key = UptimeRange
      /\ time \in Moment /\ uptimeView \in UptimeViews /\ FileFits(file)
      /\ CalendarFits(calendar, DayOf(time))
  BY DEF UptimeRefresh, UptimeInv, UptimePageInv, ClockInv
<1>2. GoodLoad(Requested(uptimeLoad)) /\ Requested(uptimeLoad).key = uptimeLoad.key
  BY <1>1, GoodRequested
<1>3. FileFits(file')
  BY <1>1
<1>4. CASE uptimeLoad.refreshing
  <2>1. uptimeLoad' = Requested(uptimeLoad) /\ UNCHANGED <<uptimeUrl, uptimeToday, calendar>>
    BY <1>4 DEF UptimeRefresh
  <2>2. UptimeRange' = UptimeRange
    BY <2>1 DEF UptimeRange
  <2>3. GoodLoad(uptimeLoad') /\ uptimeLoad'.key = UptimeRange'
    BY <1>1, <1>2, <2>1, <2>2
  <2>4. UptimePageInv'
    BY <1>1, <2>1, <2>3 DEF UptimeInv, UptimePageInv, ClockInv, GoodLoad
  <2> QED BY <1>1, <1>3, <2>1, <2>4, UptimeInvKept
<1>5. CASE ~uptimeLoad.refreshing
  <2>1. UptimeRender(uptimeUrl, Requested(uptimeLoad)) /\ calendar' = NewDay(calendar)
    BY <1>5 DEF UptimeRefresh
  <2>2. UptimePageInv'
    BY <1>1, <1>2, <2>1, UptimeRenders
  <2>3. CalendarFits(NewDay(calendar), DayOf(time))
    BY <1>1, NewDayFits
  <2> QED BY <1>1, <1>3, <2>1, <2>2, <2>3, UptimeInvKept
<1> QED BY <1>4, <1>5

LEMMA UptimeAnswerKeeps ==
  ASSUME UptimeInv, UptimeAnswer
  PROVE  UptimeInv'
<1>1. /\ ClockInv /\ time' = time /\ uptimeView' = uptimeView /\ file' = file
      /\ uptimeUrl \in UptimeUrls /\ GoodLoad(uptimeLoad) /\ calendar' = NewDay(calendar)
      /\ time \in Moment /\ uptimeView \in UptimeViews /\ FileFits(file)
      /\ CalendarFits(calendar, DayOf(time)) /\ uptimeLoad \in FreshLoad(AnyRange)
  BY DEF UptimeAnswer, UptimeInv, UptimePageInv, ClockInv, GoodLoad
<1>2. UptimePageInv'
  <2>1. PICK asked \in uptimeLoad.out :
          \/ /\ Accepted(uptimeLoad.key)
             /\ \E at \in asked..time : UptimeRender(uptimeUrl, Landed(uptimeLoad, asked, at))
          \/ UptimeRender(uptimeUrl, StatusFailed(uptimeLoad, asked))
    BY DEF UptimeAnswer
  <2>2. ASSUME Accepted(uptimeLoad.key), NEW at \in asked .. time,
               UptimeRender(uptimeUrl, Landed(uptimeLoad, asked, at))
        PROVE  UptimePageInv'
    <3>1. at \in Moment
      BY <1>1, AnswersInTime
    <3>2. GoodLoad(Landed(uptimeLoad, asked, at))
      BY <1>1, <2>2, <3>1, GoodLanded
    <3> QED BY <1>1, <2>2, <3>2, UptimeRenders
  <2>3. ASSUME UptimeRender(uptimeUrl, StatusFailed(uptimeLoad, asked))
        PROVE  UptimePageInv'
    <3>1. GoodLoad(StatusFailed(uptimeLoad, asked))
      BY <1>1, GoodFailed
    <3> QED BY <1>1, <2>3, <3>1, UptimeRenders
  <2> QED BY <2>1, <2>2, <2>3
<1>3. CalendarFits(NewDay(calendar), DayOf(time)) /\ FileFits(file')
  BY <1>1, NewDayFits
<1> QED BY <1>1, <1>2, <1>3, UptimeInvKept

LEMMA NoFileFits == FileFits(NoFile)
BY DEF FileFits

LEMMA UptimeNow ==
  ASSUME UptimeInv
  PROVE  /\ ClockInv /\ time \in Moment
         /\ uptimeUrl \in UptimeUrls /\ GoodLoad(uptimeLoad)
         /\ uptimeToday \in Int /\ uptimeToday >= DataFrom
         /\ uptimeView \in UptimeViews /\ MenuShut(uptimeView) \in UptimeViews
         /\ CalendarFits(calendar, DayOf(time))
         /\ CalendarFits(NewDay(calendar), DayOf(time))
         /\ CalendarFits(PickerClosed(calendar), DayOf(time))
<1>1. /\ ClockInv /\ time \in Moment
      /\ uptimeUrl \in UptimeUrls /\ GoodLoad(uptimeLoad)
      /\ uptimeToday \in Int /\ uptimeToday >= DataFrom
      /\ uptimeView \in UptimeViews /\ CalendarFits(calendar, DayOf(time))
  BY DEF UptimeInv, UptimePageInv, ClockInv
<1> QED BY <1>1, MenuShutIs, NewDayFits, ClosedFits

LEMMA UrlWithRange ==
  ASSUME NEW u \in UptimeUrls, NEW x \in AnyUptimeUrl
  PROVE  [u EXCEPT !.range = x] \in UptimeUrls
BY DEF UptimeUrls

LEMMA UrlWithUnit ==
  ASSUME NEW u \in UptimeUrls, NEW x \in UptimeUnits
  PROVE  [u EXCEPT !.unit = x] \in UptimeUrls
BY DEF UptimeUrls

LEMMA PressKeeps ==
  ASSUME UptimeInv, NEW u \in UptimeUrls, NEW h, GoodLoad(h), NEW v \in UptimeViews,
         PressPage(u, h, v), FileFits(file')
  PROVE  UptimeInv'
<1>1. /\ time' = time /\ UptimeRender(u, h) /\ uptimeView' = v /\ calendar' = PickerClosed(calendar)
  BY DEF PressPage, UptimePress
<1>2. ClockInv /\ CalendarFits(PickerClosed(calendar), DayOf(time))
  BY UptimeNow
<1>3. UptimePageInv'
  BY <1>1, <1>2, UptimeRenders
<1> QED BY <1>1, <1>2, <1>3, UptimeInvKept

LEMMA ChangeKeeps ==
  ASSUME UptimeInv, NEW r \in AnyRange, time' = time, ChangeRange(r),
         uptimeView' = MenuShut(uptimeView), file' = NoFile,
         NEW c, CalendarFits(c, DayOf(time)), calendar' = c
  PROVE  UptimeInv'
<1> DEFINE u == [uptimeUrl EXCEPT !.range = UptimeParams(r, uptimeToday)]
<1>1. /\ ClockInv /\ uptimeUrl \in UptimeUrls /\ GoodLoad(uptimeLoad)
      /\ MenuShut(uptimeView) \in UptimeViews
  BY UptimeNow
<1>2. u \in UptimeUrls
  BY <1>1, UptimeParamsAny, UrlWithRange
<1>3. UptimeRender(u, uptimeLoad)
  BY DEF ChangeRange
<1> HIDE DEF u
<1>4. UptimePageInv'
  BY <1>1, <1>2, <1>3, UptimeRenders
<1>5. FileFits(file')
  BY NoFileFits
<1> QED BY <1>1, <1>4, <1>5, UptimeInvKept

LEMMA ReloadKeeps ==
  ASSUME UptimeInv, UptimeReload
  PROVE  UptimeInv'
<1>1. GoodLoad(AskAgain(uptimeLoad))
  BY UptimeNow, GoodAskAgain
<1>2. PressPage(uptimeUrl, AskAgain(uptimeLoad), MenuShut(uptimeView)) /\ FileFits(file')
  BY NoFileFits DEF UptimeReload
<1> QED BY <1>1, <1>2, UptimeNow, PressKeeps

LEMMA FollowKeeps ==
  ASSUME UptimeInv, NEW u \in UptimeUrl, FollowUptime(u)
  PROVE  UptimeInv'
<1> DEFINE w == [uptimeUrl EXCEPT !.range = u]
<1>1. /\ time' = time /\ UptimeRender(w, uptimeLoad) /\ calendar' = NewDay(calendar)
      /\ file' = NoFile /\ uptimeView' = uptimeView
  BY DEF FollowUptime, UptimePress
<1>2. /\ ClockInv /\ uptimeUrl \in UptimeUrls /\ GoodLoad(uptimeLoad) /\ uptimeView \in UptimeViews
      /\ CalendarFits(NewDay(calendar), DayOf(time))
  BY UptimeNow
<1>3. w \in UptimeUrls
  BY <1>2, UptimeUrlAny, UrlWithRange
<1> HIDE DEF w
<1>4. UptimePageInv'
  BY <1>1, <1>2, <1>3, UptimeRenders
<1>5. FileFits(file')
  BY <1>1, NoFileFits
<1> QED BY <1>1, <1>2, <1>4, <1>5, UptimeInvKept

LEMMA ClickKeeps ==
  ASSUME UptimeInv, NEW p \in DOMAIN UptimeDays, ClickUptime(p)
  PROVE  UptimeInv'
<1>1. UptimePreset(p, uptimeToday) \in AnyRange
  BY UptimeNow, UptimePresetAny
<1>2. /\ time' = time /\ ChangeRange(UptimePreset(p, uptimeToday))
      /\ uptimeView' = MenuShut(uptimeView) /\ calendar' = NewDay(calendar) /\ file' = NoFile
  BY DEF ClickUptime, UptimePress
<1> QED BY <1>1, <1>2, UptimeNow, ChangeKeeps

LEMMA FilterKeeps ==
  ASSUME UptimeInv, NEW v \in UptimeViews, SetFilter(v)
  PROVE  UptimeInv'
<1>1. PressPage(uptimeUrl, uptimeLoad, MenuShut(v)) /\ FileFits(file')
  BY NoFileFits DEF SetFilter
<1> QED BY <1>1, UptimeNow, MenuShutIs, PressKeeps

LEMMA FiltersKeep ==
  ASSUME UptimeInv,
         \/ \E s \in {"online", "offline", "no-data"} : PressChip(s)
         \/ \E q \in Searches : TypeSearch(q)
         \/ \E t \in Threshold \cup {NoFigure} : ChooseBelow(t)
         \/ \E key \in {"average", "gatewayId", "address"} : UptimeToggleSort(key)
  PROVE  UptimeInv'
<1>1. uptimeView \in UptimeViews
  BY UptimeNow
<1>2. ASSUME NEW s \in {"online", "offline", "no-data"}, PressChip(s)
      PROVE  UptimeInv'
  <2> DEFINE x == IF uptimeView.state = s THEN "all" ELSE s
             v == [uptimeView EXCEPT !.state = x]
  <2>1. x \in FleetStates
    BY DEF FleetStates
  <2>2. SetFilter(v)
    BY <1>2 DEF PressChip
  <2> HIDE DEF x
  <2>3. v \in UptimeViews
    BY <1>1, <2>1 DEF UptimeViews
  <2> HIDE DEF v
  <2> QED BY <2>2, <2>3, FilterKeeps
<1>3. ASSUME NEW q \in Searches, TypeSearch(q)
      PROVE  UptimeInv'
  <2> DEFINE v == [uptimeView EXCEPT !.search = q]
  <2>1. q \in SUBSET Fleet
    BY UptimeAssumption
  <2>2. SetFilter(v)
    BY <1>3 DEF TypeSearch
  <2>3. v \in UptimeViews
    BY <1>1, <2>1 DEF UptimeViews
  <2> HIDE DEF v
  <2> QED BY <2>2, <2>3, FilterKeeps
<1>4. ASSUME NEW t \in Threshold \cup {NoFigure}, ChooseBelow(t)
      PROVE  UptimeInv'
  <2> DEFINE v == [uptimeView EXCEPT !.below = t]
  <2>2. SetFilter(v)
    BY <1>4 DEF ChooseBelow
  <2>3. v \in UptimeViews
    BY <1>1 DEF UptimeViews
  <2> HIDE DEF v
  <2> QED BY <2>2, <2>3, FilterKeeps
<1>5. ASSUME NEW key \in {"average", "gatewayId", "address"}, UptimeToggleSort(key)
      PROVE  UptimeInv'
  <2> DEFINE b == IF uptimeView.key = key THEN ~uptimeView.asc ELSE key # "average"
             v == [uptimeView EXCEPT !.key = key, !.asc = b]
  <2>1. b \in BOOLEAN
    BY <1>1 DEF UptimeViews
  <2>2. SetFilter(v)
    BY <1>5 DEF UptimeToggleSort
  <2> HIDE DEF b
  <2>3. v \in UptimeViews
    BY <1>1, <2>1 DEF UptimeViews
  <2> HIDE DEF v
  <2> QED BY <2>2, <2>3, FilterKeeps
<1> QED BY <1>2, <1>3, <1>4, <1>5

LEMMA MenuKeeps ==
  ASSUME UptimeInv, OpenMenu
  PROVE  UptimeInv'
<1> DEFINE b == ~uptimeView.menu
           v == [uptimeView EXCEPT !.menu = b]
<1>1. /\ ClockInv /\ uptimeUrl \in UptimeUrls /\ GoodLoad(uptimeLoad) /\ uptimeView \in UptimeViews
      /\ CalendarFits(PickerClosed(calendar), DayOf(time))
  BY UptimeNow
<1>2. /\ time' = time /\ UptimeRender(uptimeUrl, uptimeLoad) /\ uptimeView' = v
      /\ calendar' = PickerClosed(calendar) /\ file' = NoFile
  BY DEF OpenMenu
<1>3. b \in BOOLEAN
  OBVIOUS
<1> HIDE DEF b
<1>4. v \in UptimeViews
  BY <1>1, <1>3 DEF UptimeViews
<1> HIDE DEF v
<1>5. UptimePageInv'
  BY <1>1, <1>2, UptimeRenders
<1>6. FileFits(file')
  BY <1>2, NoFileFits
<1> QED BY <1>1, <1>2, <1>4, <1>5, <1>6, UptimeInvKept

LEMMA DownloadKeeps ==
  ASSUME UptimeInv, NEW kind, Download(kind)
  PROVE  UptimeInv'
<1>1. /\ UptimeAt # NoData /\ PressPage(uptimeUrl, uptimeLoad, MenuShut(uptimeView))
      /\ file' = IF kind = "xlsx" THEN Workbook(RowsOnScreen, UptimeRange, UptimeAt)
                 ELSE Csv(RowsOnScreen, UptimeRange, UptimeAt, uptimeUrl.unit)
  BY DEF Download
<1>2. Answered(UptimeRange) /\ UptimeAt \in Moment /\ uptimeToday \in Int
  <2>1. UptimeLoads
    BY PageLoads DEF UptimeInv
  <2> QED BY <1>1, <2>1, ShownAnswered
<1>3. uptimeUrl.unit \in UptimeUnits /\ uptimeView \in UptimeViews
  BY UptimeNow DEF UptimeUrls
<1>4. FileFrom(file', UptimeRange, UptimeAt, uptimeToday, uptimeView)
  BY <1>1, <1>3 DEF FileFrom, RowsOnScreen
<1>5. FileFits(file')
  BY <1>2, <1>3, <1>4 DEF FileFits
<1> QED BY <1>1, <1>5, UptimeNow, PressKeeps

\* A press in the picker.
LEMMA CalendarKeeps ==
  ASSUME UptimeInv, NEW c, CalendarFits(c, DayOf(time)), PressCalendar(c)
  PROVE  UptimeInv'
<1>1. /\ ClockInv /\ uptimeUrl \in UptimeUrls /\ GoodLoad(uptimeLoad)
      /\ MenuShut(uptimeView) \in UptimeViews
  BY UptimeNow
<1>2. /\ time' = time /\ uptimeView' = MenuShut(uptimeView) /\ calendar' = c /\ file' = NoFile
  BY DEF PressCalendar
<1>3. UptimePageInv'
  <2>1. CASE UptimeRender(uptimeUrl, uptimeLoad)
    BY <1>1, <1>2, <2>1, UptimeRenders
  <2>2. CASE UNCHANGED <<uptimeUrl, uptimeToday, uptimeLoad>>
    BY <1>2, <2>2 DEF UptimeInv, UptimePageInv, ClockInv, GoodLoad, UptimeRange
  <2> QED BY <2>1, <2>2 DEF PressCalendar
<1>4. FileFits(file')
  BY <1>2, NoFileFits
<1> QED BY <1>1, <1>2, <1>3, <1>4, UptimeInvKept

LEMMA ToggleKeeps ==
  ASSUME UptimeInv, ToggleCalendar
  PROVE  UptimeInv'
<1> DEFINE m == MonthOf[UptimeRange.to]
           open == TRUE
           c == [open |-> open, pick |-> <<>>, month |-> m, today |-> DayOf(time)]
<1>1. ClockInv /\ CalendarFits(PickerClosed(calendar), DayOf(time))
  BY UptimeNow
<1>2. m \in {MonthOf[d] : d \in Int} /\ open \in BOOLEAN
  <2>1. UptimeRange \in AnyRange
    <3>1. uptimeUrl.range \in AnyUptimeUrl /\ uptimeToday \in Int
      BY UptimeNow DEF UptimeUrls
    <3> QED BY <3>1, UptimeRangeAny DEF UptimeRange
  <2>2. UptimeRange.to \in Int
    BY <2>1 DEF AnyRange
  <2> QED BY <2>2
<1>3. PressCalendar(IF calendar.open THEN PickerClosed(calendar) ELSE c)
  BY DEF ToggleCalendar
<1> HIDE DEF m, open
<1>4. CalendarFits(c, DayOf(time))
  BY <1>1, <1>2, OpenedFits
<1> HIDE DEF c
<1>5. CASE calendar.open
  BY <1>1, <1>3, <1>5, CalendarKeeps
<1>6. CASE ~calendar.open
  BY <1>3, <1>4, <1>6, CalendarKeeps
<1> QED BY <1>5, <1>6

LEMMA PickingKeeps ==
  ASSUME UptimeInv,
         \/ \E month \in {MonthOf[d] : d \in DOMAIN MonthOf} : TurnMonth(month)
         \/ \E d \in DOMAIN MonthOf : PressDay(d)
         \/ ApplyDays
  PROVE  UptimeInv'
<1>1. DOMAIN MonthOf \subseteq Int
  BY UptimeAssumption
<1>2. ASSUME NEW month \in {MonthOf[d] : d \in DOMAIN MonthOf}, TurnMonth(month)
      PROVE  UptimeInv'
  <2>1. month \in {MonthOf[d] : d \in Int}
    BY <1>1
  <2>2. CalendarFits([calendar EXCEPT !.month = month], DayOf(time))
    BY <2>1, UptimeNow, MonthFits
  <2> QED BY <1>2, <2>2, CalendarKeeps DEF TurnMonth
<1>3. ASSUME NEW d \in DOMAIN MonthOf, PressDay(d)
      PROVE  UptimeInv'
  <2>1. d \in Int /\ MayPick(d, calendar)
    BY <1>1, <1>3 DEF PressDay
  <2>2. CalendarFits([NewDay(calendar) EXCEPT !.pick = Picked(@, d)], DayOf(time))
    BY <2>1, UptimeNow, PressedFits
  <2> QED BY <1>3, <2>2, CalendarKeeps DEF PressDay
<1>4. CASE ApplyDays
  <2> DEFINE r == Days(calendar.pick[1], calendar.pick[2])
  <2>1. Len(calendar.pick) = 2 /\ calendar.pick \in Seq(Int)
    BY <1>4, UptimeNow DEF ApplyDays, CalendarFits, Calendars
  <2>2. r \in AnyRange
    BY <2>1 DEF Days, AnyRange
  <2>3. /\ time' = time /\ ChangeRange(r) /\ uptimeView' = MenuShut(uptimeView)
        /\ calendar' = PickerClosed(calendar) /\ file' = NoFile
    BY <1>4 DEF ApplyDays, UptimePress
  <2> HIDE DEF r
  <2> QED BY <2>2, <2>3, UptimeNow, ChangeKeeps
<1> QED BY <1>2, <1>3, <1>4

LEMMA UptimeKeptOn ==
  ASSUME UptimeInv, UptimeNext \/ PickerNext \/ UNCHANGED <<time, uptimeVars>>
  PROVE  UptimeInv'
<1>1. ASSUME NEW unit \in {"hours", "percent"} \ {uptimeUrl.unit}, ChangeUnit(unit)
      PROVE  UptimeInv'
  <2> DEFINE u == [uptimeUrl EXCEPT !.unit = unit]
  <2>1. unit \in UptimeUnits
    BY DEF UptimeUnits
  <2>2. u \in UptimeUrls
    BY <2>1, UptimeNow, UrlWithUnit
  <2>3. PressPage(u, uptimeLoad, MenuShut(uptimeView)) /\ FileFits(file')
    BY <1>1, NoFileFits DEF ChangeUnit
  <2> HIDE DEF u
  <2> QED BY <2>2, <2>3, UptimeNow, PressKeeps
<1>2. CASE UNCHANGED <<time, uptimeVars>>
  BY <1>2 DEF UptimeInv, UptimePageInv, ClockInv, GoodLoad, UptimeRange, uptimeVars,
              FileFits, FileFrom, CalendarFits, Calendars, PickFits
<1>3. ASSUME NEW u \in UptimeUrl, FollowUptime(u)
      PROVE  UptimeInv'
  BY <1>3, FollowKeeps
<1>4. ASSUME NEW p \in DOMAIN UptimeDays, ClickUptime(p)
      PROVE  UptimeInv'
  BY <1>4, ClickKeeps
<1>5. ASSUME NEW kind \in {"xlsx", "csv"}, Download(kind)
      PROVE  UptimeInv'
  BY <1>5, DownloadKeeps
<1> QED BY <1>1, <1>2, <1>3, <1>4, <1>5, UptimeClockKeeps, UptimeRefreshKeeps, UptimeAnswerKeeps,
           ReloadKeeps, FiltersKeep, MenuKeeps, ToggleKeeps, PickingKeeps
        DEF UptimeNext, PickerNext

LEMMA UptimeIsTold ==
  ASSUME UptimeInv
  PROVE  UptimeShown /\ FilesTellTheirRange /\ PicksAreAccepted
<1>1. UptimeLoads /\ uptimeView \in UptimeViews /\ FileFits(file) /\ ClockInv
      /\ CalendarFits(calendar, DayOf(time))
  BY PageLoads, UptimeNow DEF UptimeInv
<1> QED BY <1>1, UptimeIsShown, FilesTell, PicksFit

-----------------------------------------------------------------------------
(* All the pages together: a behaviour is about one of them.               *)
GatewaysInv ==
  /\ about = "status" => StatusInv
  /\ about \in {"uptime", "picker"} => UptimeInv
  /\ about = "fleet" => FleetInv
  /\ about = "timeline" => LineInv
  /\ about = "reasons" => ReasonsInv

LEMMA GatewaysInitially == GatewaysInit => GatewaysInv
BY StatusInitially, UptimeInitially, FleetInitially, LineInitially, ReasonsKept
   DEF GatewaysInit, GatewaysInv

LEMMA GatewaysKept == GatewaysInv /\ [GatewaysNext]_gatewayVars => GatewaysInv'
<1> SUFFICES ASSUME GatewaysInv, [GatewaysNext]_gatewayVars
             PROVE  GatewaysInv'
  OBVIOUS
<1>1. /\ about' = about
      /\ about = "status" => StatusNext \/ UNCHANGED statusVars
      /\ about \in {"uptime", "picker"} => UptimeNext \/ PickerNext \/ UNCHANGED <<time, uptimeVars>>
      /\ about = "fleet" => FleetNext \/ UNCHANGED fleetVars
      /\ about = "timeline" => LineNext \/ UNCHANGED <<time, lineVars>>
      /\ about = "reasons" => ReadAgain \/ UNCHANGED reasonVars
  <2>1. CASE GatewaysNext
    BY <2>1 DEF GatewaysNext, StatusStep, UptimeStep, PickerStep, FleetStep, TimelineStep, ReasonsStep
  <2>2. CASE UNCHANGED gatewayVars
    BY <2>2 DEF gatewayVars, statusVars
  <2> QED BY <2>1, <2>2
<1>2. CASE about = "status"
  <2>1. StatusInv /\ [StatusNext]_statusVars
    BY <1>1, <1>2 DEF GatewaysInv
  <2>2. StatusInv'
    BY <2>1, StatusKept
  <2> QED BY <1>1, <1>2, <2>2 DEF GatewaysInv
<1>3. CASE about \in {"uptime", "picker"}
  <2>1. UptimeInv /\ (UptimeNext \/ PickerNext \/ UNCHANGED <<time, uptimeVars>>)
    BY <1>1, <1>3 DEF GatewaysInv
  <2>2. UptimeInv'
    BY <2>1, UptimeKeptOn
  <2> QED BY <1>1, <1>3, <2>2 DEF GatewaysInv
<1>4. CASE about = "fleet"
  <2>1. FleetInv /\ [FleetNext]_fleetVars
    BY <1>1, <1>4 DEF GatewaysInv
  <2>2. FleetInv'
    BY <2>1, FleetKeptOn
  <2> QED BY <1>1, <1>4, <2>2 DEF GatewaysInv
<1>5. CASE about = "timeline"
  <2>1. LineInv /\ [LineNext]_<<time, lineVars>>
    BY <1>1, <1>5 DEF GatewaysInv
  <2>2. LineInv'
    BY <2>1, LineKept
  <2> QED BY <1>1, <1>5, <2>2 DEF GatewaysInv
<1>6. CASE about = "reasons"
  <2>1. ReasonsInv /\ [ReadAgain]_reasonVars
    BY <1>1, <1>6 DEF GatewaysInv
  <2>2. ReasonsInv'
    BY <2>1, ReasonsKept
  <2> QED BY <1>1, <1>6, <2>2 DEF GatewaysInv
<1>7. CASE about \notin {"status", "uptime", "picker", "fleet", "timeline", "reasons"}
  BY <1>1, <1>7 DEF GatewaysInv
<1> QED BY <1>2, <1>3, <1>4, <1>5, <1>6, <1>7

LEMMA GatewaysTold == GatewaysInv => RangesShown
BY RangeIsShown, UptimeIsTold, FleetIsShown, PeriodsAreTold, WindowIsInRange, ReasonsSound
   DEF GatewaysInv, RangesShown

\* The gateway pages, for every fleet, whatever days are chosen, clicked or typed, over
\* midnight too: what is shown, drawn, zoomed to and downloaded is of those days and says
\* what there was to say of the gateways; the calendar picks only days that can be
\* answered; the table shows every gateway that matches; and an offline period has
\* reasons that fit it (gatewayConnectivity.ts:262, uptimeModel.ts:4, uptimeExport.ts:122,
\* RangeControls.tsx:14, GatewayStatusTable.tsx:43, GatewayTimelinePage.tsx:72,
\* offlineReasons.ts:4).
THEOREM RangesAreShown == GatewaysSpec => []RangesShown
<1>1. GatewaysInit => GatewaysInv
  BY GatewaysInitially
<1>2. GatewaysInv /\ [GatewaysNext]_gatewayVars => GatewaysInv'
  BY GatewaysKept
<1>3. GatewaysInv => RangesShown
  BY GatewaysTold
<1> QED BY <1>1, <1>2, <1>3, PTL DEF GatewaysSpec
==============================================================================
