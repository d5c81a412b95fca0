---------------------------- MODULE PrepareProofs ----------------------------
(***************************************************************************)
(* Graph::add and Graph::fetch are correct for every project, every finite *)
(* set of addresses and every number of permits: the graph is the declared *)
(* one, a refusal has a reason, the counters are exact and Ok means that   *)
(* all is fetched.                                                         *)
(***************************************************************************)
EXTENDS Prepare, FiniteSetTheorems, TLAPS

(* add has come to its end, and with success. *)
Added == phase \in {"walk", "probe", "acquire"} \/ result = "ok"

(* Each frame waits for the address of the next one. *)
Frames ==
    /\ \A i \in 1 .. Len(stack) :
           /\ stack[i].addr \in Known
           /\ stack[i].linked <= Len(depends[stack[i].addr])
    /\ \A i \in 1 .. Len(stack) - 1 :
           /\ stack[i].linked < Len(depends[stack[i].addr])
           /\ depends[stack[i].addr][stack[i].linked + 1] = stack[i + 1].addr

(* Every node is needed and has one place; every edge is a declared one     *)
(* between two nodes.                                                      *)
Sensible ==
    /\ Known \subseteq Needed
    /\ \A i, j \in 1 .. Len(nodes) : nodes[i] = nodes[j] => i = j
    /\ \A e \in edges :
           /\ e[1] \in Known /\ e[2] \in Known
           /\ e[3] \in 1 .. Len(depends[e[2]])
           /\ e = <<depends[e[2]][e[3]], e[2], e[3]>>
    /\ Acyclic(edges)

(* A declared dependency of a node that has no edge yet is owed by a frame. *)
Owed ==
    \A n \in Known : \A k \in 1 .. Len(depends[n]) :
        \/ <<depends[n][k], n, k>> \in edges
        \/ \E i \in 1 .. Len(stack) : stack[i].addr = n /\ stack[i].linked < k

Phases ==
    /\ phase = "returned" <=> result # "none"
    /\ phase = "start" => nodes = <<>> /\ stack = <<>>
    /\ phase = "add" => Root \in Known
    /\ Added => Root \in Known /\ stack = <<>>

(* The walk goes up from the target and leaves out no parent. *)
Sliced ==
    /\ queue \cup subgraph \subseteq Known
    /\ phase \in {"start", "add"} => subgraph = {} /\ DOMAIN indegrees = {}
    /\ phase = "walk" =>
           /\ Root \in queue \cup subgraph
           /\ \A e \in edges : e[2] \in subgraph => e[1] \in queue \cup subgraph

(* The nodes before next are settled, those from next on untouched. *)
Settled ==
    /\ phase \in {"start", "add"} => next = 1 /\ hits = {} /\ \A n \in Addr : task[n] = "none"
    /\ \A i \in 1 .. Len(nodes) :
           IF i < next THEN nodes[i] \in ids /\ (nodes[i] \in hits <=> task[nodes[i]] = "none")
           ELSE nodes[i] \notin hits /\ task[nodes[i]] = "none"
    /\ phase = "acquire" => next <= Len(nodes) /\ Node \in ids
    /\ result = "ok" => next > Len(nodes) /\ \A n \in Addr : task[n] \in {"none", "ok"}

IInv ==
    /\ TypeOK /\ Frames /\ Sensible /\ Owed /\ Phases /\ Sliced /\ Settled
    /\ RefusalJustified /\ TemplateExact
-----------------------------------------------------------------------------
(* Reachability.                                                           *)

(* What Reaches says of a closed set, and that it is itself closed.         *)
LEMMA ReachesClosed ==
    ASSUME NEW E, NEW a \in Addr, \A e \in E : e[1] \in Addr /\ e[2] \in Addr
    PROVE  LET R == {x \in Addr : Reaches(E, a, x)}
           IN  a \in R /\ \A e \in E : e[1] \in R => e[2] \in R
BY DEF Reaches

(* More edges reach no less.                                               *)
LEMMA ReachesMonotone ==
    ASSUME NEW E, NEW F, E \subseteq F, NEW a, NEW b, Reaches(E, a, b)
    PROVE  Reaches(F, a, b)
BY DEF Reaches

(* add_edge keeps the graph acyclic: an edge whose source its target does   *)
(* not reach closes no cycle.                                              *)
LEMMA AcyclicAdd ==
    ASSUME NEW E, NEW a \in Addr, NEW b \in Addr, NEW k,
           \A e \in E : e[1] \in Addr /\ e[2] \in Addr,
           Acyclic(E), ~Reaches(E, b, a)
    PROVE  Acyclic(E \cup {<<a, b, k>>})
<1> DEFINE F == E \cup {<<a, b, k>>}
           S == {x \in Addr : Reaches(E, b, x)}
<1>1. b \in S /\ a \notin S /\ \A e \in E : e[1] \in S => e[2] \in S
  BY ReachesClosed
<1>2. \A e \in F : e[1] \in S => e[2] \in S
  BY <1>1
<1> SUFFICES ASSUME NEW e \in F, Reaches(F, e[2], e[1]), e[2] \in Addr
             PROVE  FALSE
  BY DEF Acyclic
<1> DEFINE n == e[2]
           T == {x \in Addr : Reaches(E, n, x)}
<1>3. n \in T /\ \A f \in E : f[1] \in T => f[2] \in T
  BY ReachesClosed
<1>4. CASE e = <<a, b, k>>
  <2>1. S \in SUBSET Addr
    OBVIOUS
  <2>2. a \in S
    BY <1>1, <1>2, <1>4, <2>1 DEF Reaches
  <2> QED BY <1>1, <2>2
<1>5. CASE e \in E
  <2>1. ~Reaches(E, n, e[1])
    BY <1>5 DEF Acyclic
  <2>2. CASE a \notin T
    <3>1. \A f \in F : f[1] \in T => f[2] \in T
      BY <1>3, <2>2
    <3>2. T \in SUBSET Addr
      OBVIOUS
    <3>3. e[1] \in T
      BY <1>3, <3>1, <3>2, Zenon DEF Reaches
    <3> QED BY <2>1, <3>3
  <2>3. CASE a \in T
    <3>1. \A f \in F : f[1] \in T \cup S => f[2] \in T \cup S
      BY <1>1, <1>3
    <3>2. T \cup S \in SUBSET Addr
      OBVIOUS
    <3>3. e[1] \in T \cup S
      BY <1>3, <3>1, <3>2, Zenon DEF Reaches
    <3>4. e[1] \in S
      BY <2>1, <3>3
    <3>5. n \in S
      BY <1>1, <1>5, <3>4
    <3>6. S \in SUBSET Addr
      OBVIOUS
    <3>7. a \in S
      BY <1>1, <2>3, <3>5, <3>6 DEF Reaches
    <3> QED BY <1>1, <3>7
  <2> QED BY <2>2, <2>3
<1> QED BY <1>4, <1>5

(* What is needed: the target, and what a needed transform depends on.      *)
LEMMA NeededClosed ==
    ASSUME depends \in [Registered -> Seq(Addr)]
    PROVE  /\ Root \in Needed
           /\ \A n \in Needed \cap Registered : \A k \in 1 .. Len(depends[n]) :
                  depends[n][k] \in Needed
<1> USE AddrAssumption
<1>1. Root \in Needed
  BY DEF Needed
<1>2. ASSUME NEW n \in Needed \cap Registered, NEW k \in 1 .. Len(depends[n])
      PROVE  depends[n][k] \in Needed
  <2>1. depends[n][k] \in Addr
    OBVIOUS
  <2> QED BY <2>1 DEF Needed
<1> QED BY <1>1, <1>2

(* Nothing else is: a closed set with the target has all that is needed.    *)
LEMMA NeededLeast ==
    ASSUME NEW S \in SUBSET Addr, Root \in S,
           \A m \in S \cap Registered : \A i \in 1 .. Len(depends[m]) : depends[m][i] \in S
    PROVE  Needed \subseteq S
BY DEF Needed

(* What it is to be a declared edge.                                        *)
LEMMA DeclaredIs ==
    \A e : e \in Declared <=> \E n \in Needed \cap Registered : \E i \in 1 .. Len(depends[n]) :
                                  e = <<depends[n][i], n, i>>
BY DEF Declared

(* Only depends decides what is needed and what is declared.               *)
LEMMA SameProject ==
    ASSUME depends' = depends
    PROVE  Needed' = Needed /\ Declared' = Declared
BY DEF Needed, Declared
-----------------------------------------------------------------------------
(* The call stack.                                                         *)

Frame == [addr : Registered, linked : Nat]

(* Pushing a frame, returning from one and counting one more dependency.    *)
LEMMA Pushed ==
    ASSUME NEW s \in Seq(Frame), NEW a \in Registered
    PROVE  LET t == Append(s, [addr |-> a, linked |-> 0])
           IN  /\ t \in Seq(Frame) /\ Len(t) = Len(s) + 1
               /\ \A i \in 1 .. Len(s) : t[i] = s[i]
               /\ t[Len(t)].addr = a /\ t[Len(t)].linked = 0
<1>1. [addr |-> a, linked |-> 0] \in Frame
  BY DEF Frame
<1> QED BY <1>1

(* The recursion of add returns: the frames below stay as they are.         *)
LEMMA Popped ==
    ASSUME NEW s \in Seq(Frame), Len(s) > 1
    PROVE  LET t == SubSeq(s, 1, Len(s) - 1)
           IN  /\ t \in Seq(Frame) /\ Len(t) = Len(s) - 1
               /\ \A i \in 1 .. Len(t) : t[i] = s[i]
OBVIOUS

(* The top frame of the recursion goes on to its next dependency.           *)
LEMMA Bumped ==
    ASSUME NEW s \in Seq(Frame), s # <<>>
    PROVE  LET t == [s EXCEPT ![Len(s)].linked = @ + 1]
           IN  /\ t \in Seq(Frame) /\ Len(t) = Len(s)
               /\ \A i \in 1 .. Len(s) - 1 : t[i] = s[i]
               /\ t[Len(s)].addr = s[Len(s)].addr
               /\ t[Len(s)].linked = s[Len(s)].linked + 1
<1> DEFINE f == [s[Len(s)] EXCEPT !.linked = @ + 1]
           t == [s EXCEPT ![Len(s)] = f]
<1>1. Len(s) \in 1 .. Len(s) /\ s[Len(s)] \in Frame
  OBVIOUS
<1>2. f \in Frame /\ f.addr = s[Len(s)].addr /\ f.linked = s[Len(s)].linked + 1
  BY <1>1 DEF Frame
<1> HIDE DEF f
<1>3. t \in Seq(Frame) /\ Len(t) = Len(s) /\ t[Len(s)] = f /\ \A i \in 1 .. Len(s) - 1 : t[i] = s[i]
  BY <1>1, <1>2
<1> QED BY <1>2, <1>3 DEF f

(* The types that the steps of add rely on.                                *)
LEMMA GraphTypes ==
    ASSUME TypeOK
    PROVE  /\ depends \in [Registered -> Seq(Addr)]
           /\ stack \in Seq(Frame) /\ nodes \in Seq(Registered)
           /\ edges \subseteq Addr \X Registered \X Nat
           /\ Known \subseteq Registered /\ Registered \subseteq Addr
BY AddrAssumption, ProjectAssumption DEF TypeOK, Known, Frame
-----------------------------------------------------------------------------
(* Graph::add_recursive.                                                   *)

(* A node is added for an address that has none: it owes all its            *)
(* dependencies, and the frame that waits for it is the one below.         *)
LEMMA VisitStep ==
    ASSUME TypeOK, Frames, Sensible, Owed, UNCHANGED <<depends, edges>>,
           NEW a \in Needed \cap Registered, a \notin Known,
           nodes' = Append(nodes, a), stack' = Append(stack, [addr |-> a, linked |-> 0]),
           stack # <<>> => Pending /\ a = Dependency
    PROVE  /\ nodes' \in Seq(Registered) /\ stack' \in Seq(Frame)
           /\ Known' = Known \cup {a}
           /\ Frames' /\ Sensible' /\ Owed'
<1> USE GraphTypes
<1>1. /\ stack' \in Seq(Frame) /\ Len(stack') = Len(stack) + 1
      /\ \A i \in 1 .. Len(stack) : stack'[i] = stack[i]
      /\ stack'[Len(stack')].addr = a /\ stack'[Len(stack')].linked = 0
  BY Pushed
<1>2. /\ nodes' \in Seq(Registered) /\ Len(nodes') = Len(nodes) + 1
      /\ \A i \in 1 .. Len(nodes) : nodes'[i] = nodes[i]
      /\ nodes'[Len(nodes')] = a
  OBVIOUS
<1>3. Known' = Known \cup {a}
  BY <1>2 DEF Known
<1>4. Frames'
  <2>1. ASSUME NEW i \in 1 .. Len(stack')
        PROVE  stack'[i].addr \in Known' /\ stack'[i].linked <= Len(depends'[stack'[i].addr])
    BY <1>1, <1>3 DEF Frames
  <2>2. ASSUME NEW i \in 1 .. Len(stack') - 1
        PROVE  /\ stack'[i].linked < Len(depends'[stack'[i].addr])
               /\ depends'[stack'[i].addr][stack'[i].linked + 1] = stack'[i + 1].addr
    <3>1. CASE i = Len(stack)
      BY <1>1, <3>1 DEF Pending, Dependency, Top
    <3>2. CASE i # Len(stack)
      <4>1. i \in 1 .. Len(stack) - 1 /\ i + 1 \in 1 .. Len(stack)
        BY <1>1, <3>2
      <4> QED BY <1>1, <4>1 DEF Frames
    <3> QED BY <3>1, <3>2
  <2> QED BY <2>1, <2>2 DEF Frames
<1>5. Sensible'
  <2>1. Known' \subseteq Needed'
    BY <1>3, SameProject DEF Sensible
  <2>2. ASSUME NEW i \in 1 .. Len(nodes'), NEW j \in 1 .. Len(nodes'), nodes'[i] = nodes'[j]
        PROVE  i = j
    BY <1>2, <2>2 DEF Sensible, Known
  <2>3. \A e \in edges :
           /\ e[1] \in Known' /\ e[2] \in Known'
           /\ e[3] \in 1 .. Len(depends[e[2]])
           /\ e = <<depends[e[2]][e[3]], e[2], e[3]>>
    BY <1>3 DEF Sensible
  <2>4. Acyclic(edges')
    BY DEF Sensible
  <2> QED BY <2>1, <2>2, <2>3, <2>4, Zenon DEF Sensible
<1>6. Owed'
  <2> SUFFICES ASSUME NEW n \in Known', NEW k \in 1 .. Len(depends[n])
               PROVE  \/ <<depends[n][k], n, k>> \in edges
                      \/ \E i \in 1 .. Len(stack') : stack'[i].addr = n /\ stack'[i].linked < k
    BY DEF Owed
  <2>1. CASE n = a
    BY <1>1, <2>1
  <2>2. CASE n \in Known
    BY <1>1, <2>2, SMTT(30) DEF Owed
  <2> QED BY <1>3, <2>1, <2>2
<1> QED BY <1>1, <1>2, <1>3, <1>4, <1>5, <1>6

(* The innermost frame, those above it being done, takes the next edge of   *)
(* its list, or add stops because the declared graph has a cycle.          *)
LEMMA LinkStep ==
    ASSUME TypeOK, Frames, Sensible, Owed, UNCHANGED <<depends, nodes>>,
           NEW frames \in Seq(Frame), frames # <<>>, Len(frames) <= Len(stack),
           \A i \in 1 .. Len(frames) : frames[i] = stack[i],
           \A i \in Len(frames) + 1 .. Len(stack) :
               stack[i].linked >= Len(depends[stack[i].addr]),
           NEW top, top = frames[Len(frames)], top.linked < Len(depends[top.addr]),
           NEW dep \in Known, dep = depends[top.addr][top.linked + 1],
           AddEdge(frames, dep)
    PROVE  /\ stack' \in Seq(Frame) /\ edges' \subseteq Addr \X Registered \X Nat
           /\ Known' = Known
           /\ Frames' /\ Sensible' /\ Owed'
           /\ \/ UNCHANGED <<phase, result>>
              \/ Return("cycle") /\ ~Acyclic(Declared) /\ UNCHANGED <<stack, edges>>
<1> /\ depends \in [Registered -> Seq(Addr)] /\ stack \in Seq(Frame)
    /\ edges \subseteq Addr \X Registered \X Nat
    /\ Known \subseteq Registered /\ Registered \subseteq Addr
  BY GraphTypes
<1> DEFINE edge == <<dep, top.addr, top.linked + 1>>
<1>0. Len(frames) \in 1 .. Len(stack) /\ top = stack[Len(frames)]
  OBVIOUS
<1>1. /\ top \in Frame /\ top.addr \in Known /\ top.linked \in Nat
      /\ top.linked + 1 \in 1 .. Len(depends[top.addr])
      /\ dep \in Known
  <2>1. top \in Frame /\ top.addr \in Known
    BY <1>0 DEF Frames
  <2>2. top.linked \in Nat /\ Len(depends[top.addr]) \in Nat
    BY <2>1, SMTT(30) DEF Frame
  <2> QED BY <2>1, <2>2
<1>2. Known' = Known
  BY DEF Known
<1>3. top.addr \in Needed \cap Registered
  BY <1>1 DEF Sensible
<1>4. \A e \in edges : e[1] \in Addr /\ e[2] \in Addr
  BY DEF Sensible
<1>5. CASE UNCHANGED <<stack, edges>> /\ Return("cycle") /\ Reaches(edges, top.addr, dep)
  <2>1. edges \subseteq Declared
    BY DeclaredIs DEF Sensible
  <2>2. edge \in Declared
    BY <1>1, <1>3, DeclaredIs
  <2>3. Reaches(Declared, top.addr, dep)
    BY <1>5, <2>1, ReachesMonotone
  <2>4. top.addr \in Addr /\ edge[2] = top.addr /\ edge[1] = dep
    BY <1>1
  <2> HIDE DEF edge
  <2>5. ~Acyclic(Declared)
    BY <2>2, <2>3, <2>4 DEF Acyclic
  <2>6. Frames' /\ Sensible' /\ Owed'
    BY <1>2, <1>5, SameProject, Zenon DEF Frames, Sensible, Owed
  <2> QED BY <1>2, <1>5, <2>5, <2>6
<1>6. CASE /\ ~Reaches(edges, top.addr, dep)
           /\ edges' = edges \cup {edge}
           /\ stack' = [frames EXCEPT ![Len(frames)].linked = @ + 1]
           /\ UNCHANGED <<phase, result>>
  <2>1. /\ stack' \in Seq(Frame) /\ Len(stack') = Len(frames)
        /\ \A i \in 1 .. Len(frames) - 1 : stack'[i] = stack[i]
        /\ stack'[Len(frames)].addr = top.addr
        /\ stack'[Len(frames)].linked = top.linked + 1
    <3>1. /\ stack' \in Seq(Frame) /\ Len(stack') = Len(frames)
          /\ \A i \in 1 .. Len(frames) - 1 : stack'[i] = frames[i]
          /\ stack'[Len(frames)].addr = top.addr
          /\ stack'[Len(frames)].linked = top.linked + 1
      BY ONLY <1>6, Bumped, frames \in Seq(Frame), frames # <<>>, top = frames[Len(frames)]
    <3> QED BY <1>0, <3>1
  <2>2. edge \in Addr \X Registered \X Nat
    BY <1>1
  <2>3. Frames'
    <3>1. ASSUME NEW i \in 1 .. Len(stack')
          PROVE  stack'[i].addr \in Known' /\ stack'[i].linked <= Len(depends'[stack'[i].addr])
      <4>1. CASE i = Len(frames)
        BY <1>1, <1>2, <2>1, <4>1
      <4>2. CASE i # Len(frames)
        <5>1. i \in 1 .. Len(frames) - 1 /\ i \in 1 .. Len(stack)
          BY <1>0, <2>1, <4>2
        <5> QED BY <1>2, <2>1, <5>1 DEF Frames
      <4> QED BY <4>1, <4>2
    <3>2. ASSUME NEW i \in 1 .. Len(stack') - 1
          PROVE  /\ stack'[i].linked < Len(depends'[stack'[i].addr])
                 /\ depends'[stack'[i].addr][stack'[i].linked + 1] = stack'[i + 1].addr
      <4>1. i \in 1 .. Len(stack) - 1 /\ i \in 1 .. Len(frames) - 1 /\ stack'[i] = stack[i]
        BY <1>0, <1>1, <2>1
      <4>2. stack'[i + 1].addr = stack[i + 1].addr
        <5>1. CASE i + 1 = Len(frames)
          BY <1>0, <2>1, <5>1
        <5>2. CASE i + 1 # Len(frames)
          <6>1. i + 1 \in 1 .. Len(frames) - 1
            BY <1>0, <4>1, <5>2
          <6> QED BY <2>1, <6>1
        <5> QED BY <5>1, <5>2
      <4> QED BY <4>1, <4>2 DEF Frames
    <3> QED BY <3>1, <3>2 DEF Frames
  <2>4. Sensible'
    <3>1. Acyclic(edges')
      BY <1>1, <1>4, <1>6, AcyclicAdd, Zenon DEF Sensible
    <3>2. /\ edge[1] \in Known /\ edge[2] \in Known
          /\ edge[3] \in 1 .. Len(depends[edge[2]])
          /\ edge = <<depends[edge[2]][edge[3]], edge[2], edge[3]>>
      BY <1>1
    <3> HIDE DEF edge
    <3>3. \A e \in edges' :
             /\ e[1] \in Known' /\ e[2] \in Known'
             /\ e[3] \in 1 .. Len(depends'[e[2]])
             /\ e = <<depends'[e[2]][e[3]], e[2], e[3]>>
      BY <1>2, <1>6, <3>2 DEF Sensible
    <3> QED BY <1>2, <3>1, <3>3, SameProject DEF Sensible
  <2>5. Owed'
    <3> SUFFICES ASSUME NEW n \in Known, NEW k \in 1 .. Len(depends[n]),
                        <<depends[n][k], n, k>> \notin edges'
                 PROVE  \E i \in 1 .. Len(stack') : stack'[i].addr = n /\ stack'[i].linked < k
      BY <1>2, ZenonT(30) DEF Owed
    <3>1. PICK i \in 1 .. Len(stack) : stack[i].addr = n /\ stack[i].linked < k
      BY <1>6, Zenon DEF Owed
    <3>2. i \in 1 .. Len(frames)
      <4>0. stack[i] \in Frame /\ n \in Registered
        OBVIOUS
      <4>1. stack[i].linked \in Nat /\ depends[n] \in Seq(Addr)
        BY <4>0, Zenon DEF Frame
      <4>2. ~(stack[i].linked >= Len(depends[stack[i].addr]))
        BY <3>1, <4>1
      <4> QED BY <1>0, <4>2
    <3>3. CASE i = Len(frames)
      <4>1. n = top.addr /\ top.linked < k
        BY <1>0, <1>1, <3>1, <3>3
      <4>2. k # top.linked + 1
        BY <1>6, <4>1, Zenon
      <4> QED BY <1>0, <1>1, <2>1, <3>1, <3>3, <4>1, <4>2
    <3>4. CASE i # Len(frames)
      <4>1. i \in 1 .. Len(frames) - 1
        BY <1>0, <3>2, <3>4
      <4>2. stack'[i] = stack[i] /\ i \in 1 .. Len(stack')
        BY <1>0, <2>1, <3>2, <4>1
      <4> QED BY <3>1, <4>2
    <3> QED BY <3>3, <3>4
  <2> QED BY <1>2, <1>6, <2>1, <2>2, <2>3, <2>4, <2>5
<1> QED BY <1>5, <1>6 DEF AddEdge

(* What the steps of add do to the graph, in the terms of the lemmas above. *)
AddStep == Start \/ Descend \/ LinkKnown \/ LinkVisited \/ DependsFails \/ StartWalk

GraphOK ==
    /\ stack \in Seq(Frame) /\ nodes \in Seq(Registered)
    /\ edges \subseteq Addr \X Registered \X Nat
    /\ Frames /\ Sensible /\ Owed

(* Only the steps of add touch the graph.                                  *)
LEMMA GraphKept ==
    ASSUME IInv, UNCHANGED graphVars
    PROVE  GraphOK' /\ Known' = Known
<1>1. Known' = Known /\ Needed' = Needed
  BY SameProject DEF graphVars, Known
<1>2. stack \in Seq(Frame) /\ nodes \in Seq(Registered) /\ edges \subseteq Addr \X Registered \X Nat
  BY GraphTypes DEF IInv
<1>3. Frames' /\ Sensible' /\ Owed'
  BY <1>1 DEF IInv, graphVars, Frames, Sensible, Owed
<1> QED BY <1>1, <1>2, <1>3 DEF GraphOK, graphVars

(* An address that is visited, either way.                                 *)
LEMMA Visited ==
    ASSUME IInv, NEW a \in Needed, a \notin Known, Visit(a), UNCHANGED <<depends, edges>>,
           stack # <<>> => Pending /\ a = Dependency
    PROVE  /\ GraphOK'
           /\ \/ /\ phase' = "add" /\ result' = result
                 /\ a \in Registered /\ nodes' = Append(nodes, a) /\ Known' = Known \cup {a}
              \/ Return("missing") /\ ~(Needed \subseteq Registered) /\ UNCHANGED <<nodes, stack>>
<1>1. CASE a \in Registered
  <2>1. /\ nodes' = Append(nodes, a) /\ stack' = Append(stack, [addr |-> a, linked |-> 0])
        /\ phase' = "add" /\ result' = result
    BY <1>1 DEF Visit
  <2>2. /\ nodes' \in Seq(Registered) /\ stack' \in Seq(Frame) /\ Known' = Known \cup {a}
        /\ Frames' /\ Sensible' /\ Owed'
    BY <1>1, <2>1, VisitStep DEF IInv
  <2>3. edges' \subseteq Addr \X Registered \X Nat
    BY GraphTypes DEF IInv
  <2> QED BY <1>1, <2>1, <2>2, <2>3 DEF GraphOK
<1>2. CASE a \notin Registered
  BY <1>2, GraphKept DEF Visit, graphVars
<1> QED BY <1>1, <1>2

(* Every step of add keeps the graph sound: it goes on, refuses the project *)
(* with a cause, fails, or leaves for the walk.                             *)
LEMMA AddSteps ==
    ASSUME IInv, AddStep
    PROVE  /\ GraphOK'
           /\ \/ /\ phase' = "add" /\ result' = result /\ Root \in Known'
                 /\ \/ UNCHANGED nodes
                    \/ \E a \in Registered : nodes' = Append(nodes, a)
              \/ /\ Return("missing") /\ ~(Needed \subseteq Registered)
                 /\ UNCHANGED <<nodes, stack>>
              \/ Return("cycle") /\ ~Acyclic(Declared) /\ UNCHANGED <<nodes, stack>>
              \/ Return("error") /\ UNCHANGED <<nodes, stack>>
              \/ StartWalk
<1> /\ TypeOK /\ Frames /\ Sensible /\ Owed /\ Phases
  BY DEF IInv
<1> /\ depends \in [Registered -> Seq(Addr)] /\ stack \in Seq(Frame) /\ nodes \in Seq(Registered)
    /\ Known \subseteq Registered /\ Registered \subseteq Addr
  BY GraphTypes
<1>1. CASE Start
  <2>1. Root \notin Known /\ stack = <<>>
    BY <1>1 DEF Start, Phases, Known
  <2>2. Root \in Needed
    BY NeededClosed
  <2> QED BY <1>1, <2>1, <2>2, Visited DEF Start
<1>2. CASE Descend
  <2>1. Top \in Frame /\ Top.addr \in Known /\ Top.linked + 1 \in 1 .. Len(depends[Top.addr])
    <3>1. Len(stack) \in 1 .. Len(stack)
      BY <1>2 DEF Descend
    <3>2. Top \in Frame /\ Top.addr \in Known
      BY <3>1 DEF Frames, Top
    <3>3. Top.linked \in Nat /\ depends[Top.addr] \in Seq(Addr)
      BY <3>2, Zenon DEF Frame
    <3> QED BY <1>2, <3>2, <3>3 DEF Descend, Pending
  <2>2. Dependency \in Needed
    BY <2>1, NeededClosed DEF Sensible, Dependency
  <2>3. /\ Dependency \notin Known /\ Visit(Dependency) /\ UNCHANGED <<depends, edges>>
        /\ Pending /\ phase = "add"
    BY <1>2 DEF Descend
  <2> HIDE DEF Dependency
  <2> QED BY <2>2, <2>3, Visited DEF Phases
<1>3. CASE LinkKnown
  <2> DEFINE top == stack[Len(stack)]
  <2>1. /\ stack # <<>> /\ top.linked < Len(depends[top.addr])
        /\ depends[top.addr][top.linked + 1] \in Known
        /\ AddEdge(stack, depends[top.addr][top.linked + 1])
        /\ UNCHANGED <<depends, nodes>> /\ phase = "add"
    BY <1>3 DEF LinkKnown, Pending, Dependency, Top
  <2>2. /\ \A i \in 1 .. Len(stack) : stack[i] = stack[i]
        /\ \A i \in Len(stack) + 1 .. Len(stack) :
               stack[i].linked >= Len(depends[stack[i].addr])
        /\ Len(stack) <= Len(stack)
    OBVIOUS
  <2>3. /\ stack' \in Seq(Frame) /\ edges' \subseteq Addr \X Registered \X Nat
        /\ Known' = Known
        /\ Frames' /\ Sensible' /\ Owed'
        /\ \/ UNCHANGED <<phase, result>>
           \/ Return("cycle") /\ ~Acyclic(Declared) /\ UNCHANGED <<stack, edges>>
    BY <2>1, <2>2, LinkStep, Zenon
  <2> QED BY <2>1, <2>2, <2>3 DEF GraphOK, Phases
<1>4. CASE LinkVisited
  <2> DEFINE frames == SubSeq(stack, 1, Len(stack) - 1)
             top == frames[Len(frames)]
  <2>1. /\ frames \in Seq(Frame) /\ Len(frames) = Len(stack) - 1 /\ Len(stack) > 1
        /\ \A i \in 1 .. Len(frames) : frames[i] = stack[i]
    BY <1>4, Popped DEF LinkVisited
  <2>2. AddEdge(frames, Top.addr) /\ UNCHANGED <<depends, nodes>> /\ phase = "add"
    BY <1>4 DEF LinkVisited
  <2> HIDE DEF frames
  <2>3. Len(stack) - 1 \in 1 .. Len(stack) - 1 /\ Len(stack) \in 1 .. Len(stack)
    BY <2>1
  <2>4. /\ top.linked < Len(depends[top.addr])
        /\ depends[top.addr][top.linked + 1] = Top.addr /\ Top.addr \in Known
    BY <2>1, <2>3, SMTT(30) DEF Frames, Top
  <2>5. \A i \in Len(frames) + 1 .. Len(stack) : stack[i].linked >= Len(depends[stack[i].addr])
    <3>1. Top \in Frame
      BY <2>3 DEF Top
    <3>2. Top.linked \in Nat /\ depends[Top.addr] \in Seq(Addr)
      BY <2>4, <3>1, Zenon DEF Frame
    <3>3. Top.linked >= Len(depends[Top.addr])
      BY <1>4, <3>2 DEF LinkVisited, Pending
    <3> QED BY <2>1, <3>3 DEF Top
  <2>6. frames # <<>> /\ Len(frames) <= Len(stack)
    BY <2>1
  <2>7. /\ stack' \in Seq(Frame) /\ edges' \subseteq Addr \X Registered \X Nat
        /\ Known' = Known
        /\ Frames' /\ Sensible' /\ Owed'
        /\ \/ UNCHANGED <<phase, result>>
           \/ Return("cycle") /\ ~Acyclic(Declared) /\ UNCHANGED <<stack, edges>>
    BY <2>1, <2>2, <2>4, <2>5, <2>6, LinkStep, Zenon
  <2> QED BY <2>2, <2>7 DEF GraphOK, Phases
<1>5. CASE DependsFails
  BY <1>5, GraphKept DEF DependsFails, graphVars
<1>6. CASE StartWalk
  <2>1. /\ stack' = <<>> /\ UNCHANGED <<depends, nodes, edges>>
        /\ Len(stack) = 1 /\ ~Pending
    BY <1>6 DEF StartWalk
  <2>2. Top \in Frame /\ Top.addr \in Known
    <3>1. Len(stack) \in 1 .. Len(stack)
      BY <2>1
    <3> QED BY <3>1 DEF Top, Frames
  <2>3. Top.linked \in Nat /\ depends[Top.addr] \in Seq(Addr)
    BY <2>2, Zenon DEF Frame
  <2>4. Top.linked >= Len(depends[Top.addr])
    BY <2>1, <2>3 DEF Pending
  <2>5. Owed'
    <3>1. \A i \in 1 .. Len(stack) : stack[i] = Top
      BY <2>1 DEF Top
    <3>2. ASSUME NEW n \in Known, NEW k \in 1 .. Len(depends[n]), <<depends[n][k], n, k>> \notin edges
          PROVE  FALSE
      <4>1. PICK i \in 1 .. Len(stack) : stack[i].addr = n /\ stack[i].linked < k
        BY <3>2 DEF Owed
      <4> QED BY <2>3, <2>4, <3>1, <4>1
    <3>3. Known' = Known
      BY <2>1 DEF Known
    <3> QED BY <2>1, <3>2, <3>3 DEF Owed
  <2>6. Frames' /\ Sensible'
    BY <2>1, SameProject DEF Frames, Sensible, Known
  <2>7. /\ stack' \in Seq(Frame) /\ nodes' \in Seq(Registered)
        /\ edges' \subseteq Addr \X Registered \X Nat
    BY <2>1, GraphTypes
  <2> QED BY <1>6, <2>5, <2>6, <2>7 DEF GraphOK
<1> QED BY <1>1, <1>2, <1>3, <1>4, <1>5, <1>6 DEF AddStep
-----------------------------------------------------------------------------
(* The finished graph.                                                     *)

(* A set that a list without repetition enumerates is as large as the list. *)
LEMMA ListCounts ==
    ASSUME NEW n \in Nat, NEW S, NEW f \in [1 .. n -> S],
           \A i, j \in 1 .. n : f[i] = f[j] => i = j,
           \A x \in S : \E i \in 1 .. n : f[i] = x
    PROVE  Cardinality(S) = n
<1>1. f \in Bijection(1 .. n, S)
  BY Zenon DEF Bijection, Injection, Surjection, IsInjective
<1>2. ExistsBijection(1 .. n, S)
  BY <1>1 DEF ExistsBijection
<1> QED BY <1>2, FS_CountingElements

(* With no frame left nothing is owed: add has walked all that is needed    *)
(* and linked all that is declared.                                        *)
LEMMA AddedAll ==
    ASSUME IInv, Added
    PROVE  /\ Known = Needed /\ edges = Declared
           /\ Len(nodes) = Cardinality(Known) /\ Acyclic(edges)
<1> /\ Sensible /\ Owed /\ stack = <<>> /\ Root \in Known
  BY DEF IInv, Phases
<1> /\ depends \in [Registered -> Seq(Addr)] /\ nodes \in Seq(Registered)
    /\ Known \subseteq Registered /\ Registered \subseteq Addr
  BY GraphTypes DEF IInv
<1>1. \A n \in Known : \A k \in 1 .. Len(depends[n]) : <<depends[n][k], n, k>> \in edges
  BY DEF Owed
<1>2. \A n \in Known \cap Registered : \A k \in 1 .. Len(depends[n]) : depends[n][k] \in Known
  BY <1>1, Zenon DEF Sensible
<1>3. Known = Needed
  BY <1>2, NeededLeast, Zenon DEF Sensible
<1>4. edges = Declared
  <2>1. edges \subseteq Declared
    BY <1>3, DeclaredIs, Zenon DEF Sensible
  <2>2. Declared \subseteq edges
    BY <1>1, <1>3, DeclaredIs
  <2> QED BY <2>1, <2>2, Zenon
<1>5. Len(nodes) = Cardinality(Known)
  <2>1. nodes \in [1 .. Len(nodes) -> Known] /\ \A x \in Known : \E i \in 1 .. Len(nodes) : nodes[i] = x
    BY DEF Known
  <2>2. \A i, j \in 1 .. Len(nodes) : nodes[i] = nodes[j] => i = j
    BY DEF Sensible
  <2>3. Len(nodes) \in Nat
    OBVIOUS
  <2> QED BY <2>1, <2>2, <2>3, ListCounts, Zenon
<1> QED BY <1>3, <1>4, <1>5 DEF Sensible

(* As many edges lead into a node as its list of dependencies is long, a    *)
(* dependency listed twice counting twice.                                 *)
LEMMA DegreeExact ==
    ASSUME IInv, Added, subgraph = Needed, NEW n \in Needed
    PROVE  Cardinality({e \in edges : e[2] = n /\ e[1] \in subgraph}) = Len(depends[n])
<1> /\ depends \in [Registered -> Seq(Addr)] /\ Known \subseteq Registered
  BY GraphTypes DEF IInv
<1> /\ Known = Needed /\ edges = Declared
  BY AddedAll
<1> DEFINE S == {e \in edges : e[2] = n /\ e[1] \in subgraph}
           f == [i \in 1 .. Len(depends[n]) |-> <<depends[n][i], n, i>>]
<1>1. n \in Registered /\ Len(depends[n]) \in Nat
  OBVIOUS
<1>2. ASSUME NEW i \in 1 .. Len(depends[n]) PROVE f[i] \in S
  <2>1. <<depends[n][i], n, i>> \in Declared
    BY <1>1, DeclaredIs
  <2>2. depends[n][i] \in Needed
    BY <1>1, NeededClosed
  <2> QED BY <2>1, <2>2
<1>3. ASSUME NEW e \in S PROVE \E i \in 1 .. Len(depends[n]) : f[i] = e
  <2>1. PICK m \in Needed \cap Registered : \E i \in 1 .. Len(depends[m]) : e = <<depends[m][i], m, i>>
    BY DeclaredIs
  <2>2. PICK i \in 1 .. Len(depends[m]) : e = <<depends[m][i], m, i>>
    BY <2>1
  <2>3. m = n
    BY <2>2
  <2> QED BY <2>2, <2>3, Zenon
<1>4. \A i, j \in 1 .. Len(depends[n]) : f[i] = f[j] => i = j
  OBVIOUS
<1>5. f \in [1 .. Len(depends[n]) -> S]
  BY <1>2, Zenon
<1> HIDE DEF f, S
<1>6. Cardinality(S) = Len(depends[n])
  BY <1>1, <1>3, <1>4, <1>5, ListCounts, ZenonT(30)
<1> QED BY <1>6 DEF S
-----------------------------------------------------------------------------
(* The steps after add leave the graph alone.                              *)
LaterStep ==
    \/ \E n \in Addr : Walk(n) \/ Finish(n)
    \/ CountIndegrees \/ ProbeFails \/ Hit \/ Miss \/ Spawn \/ Wait \/ WaitPanics

(* A step belongs to add or comes after it.                                 *)
LEMMA Steps ==
    ASSUME [Next]_vars
    PROVE  AddStep \/ LaterStep \/ UNCHANGED vars
BY Zenon DEF Next, Step, AddStep, LaterStep

(* The phases follow each other as in the code.                             *)
LEMMA LaterSteps ==
    ASSUME LaterStep
    PROVE  /\ UNCHANGED graphVars
           /\ \/ UNCHANGED <<phase, result>>
              \/ Return("error") /\ phase = "probe"
              \/ Return("ok") /\ phase = "probe"
              \/ phase = "walk" /\ phase' = "probe" /\ UNCHANGED result
              \/ phase = "probe" /\ phase' = "acquire" /\ UNCHANGED result
              \/ phase = "acquire" /\ phase' = "probe" /\ UNCHANGED result
<1>1. CASE \E n \in Addr : Walk(n) \/ Finish(n)
  BY <1>1, Zenon DEF Walk, Finish
<1>2. CASE CountIndegrees \/ Miss \/ Spawn \/ Hit
  BY <1>2, Zenon DEF CountIndegrees, Miss, Spawn, Hit
<1>3. CASE ProbeFails \/ Wait \/ WaitPanics
  <2>1. UNCHANGED graphVars /\ phase = "probe" /\ \E r \in {"error", "ok"} : Return(r)
    BY <1>3 DEF ProbeFails, Wait, WaitPanics, AllProbed
  <2> QED BY <2>1
<1> QED BY <1>1, <1>2, <1>3 DEF LaterStep

(* The graph and the place in Inner::run, whatever step is taken.           *)
LEMMA GraphStep ==
    ASSUME IInv, [Next]_vars
    PROVE  GraphOK' /\ Phases' /\ RefusalJustified' /\ Known \subseteq Known'
<1> /\ Phases /\ RefusalJustified /\ depends \in [Registered -> Seq(Addr)] /\ nodes \in Seq(Registered)
  BY GraphTypes DEF IInv
<1>1. depends' = depends
  <2>1. AddStep => depends' = depends
    BY DEF AddStep, Start, Descend, LinkKnown, LinkVisited, DependsFails, StartWalk, graphVars
  <2> QED BY <2>1, Steps, LaterSteps DEF vars, graphVars
<1>2. Needed' = Needed /\ Declared' = Declared
  BY <1>1, SameProject
<1>3. CASE AddStep
  <2>0. GraphOK' /\ phase \in {"start", "add"} /\ result = "none"
    BY <1>3, AddSteps DEF AddStep, Start, Descend, LinkKnown, LinkVisited, DependsFails, StartWalk, Phases
  <2>1. CASE UNCHANGED <<nodes, stack>> /\ \E r \in {"missing", "cycle", "error"} : Return(r) /\
               (r = "cycle" => ~Acyclic(Declared)) /\ (r = "missing" => ~(Needed \subseteq Registered))
    BY <1>2, <2>0, <2>1 DEF Return, Phases, RefusalJustified, Known, Added
  <2>2. CASE phase' = "add" /\ result' = result /\ Root \in Known'
    <3>1. Phases' /\ RefusalJustified'
      BY <1>2, <2>0, <2>2 DEF Phases, RefusalJustified, Added
    <3>2. Known \subseteq Known'
      <4>1. nodes' = nodes \/ \E a \in Registered : nodes' = Append(nodes, a)
        BY <1>3, <2>2, AddSteps DEF Return, StartWalk
      <4>2. Len(nodes') \in Nat /\ Len(nodes) <= Len(nodes') /\ \A i \in 1 .. Len(nodes) : nodes'[i] = nodes[i]
        <5>1. CASE nodes' = nodes
          BY <5>1
        <5>2. CASE \E a \in Registered : nodes' = Append(nodes, a)
          <6> PICK a \in Registered : nodes' = Append(nodes, a)
            BY <5>2
          <6> QED OBVIOUS
        <5> QED BY <4>1, <5>1, <5>2
      <4> QED BY <4>2 DEF Known
    <3> QED BY <2>0, <3>1, <3>2
  <2>3. CASE StartWalk
    <3>1. /\ phase' = "walk" /\ result' = result /\ nodes' = nodes /\ stack' = <<>>
          /\ phase = "add"
      BY <2>3 DEF StartWalk
    <3> QED BY <1>2, <2>0, <3>1 DEF Phases, RefusalJustified, Known, Added
  <2> QED BY <1>3, <2>1, <2>2, <2>3, AddSteps
<1>4. CASE LaterStep
  <2>1. GraphOK' /\ Known' = Known /\ UNCHANGED <<nodes, stack>>
    BY <1>4, LaterSteps, GraphKept DEF graphVars
  <2>2. Phases' /\ RefusalJustified'
    BY <1>2, <1>4, <2>1, LaterSteps DEF Phases, RefusalJustified, Return, Added
  <2> QED BY <2>1, <2>2
<1>5. CASE UNCHANGED vars
  <2>1. GraphOK' /\ Known' = Known
    BY <1>5, GraphKept DEF vars
  <2>2. Phases' /\ RefusalJustified'
    BY <1>2, <1>5, <2>1 DEF Phases, RefusalJustified, Added, vars, graphVars
  <2> QED BY <2>1, <2>2
<1> QED BY <1>3, <1>4, <1>5, Steps

(* The walk over parents, and the counters it ends with.                   *)
LEMMA SliceStep ==
    ASSUME IInv, [Next]_vars
    PROVE  Sliced' /\ TemplateExact'
<1> /\ Phases /\ Sliced /\ TemplateExact /\ Known \subseteq Known'
    /\ depends \in [Registered -> Seq(Addr)] /\ Known \subseteq Registered /\ Registered \subseteq Addr
    /\ edges \subseteq Addr \X Registered \X Nat
  BY GraphStep, GraphTypes DEF IInv
<1>1. CASE AddStep /\ ~StartWalk
  <2>1. UNCHANGED slice /\ phase \in {"start", "add"}
    BY <1>1 DEF AddStep, Start, Descend, LinkKnown, LinkVisited, DependsFails
  <2>2. phase' \in {"add", "returned"} /\ result' # "ok"
    BY <1>1, <2>1, AddSteps DEF Return, Phases
  <2> QED BY <2>1, <2>2 DEF slice, Sliced, TemplateExact
<1>2. CASE StartWalk
  <2>1. queue' = {Root} /\ UNCHANGED <<subgraph, indegrees, result>> /\ phase = "add" /\ phase' = "walk"
    BY <1>2 DEF StartWalk
  <2> QED BY <2>1 DEF Sliced, TemplateExact, Phases
<1>3. CASE \E n \in Addr : Walk(n)
  <2> PICK n \in Addr : Walk(n)
    BY <1>3
  <2>1. /\ n \in queue /\ subgraph' = subgraph \cup {n} /\ phase = "walk"
        /\ queue' = (queue \ {n}) \cup
                    (IF n \in subgraph THEN {} ELSE {e[1] : e \in {f \in edges : f[2] = n}})
        /\ UNCHANGED <<edges, indegrees, phase, result>>
    BY DEF Walk, graphVars
  <2>2. queue' \cup subgraph' \subseteq Known
    BY <2>1 DEF Sliced, IInv, Sensible
  <2>3. Root \in queue' \cup subgraph'
    BY <2>1 DEF Sliced
  <2>4. ASSUME NEW e \in edges', e[2] \in subgraph' PROVE e[1] \in queue' \cup subgraph'
    BY <2>1, <2>4 DEF Sliced
  <2> QED BY <2>1, <2>2, <2>3, <2>4 DEF Sliced, TemplateExact, Phases
<1>4. CASE CountIndegrees
  <2>1. /\ phase = "walk" /\ queue = {} /\ UNCHANGED <<depends, queue, subgraph>> /\ phase' = "probe"
        /\ indegrees' = [n \in subgraph |-> Cardinality({e \in edges : e[2] = n /\ e[1] \in subgraph})]
    BY <1>4 DEF CountIndegrees, graphVars
  <2>2. Added /\ Known = Needed /\ edges = Declared
    BY <2>1, AddedAll DEF Added
  <2>3. Needed \subseteq subgraph
    <3>1. ASSUME NEW m \in subgraph \cap Registered, NEW i \in 1 .. Len(depends[m])
          PROVE  depends[m][i] \in subgraph
      <4>1. <<depends[m][i], m, i>> \in edges
        BY <2>2, DeclaredIs DEF Sliced
      <4> QED BY <2>1, <4>1 DEF Sliced
    <3>2. Root \in subgraph /\ subgraph \in SUBSET Addr
      BY <2>1 DEF Sliced
    <3> QED BY <3>1, <3>2, NeededLeast
  <2>4. subgraph = Needed
    BY <2>2, <2>3, Zenon DEF Sliced
  <2>5. indegrees' = [n \in Needed |-> Len(depends[n])]
    BY <2>1, <2>2, <2>4, DegreeExact
  <2>6. Needed' = Needed
    BY <2>1, SameProject
  <2> QED BY <2>1, <2>4, <2>5, <2>6 DEF Sliced, TemplateExact
<1>5. CASE \/ UNCHANGED vars \/ ProbeFails \/ Hit \/ Miss \/ Spawn \/ Wait \/ WaitPanics
           \/ \E n \in Addr : Finish(n)
  <2>1. UNCHANGED slice /\ UNCHANGED graphVars
    BY <1>5, Zenon DEF vars, ProbeFails, Hit, Miss, Spawn, Wait, WaitPanics, Finish
  <2>2. \/ UNCHANGED <<phase, result>>
        \/ phase \in {"probe", "acquire"} /\ phase' \in {"probe", "acquire", "returned"}
    BY <1>5 DEF vars, ProbeFails, Hit, Miss, Spawn, Wait, WaitPanics, Finish, AllProbed, Return
  <2>3. Known' = Known /\ Needed' = Needed /\ edges' = edges /\ depends' = depends
    BY <2>1, SameProject DEF graphVars, Known
  <2>4. Sliced'
    BY <2>1, <2>2, <2>3 DEF Sliced, slice
  <2>5. TemplateExact'
    BY <2>1, <2>2, <2>3 DEF TemplateExact, slice, Phases
  <2> QED BY <2>4, <2>5
<1> QED BY <1>1, <1>2, <1>3, <1>4, <1>5, Steps DEF LaterStep

(* Nodes keep their places, and get company only during add.               *)
LEMMA NodesGrow ==
    ASSUME IInv, [Next]_vars
    PROVE  /\ nodes \in Seq(Registered) /\ nodes' \in Seq(Registered)
           /\ Len(nodes) <= Len(nodes')
           /\ \A i \in 1 .. Len(nodes) : nodes'[i] = nodes[i]
           /\ nodes' # nodes => AddStep
<1>1. nodes \in Seq(Registered) /\ nodes' \in Seq(Registered)
  BY GraphTypes, GraphStep DEF GraphOK, IInv
<1>2. CASE nodes' = nodes
  BY <1>1, <1>2
<1>3. CASE nodes' # nodes
  <2>1. AddStep
    BY <1>3, Steps, LaterSteps DEF vars, graphVars
  <2>2. PICK a \in Registered : nodes' = Append(nodes, a)
    BY <1>3, <2>1, AddSteps DEF StartWalk
  <2> QED BY <1>1, <2>1, <2>2
<1> QED BY <1>2, <1>3

(* Graph::fetch: what is behind the loop is settled.                       *)
LEMMA SettledStep ==
    ASSUME IInv, [Next]_vars
    PROVE  Settled'
<1> /\ Settled /\ Phases /\ nodes \in Seq(Registered) /\ Registered \subseteq Addr
    /\ task \in [Addr -> {"none", "running", "ok", "error", "panicked"}] /\ hits \subseteq ids
    /\ next \in 1 .. Len(nodes) + 1
  BY GraphTypes DEF IInv, TypeOK
<1>1. CASE AddStep
  <2>1. UNCHANGED fetchVars /\ phase \in {"start", "add"}
    BY <1>1 DEF AddStep, Start, Descend, LinkKnown, LinkVisited, DependsFails, StartWalk
  <2>2. phase' # "acquire" /\ result' # "ok"
    BY <1>1, <2>1, AddSteps DEF StartWalk, Return, Phases
  <2>3. next' = 1 /\ hits' = {} /\ \A n \in Addr : task'[n] = "none"
    BY <2>1 DEF Settled, fetchVars
  <2>4. \A i \in 1 .. Len(nodes') : nodes'[i] \in Addr
    BY NodesGrow
  <2> QED BY <2>2, <2>3, <2>4 DEF Settled
<1> SUFFICES ASSUME ~AddStep PROVE Settled'
  BY <1>1
<1> nodes' = nodes
  BY NodesGrow
<1>2. \A i, j \in 1 .. Len(nodes) : nodes[i] = nodes[j] => i = j
  BY DEF IInv, Sensible
<1>3. CASE (\E n \in Addr : Walk(n)) \/ CountIndegrees \/ UNCHANGED vars
  <2>1. UNCHANGED fetchVars /\ UNCHANGED result /\ phase' \in {phase, "probe"}
    BY <1>3, Zenon DEF Walk, CountIndegrees, vars
  <2> QED BY <2>1 DEF Settled, fetchVars, Node
<1>4. CASE ProbeFails
  <2>1. UNCHANGED <<next, hits, task>> /\ ids \subseteq ids' /\ phase' = "returned" /\ result' = "error"
    BY <1>4 DEF ProbeFails, Return
  <2> QED BY <2>1 DEF Settled
<1>5. CASE Hit
  <2>1. /\ next <= Len(nodes) /\ ids' = ids \cup {Node} /\ hits' = hits \cup {Node} /\ next' = next + 1
        /\ phase' = "probe" /\ result' = "none" /\ task' = task
    BY <1>5 DEF Hit, Phases
  <2>2. next \in 1 .. Len(nodes) /\ Node = nodes[next]
    BY <2>1 DEF Node
  <2>3. ASSUME NEW i \in 1 .. Len(nodes), i < next'
        PROVE  nodes[i] \in ids' /\ (nodes[i] \in hits' <=> task'[nodes[i]] = "none")
    BY <1>2, <2>1, <2>2, <2>3 DEF Settled
  <2>4. ASSUME NEW i \in 1 .. Len(nodes), ~(i < next')
        PROVE  nodes[i] \notin hits' /\ task'[nodes[i]] = "none"
    BY <1>2, <2>1, <2>2, <2>4 DEF Settled
  <2> QED BY <2>1, <2>3, <2>4 DEF Settled
<1>6. CASE Miss
  <2>1. /\ next <= Len(nodes) /\ ids' = ids \cup {Node} /\ UNCHANGED <<next, hits, task>>
        /\ phase' = "acquire" /\ result' = "none"
    BY <1>6 DEF Miss, Phases
  <2>2. Node' = Node
    BY <2>1 DEF Node
  <2> QED BY <2>1, <2>2 DEF Settled
<1>7. CASE Spawn
  <2>1. /\ task' = [task EXCEPT ![Node] = "running"] /\ next' = next + 1 /\ UNCHANGED <<ids, hits>>
        /\ phase' = "probe" /\ result' = "none" /\ next <= Len(nodes) /\ Node \in ids
    BY <1>7 DEF Spawn, Phases, Settled
  <2>2. next \in 1 .. Len(nodes) /\ Node = nodes[next]
    BY <2>1 DEF Node
  <2>3. ASSUME NEW i \in 1 .. Len(nodes), i < next'
        PROVE  nodes[i] \in ids' /\ (nodes[i] \in hits' <=> task'[nodes[i]] = "none")
    BY <1>2, <2>1, <2>2, <2>3 DEF Settled
  <2>4. ASSUME NEW i \in 1 .. Len(nodes), ~(i < next')
        PROVE  nodes[i] \notin hits' /\ task'[nodes[i]] = "none"
    BY <1>2, <2>1, <2>2, <2>4 DEF Settled
  <2> QED BY <2>1, <2>3, <2>4 DEF Settled
<1>8. CASE \E n \in Addr : Finish(n)
  <2> PICK n \in Addr, o \in {"ok", "error", "panicked"} :
          /\ task[n] = "running" /\ task' = [task EXCEPT ![n] = o]
          /\ UNCHANGED <<phase, result, next, ids, hits>>
    BY <1>8, Zenon DEF Finish
  <2>1. phase \notin {"start", "add"} /\ result # "ok"
    BY DEF Settled
  <2>2. ASSUME NEW m \in Addr PROVE (task'[m] = "none" <=> task[m] = "none")
    OBVIOUS
  <2>3. Node' = Node
    BY DEF Node
  <2> QED BY <2>1, <2>2, <2>3 DEF Settled
<1>9. CASE Wait \/ WaitPanics
  <2>1. /\ UNCHANGED fetchVars /\ phase' = "returned" /\ next > Len(nodes)
        /\ result' = "ok" => \A n \in Addr : task[n] \in {"none", "ok"}
    BY <1>9 DEF Wait, WaitPanics, AllProbed, Return
  <2> QED BY <2>1 DEF Settled, fetchVars
<1> QED BY <1>3, <1>4, <1>5, <1>6, <1>7, <1>8, <1>9, Steps DEF LaterStep

(* A permit is out for each running task, and comes back with its end.      *)
LEMMA PermitsStep ==
    ASSUME IInv, [Next]_vars
    PROVE  /\ task' \in [Addr -> {"none", "running", "ok", "error", "panicked"}]
           /\ permits' \in 0 .. batch_size
           /\ permits' + Cardinality(Running') = batch_size
<1> /\ task \in [Addr -> {"none", "running", "ok", "error", "panicked"}]
    /\ permits \in 0 .. batch_size /\ permits + Cardinality(Running) = batch_size
  BY DEF IInv, TypeOK
<1>0. batch_size \in Nat /\ IsFiniteSet(Running) /\ Cardinality(Running) \in Nat
  <2>1. IsFiniteSet(Running)
    BY AddrAssumption, FS_Subset DEF Running
  <2> QED BY <2>1, FS_CardinalityType DEF batch_size
<1>1. CASE Spawn
  <2>1. permits > 0 /\ permits' = permits - 1 /\ task' = [task EXCEPT ![Node] = "running"]
    BY <1>1 DEF Spawn
  <2>2. Node \in Addr /\ Node \notin Running
    <3>1. next \in 1 .. Len(nodes) /\ nodes \in Seq(Registered) /\ Registered \subseteq Addr
      BY <1>1, GraphTypes DEF IInv, TypeOK, Settled, Spawn
    <3>2. task[nodes[next]] = "none"
      BY <3>1 DEF IInv, Settled
    <3> QED BY <3>1, <3>2 DEF Node, Running
  <2>3. Running' = Running \cup {Node}
    BY <2>1, <2>2 DEF Running
  <2>4. Cardinality(Running') = Cardinality(Running) + 1
    BY <1>0, <2>2, <2>3, FS_AddElement, Zenon
  <2> HIDE DEF Running, Node
  <2>5. permits' \in 0 .. batch_size /\ permits' + Cardinality(Running') = batch_size
    BY <1>0, <2>1, <2>4
  <2> QED BY <2>1, <2>5, Zenon
<1>2. CASE \E n \in Addr : Finish(n)
  <2> PICK n \in Addr, o \in {"ok", "error", "panicked"} :
          task[n] = "running" /\ task' = [task EXCEPT ![n] = o] /\ permits' = permits + 1
    BY <1>2, Zenon DEF Finish
  <2>1. Running' = Running \ {n} /\ n \in Running
    BY DEF Running
  <2>2. Cardinality(Running') = Cardinality(Running) - 1 /\ Cardinality(Running) # 0
    BY <1>0, <2>1, FS_RemoveElement, FS_EmptySet
  <2>3. permits' \in 0 .. batch_size /\ permits' + Cardinality(Running') = batch_size
    BY <1>0, <2>2
  <2> QED BY <2>3
<1>3. CASE UNCHANGED <<permits, task>>
  BY <1>3 DEF Running
<1>4. AddStep => UNCHANGED <<permits, task>>
  BY DEF AddStep, Start, Descend, LinkKnown, LinkVisited, DependsFails, StartWalk, fetchVars
<1>5. UNCHANGED vars => UNCHANGED <<permits, task>>
  BY DEF vars, fetchVars
<1>6. ASSUME LaterStep, ~Spawn, ~ \E n \in Addr : Finish(n) PROVE UNCHANGED <<permits, task>>
  BY <1>6, Zenon DEF LaterStep, Walk, CountIndegrees, ProbeFails, Hit, Miss, Wait, WaitPanics, fetchVars
<1> QED BY <1>1, <1>2, <1>3, <1>4, <1>5, <1>6, Steps

(* Every step keeps the types and the permits of the prepare tasks.         *)
LEMMA TypeStep ==
    ASSUME IInv, [Next]_vars
    PROVE  TypeOK'
<1> TypeOK /\ Phases /\ Sliced /\ Settled
  BY DEF IInv
<1> /\ nodes \in Seq(Registered) /\ nodes' \in Seq(Registered) /\ Len(nodes) <= Len(nodes')
    /\ Registered \subseteq Addr
  BY NodesGrow, GraphTypes
<1>1. /\ stack' \in Seq([addr : Registered, linked : Nat])
      /\ edges' \subseteq Addr \X Registered \X Nat
  BY GraphStep DEF GraphOK, Frame
<1>2. depends' \in Projects
  <2>1. depends' = depends
    <3>1. AddStep => depends' = depends
      BY DEF AddStep, Start, Descend, LinkKnown, LinkVisited, DependsFails, StartWalk, graphVars
    <3> QED BY <3>1, Steps, LaterSteps DEF vars, graphVars
  <2> QED BY <2>1 DEF TypeOK
<1>3. /\ phase' \in {"start", "add", "walk", "probe", "acquire", "returned"}
      /\ result' \in {"none", "ok", "error", "missing", "cycle"}
  <2>1. AddStep => /\ phase' \in {"start", "add", "walk", "probe", "acquire", "returned"}
                   /\ result' \in {"none", "ok", "error", "missing", "cycle"}
    BY AddSteps DEF Return, StartWalk, TypeOK
  <2> QED BY <2>1, Steps, LaterSteps DEF TypeOK, Return, vars
<1>4. /\ queue' \subseteq Addr /\ subgraph' \subseteq Addr
  <2>1. Sliced' /\ Known' \subseteq Registered
    BY SliceStep DEF Known
  <2> QED BY <2>1 DEF Sliced
<1>5. DOMAIN indegrees' \subseteq subgraph' /\ \A n \in DOMAIN indegrees' : indegrees'[n] \in Nat
  <2>1. CASE CountIndegrees
    <3>1. phase' = "probe"
      BY <2>1 DEF CountIndegrees
    <3>2. subgraph' = Needed' /\ indegrees' = [n \in Needed' |-> Len(depends'[n])]
      BY <3>1, SliceStep DEF TemplateExact
    <3>3. Needed' \subseteq Registered /\ depends' \in [Registered -> Seq(Addr)]
      <4>1. subgraph' \subseteq Known' /\ Known' \subseteq Registered
        BY SliceStep DEF Sliced, Known
      <4> QED BY <1>2, <3>2, <4>1, ProjectAssumption
    <3> QED BY <3>2, <3>3
  <2>2. CASE \E n \in Addr : Walk(n)
    <3>1. subgraph \subseteq subgraph' /\ indegrees' = indegrees
      BY <2>2 DEF Walk
    <3> QED BY <3>1 DEF TypeOK
  <2>3. CASE UNCHANGED <<subgraph, indegrees>>
    BY <2>3 DEF TypeOK
  <2>4. AddStep \/ UNCHANGED vars => UNCHANGED <<subgraph, indegrees>>
    BY DEF AddStep, Start, Descend, LinkKnown, LinkVisited, DependsFails, StartWalk, slice, vars
  <2>5. ASSUME LaterStep, ~CountIndegrees, ~ \E n \in Addr : Walk(n)
        PROVE  UNCHANGED <<subgraph, indegrees>>
    BY <2>5, Zenon DEF LaterStep, ProbeFails, Hit, Miss, Spawn, Finish, Wait, WaitPanics, slice
  <2> QED BY <2>1, <2>2, <2>3, <2>4, <2>5, Steps
<1>6. next' \in 1 .. Len(nodes') + 1 /\ ids' \subseteq Registered /\ hits' \subseteq ids'
  <2>0. next \in 1 .. Len(nodes) + 1 /\ ids \subseteq Registered /\ hits \subseteq ids
    BY DEF TypeOK
  <2>1. CASE UNCHANGED <<next, ids, hits>>
    BY <2>0, <2>1
  <2>2. CASE ProbeFails \/ Hit \/ Miss
    <3>1. Node \in Registered /\ next <= Len(nodes)
      BY <2>0, <2>2 DEF ProbeFails, Hit, Miss, Node
    <3>2. /\ next' \in {next, next + 1} /\ ids' \in {ids, ids \cup {Node}}
          /\ hits' = hits \/ (ids' = ids \cup {Node} /\ hits' = hits \cup {Node})
      BY <2>2, Zenon DEF ProbeFails, Hit, Miss
    <3> HIDE DEF Node
    <3> QED BY <2>0, <3>1, <3>2
  <2>3. CASE Spawn
    <3>1. next <= Len(nodes) /\ next' = next + 1 /\ UNCHANGED <<ids, hits>>
      BY <2>3 DEF Spawn, Settled
    <3> QED BY <2>0, <3>1
  <2>4. AddStep \/ UNCHANGED vars => UNCHANGED <<next, ids, hits>>
    BY DEF AddStep, Start, Descend, LinkKnown, LinkVisited, DependsFails, StartWalk, fetchVars, vars
  <2>5. ASSUME LaterStep, ~ProbeFails, ~Hit, ~Miss, ~Spawn PROVE UNCHANGED <<next, ids, hits>>
    BY <2>5, Zenon DEF LaterStep, Walk, CountIndegrees, Finish, Wait, WaitPanics, fetchVars
  <2> QED BY <2>1, <2>2, <2>3, <2>4, <2>5, Steps
<1> QED BY <1>1, <1>2, <1>3, <1>4, <1>5, <1>6, PermitsStep, SMTT(30) DEF TypeOK
-----------------------------------------------------------------------------
(* The invariant holds when add is called,                                  *)
LEMMA InductiveInit == Init => IInv
<1> SUFFICES ASSUME Init PROVE IInv
  OBVIOUS
<1> USE AddrAssumption, ProjectAssumption
<1>1. Known = {} /\ Running = {}
  BY DEF Init, Known, Running
<1>2. TypeOK
  <2>1. batch_size \in Nat /\ Cardinality(Running) = 0
    BY <1>1, FS_EmptySet DEF batch_size
  <2> QED BY <2>1 DEF Init, TypeOK
<1>3. Frames /\ Owed /\ Phases /\ Sliced /\ Settled
  BY <1>1 DEF Init, Frames, Owed, Phases, Added, Sliced, Settled
<1>4. Sensible
  BY <1>1 DEF Init, Sensible, Acyclic
<1>5. RefusalJustified /\ TemplateExact
  BY DEF Init, RefusalJustified, TemplateExact
<1> QED BY <1>2, <1>3, <1>4, <1>5 DEF IInv

(* every step keeps it,                                                     *)
LEMMA Inductive == IInv /\ [Next]_vars => IInv'
BY TypeStep, GraphStep, SliceStep, SettledStep DEF IInv, GraphOK

(* and so it holds always.                                                  *)
LEMMA Invariance == Spec => []IInv
BY InductiveInit, Inductive, PTL DEF Spec

(* For every project and number of permits the state has its types; a       *)
(* permit is lost or doubled by no way a prepare task can end.             *)
THEOREM TypeCorrect == Spec => []TypeOK
<1>1. IInv => TypeOK
  BY DEF IInv
<1> QED BY <1>1, Invariance, PTL

(* The recursion, its fast path included, builds the graph that the project *)
(* declares, of every shape, and the graph that it lets through is acyclic. *)
THEOREM AddIsExact == Spec => []GraphExact
<1>1. IInv => GraphExact
  BY AddedAll DEF GraphExact, Added
<1> QED BY <1>1, Invariance, PTL

(* A project is refused only for a cycle or a missing transform it has.     *)
THEOREM RefusalIsJustified == Spec => []RefusalJustified
<1>1. IInv => RefusalJustified
  BY DEF IInv
<1> QED BY <1>1, Invariance, PTL

(* The driver's counters start at the number of declared dependencies.      *)
THEOREM CountersAreExact == Spec => []TemplateExact
<1>1. IInv => TemplateExact
  BY DEF IInv
<1> QED BY <1>1, Invariance, PTL

(* Ok from fetch: every node has its id and was found or prepared.          *)
THEOREM FetchIsComplete == Spec => []FetchComplete
<1>1. IInv => FetchComplete
  <2> SUFFICES ASSUME IInv, result = "ok", NEW n \in Known
               PROVE  n \in ids /\ (n \in hits <=> task[n] = "none") /\ task[n] \in {"none", "ok"}
    BY DEF FetchComplete
  <2>1. PICK i \in 1 .. Len(nodes) : n = nodes[i]
    BY DEF Known
  <2>2. nodes \in Seq(Registered) /\ Registered \subseteq Addr /\ next \in 1 .. Len(nodes) + 1
    BY GraphTypes DEF IInv, TypeOK
  <2>3. i < next /\ n \in Addr
    BY <2>1, <2>2 DEF IInv, Settled
  <2> QED BY <2>1, <2>3 DEF IInv, Settled
<1> QED BY <1>1, Invariance, PTL
=============================================================================
