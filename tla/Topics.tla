------------------------------- MODULE Topics -------------------------------
(***************************************************************************)
(* The topic tree (emcuetiti_topic.c) and the two that resolve names in it: *)
(* a client slot, for the topic of a PUBLISH and the filters of SUBSCRIBE   *)
(* and UNSUBSCRIBE (emcuetiti_client.c), and the remote port, for what the  *)
(* remote publishes (emcuetiti_port_remote.c).                              *)
(*                                                                         *)
(* A name arrives a byte at a time in a text buffer.  At each `/' the text  *)
(* so far is looked up one level further down and the buffer is emptied;    *)
(* the last part is looked up when the string ends, in a way of its own in  *)
(* each of the two.  The tree is built before the host's main loop starts   *)
(* and never changes after.  The two share only the tree, so a behaviour    *)
(* follows one of them (`who').                                             *)
(***************************************************************************)
EXTENDS Integers, FiniteSets, Sequences, SequencesExt

CONSTANTS
    Letters, \* what parts of names are made of
    Setups,  \* the lists of topics the broker may be started with
    Names,   \* the topics and filters that are asked for
    Ids,     \* the client ids of CONNECTs
    MaxFilters, \* bound: filters in one SUBSCRIBE or UNSUBSCRIBE
    Room     \* bytes of a text buffer

NULL == 0
Nul  == "0" \* the byte that ends a string in C

(* A part is a sequence of letters, a path a sequence of parts; a name is a *)
(* path, with /# after it or not.                                           *)
Parts   == Seq(Letters) \ {<<>>}

ASSUME LettersAssumption == Letters \cap {Nul, "/", "#"} = {}

(* A topic without a part adds nothing to a tree, and is left out.          *)
ASSUME InputsAssumption ==
    /\ Setups \subseteq Seq(Seq(Parts) \ {<<>>}) /\ Ids \subseteq Parts
    /\ \A n \in Names : n.path \in Seq(Parts) \ {<<>>} /\ n.wild \in BOOLEAN
    /\ MaxFilters \in Nat \ {0}

(* EMCUETITI_CONFIG_MAXTOPICPARTLEN is below EMCUETITI_CONFIG_CLIENTBUFFERSZ. *)
ASSUME RoomAssumption ==
    /\ Room \in Nat
    /\ \A path \in {n.path : n \in Names} \cup (UNION {ToSet(s) : s \in Setups}) :
           \A i \in DOMAIN path : Len(path[i]) < Room

VARIABLES
    tree,   \* the nodes, in the order they were added
    root,   \* broker->root
    setup,  \* history: the topics the broker was started with
    todo,   \* those, and the parts of the first, that are still to be added
    level,  \* the node the next part goes below, NULL at the top
    who,    \* who is followed: a client slot or the remote port
    kind,   \* the packet being read, "none" between packets
    asked,  \* history: the names in it
    strings,\* what is still to be read of them, as bytes
    text,   \* the text buffer: its memory, which is never cleared, and head
    topic,  \* the register that the string being read resolves into
    found,  \* what the strings read have resolved to
    fresh,  \* the slot's client has not sent its CONNECT yet
    longest \* history: the longest part of earlier publishes to the port

treeVars == <<tree, root, setup, todo, level>>
readVars == <<kind, asked, strings, text, topic, found>>
vars == <<treeVars, readVars, who, fresh, longest>>

-----------------------------------------------------------------------------
(* The tree.                                                                *)

(* The nodes from n along the sibling pointers.                             *)
Siblings[n \in 0..Len(tree)] ==
    IF n = NULL THEN <<>> ELSE <<n>> \o Siblings[tree[n].sibling]

First(l) == IF l = NULL THEN root ELSE tree[l].child

(* Mutant: only as much of the text is compared as the part is long.        *)
FindPrefix(l, part) ==
    LET below == Siblings[First(l)]
        i == SelectInSeq(below, LAMBDA n : IsPrefix(tree[n].part, part))
    IN  IF i = 0 THEN NULL ELSE below[i]

(* emcuetiti_findtopic: the first node below l (at the top if l is NULL)    *)
(* whose part is this text.                                                 *)
Find(l, part) ==
    LET below == Siblings[First(l)]
        i == SelectInSeq(below, LAMBDA n : tree[n].part = part)
    IN  IF i = 0 THEN NULL ELSE below[i]

AttachFirst(l, n) == [tree EXCEPT ![l].sibling = n] \* mutant: no walk to the end
Attach(l, n) == [tree EXCEPT ![Last(Siblings[l])].sibling = n]

AddTopicPart(l, part) ==
    LET new == Len(tree) + 1
        node == [part |-> part, parent |-> l, child |-> NULL, sibling |-> NULL]
    IN  /\ tree' = Append(CASE First(l) # NULL -> Attach(First(l), new)
                            [] First(l) = NULL /\ l # NULL -> [tree EXCEPT ![l].child = new]
                            [] OTHER -> tree,
                          node)
        /\ root' = IF root = NULL THEN new ELSE root

(* The path to a node, along the parent pointers.                           *)
PathOf[n \in 0..Len(tree)] ==
    IF n = NULL THEN <<>> ELSE Append(PathOf[tree[n].parent], tree[n].part)

(* emcuetiti_topic_topichandlewriter: the bytes it writes.                  *)
Written(node) ==
    LET out[n \in 1..Len(tree)] ==
            (IF tree[n].parent = NULL THEN <<>> ELSE out[tree[n].parent] \o <<"/">>)
                \o tree[n].part
    IN  out[node]

(* Mutant: the separators are not counted.                                  *)
TopicLenBare(node) ==
    LET len[n \in 1..Len(tree)] ==
            (IF tree[n].parent = NULL THEN 0 ELSE len[tree[n].parent]) + Len(tree[n].part)
    IN  len[node]

(* emcuetiti_topic_len: the length that is announced for those bytes.       *)
TopicLen(node) ==
    LET len[n \in 1..Len(tree)] ==
            (IF tree[n].parent = NULL THEN 0 ELSE len[tree[n].parent] + 1)
                + Len(tree[n].part)
    IN  len[node]

-----------------------------------------------------------------------------
(* The text buffer.                                                         *)

Emptied(b) == [b EXCEPT !.head = 0]

(* Mutant: the room that is left is not looked at.                          *)
PutUnchecked(b, c) == [mem |-> [b.mem EXCEPT ![b.head + 1] = c], head |-> b.head + 1]

(* buffers_buffer_append of one byte.                                       *)
Put(b, c) ==
    IF b.head < Room
    THEN [mem |-> [b.mem EXCEPT ![b.head + 1] = c], head |-> b.head + 1]
    ELSE b

(* What strcmp sees: the bytes from the start of the buffer to the first    *)
(* NUL.  A buffer without one is longer than any part, and matches none.    *)
CString(b) ==
    LET ends == {i \in 1..Room : b.mem[i] = Nul}
    IN  IF ends = {} THEN b.mem
        ELSE SubSeq(b.mem, 1, (CHOOSE i \in ends : \A j \in ends : i <= j) - 1)

(* emcuetiti_topic_munchtopicpart on one byte, with processtopicpart as the *)
(* processor and none for wildcards.                                        *)
Munch(b, t, c) ==
    CASE c = "/" /\ b.head > 0 ->
            LET part == Put(b, Nul) IN [text |-> Emptied(part), topic |-> Find(t, CString(part))]
      [] c = "/" /\ b.head = 0 -> [text |-> b, topic |-> t]
      [] c = "#" -> [text |-> b, topic |-> t]
      [] OTHER -> [text |-> Put(b, c), topic |-> t]

-----------------------------------------------------------------------------
Init ==
    /\ tree = <<>> /\ root = NULL
    /\ setup \in Setups /\ todo = setup /\ level = NULL
    /\ who \in {"client", "remote"}
    /\ kind = "none" /\ asked = <<>> /\ strings = <<>>
    /\ text = [mem |-> [i \in 1..Room |-> Nul], head |-> 0]
    /\ topic = NULL /\ found = <<>>
    /\ fresh = TRUE /\ longest = 0

(* One turn of broker_init_setup's inner loop: the next part of a topic is  *)
(* found where it belongs or added there, and the part after it goes below. *)
AddPart ==
    /\ todo # <<>>
    /\ LET part == Head(Head(todo))
           there == Find(level, part)
           rest == Tail(Head(todo))
       IN  /\ IF there = NULL THEN AddTopicPart(level, part)
                              ELSE UNCHANGED <<tree, root>>
           /\ IF rest = <<>>
              THEN todo' = Tail(todo) /\ level' = NULL
              ELSE /\ todo' = <<rest>> \o Tail(todo)
                   /\ level' = IF there = NULL THEN Len(tree) + 1 ELSE there
    /\ UNCHANGED <<setup, readVars, who, fresh, longest>>

(* The bytes of a name, and those of them that come after each part.        *)
BytesAfter(name) ==
    LET after[k \in 1..Len(name.path)] ==
            IF k < Len(name.path) THEN <<"/">> \o name.path[k + 1] \o after[k + 1]
            ELSE IF name.wild THEN <<"/", "#">> ELSE <<>>
    IN  after
Bytes(name) == name.path[1] \o BytesAfter(name)[1]

Starts(k, names) ==
    /\ todo = <<>> /\ kind = "none"
    /\ kind' = k
    /\ asked' = names
    /\ strings' = [i \in DOMAIN names |-> Bytes(names[i])]
    /\ UNCHANGED <<treeVars, found, who, fresh, longest>>

(* A client begins with a CONNECT, and then names topics and filters.       *)
ClientSends ==
    /\ who = "client"
    /\ IF fresh
       THEN \E id \in Ids : Starts("connect", <<[path |-> <<id>>, wild |-> FALSE]>>)
       ELSE \/ \E n \in Names : ~n.wild /\ Starts("publish", <<n>>)
            \/ \E k \in 1..MaxFilters : \E ns \in [1..k -> Names] : Starts("subunsub", ns)
    /\ UNCHANGED <<text, topic>>

(* The next byte of a string.  A client id may hold any byte.               *)
ReadByte ==
    /\ kind # "none" /\ strings # <<>> /\ Head(strings) # <<>>
    /\ LET c == Head(Head(strings))
           munched == IF kind = "connect" THEN [text |-> Put(text, c), topic |-> topic]
                                          ELSE Munch(text, topic, c)
       IN  /\ text' = munched.text
           /\ topic' = munched.topic
    /\ strings' = [strings EXCEPT ![1] = Tail(@)]
    /\ UNCHANGED <<treeVars, kind, asked, found, who, fresh, longest>>

AtEnd == strings # <<>> /\ Head(strings) = <<>>

(* statechange at the end of a client id: it is taken out of the buffer.    *)
EndClientId ==
    /\ kind = "connect" /\ AtEnd
    /\ text' = Emptied(text)
    /\ strings' = <<>>
    /\ UNCHANGED <<treeVars, kind, asked, topic, found, who, fresh, longest>>

(* statechange at the end of a topic or a filter: what is left in the       *)
(* buffer is the last part, and stays there.                                *)
EndString ==
    LET last == IF text.head > 0 THEN Put(text, Nul) ELSE text
        node == IF text.head > 0 THEN Find(topic, CString(last)) ELSE topic
    IN  /\ kind \in {"publish", "subunsub"} /\ AtEnd
        /\ text' = last
        /\ found' = Append(found, node)
        /\ topic' = NULL
        /\ strings' = Tail(strings)
        /\ UNCHANGED <<treeVars, kind, asked, who, fresh, longest>>

Between == kind' = "none" /\ asked' = <<>> /\ found' = <<>> /\ topic' = NULL

(* Mutant: the buffer is left as it is.                                     *)
HandledKeepsText ==
    /\ who = "client" /\ kind # "none" /\ strings = <<>>
    /\ Between
    /\ fresh' = FALSE
    /\ UNCHANGED <<treeVars, text, strings, who, longest>>

(* The poll handles the packet, then empties the buffer and the registers.  *)
Handled ==
    /\ who = "client" /\ kind # "none" /\ strings = <<>>
    /\ Between
    /\ text' = Emptied(text)
    /\ fresh' = FALSE
    /\ UNCHANGED <<treeVars, strings, who, longest>>

(* The client is lost and another is registered in its slot: the registers  *)
(* are zeroed, the text buffer is not touched.  It is lost between two      *)
(* packets, or inside one that the reader gives up because its read fails.  *)
(* A lease that ends inside a name is left out: then the reader is still in *)
(* that name, and the bytes of the next client go on with it (NewIsFresh).  *)
Lost ==
    /\ who = "client" /\ (kind # "none" \/ ~fresh)
    /\ Between
    /\ strings' = <<>>
    /\ fresh' = TRUE
    /\ UNCHANGED <<treeVars, text, who, longest>>

-----------------------------------------------------------------------------
(* The remote port: the reader enters TYPE, and later PUBLISH_PAYLOAD.      *)

(* Mutant: the topic of the last publish stays in the register.             *)
RemoteSendsOver ==
    /\ who = "remote"
    /\ \E n \in Names : ~n.wild /\ Starts("remote", <<n>>)
    /\ text' = Emptied(text)
    /\ UNCHANGED topic

RemoteSends ==
    /\ who = "remote"
    /\ \E n \in Names : ~n.wild /\ Starts("remote", <<n>>)
    /\ text' = Emptied(text)
    /\ topic' = NULL

(* The last part is looked up as it lies in the buffer, without a NUL       *)
(* behind it, and also when it is empty.                                    *)
RemoteEnd ==
    /\ kind = "remote" /\ AtEnd
    /\ topic' = Find(topic, CString(text))
    /\ found' = <<topic'>>
    /\ strings' = <<>>
    /\ UNCHANGED <<treeVars, kind, asked, text, who, fresh, longest>>

Lengths(path) == {Len(path[i]) : i \in DOMAIN path}

RemoteHandsOn ==
    /\ kind = "remote" /\ strings = <<>>
    /\ kind' = "none" /\ asked' = <<>> /\ found' = <<>>
    /\ longest' = Max({longest} \cup Lengths(asked[1].path))
    /\ UNCHANGED <<treeVars, strings, text, topic, who, fresh>>

Next == \/ AddPart \/ ReadByte
        \/ ClientSends \/ EndClientId \/ EndString \/ Handled \/ Lost
        \/ RemoteSends \/ RemoteEnd \/ RemoteHandsOn

Spec == Init /\ [][Next]_vars

-----------------------------------------------------------------------------
(* Properties.                                                              *)

Nodes == 1..Len(tree)
Node  == [part : Parts, parent : 0..Len(tree), child : 0..Len(tree), sibling : 0..Len(tree)]

(* Every variable has its type; the text buffer is never filled past its    *)
(* end, however many filters a packet brings into it.                       *)
TypeOK ==
    /\ \A n \in Nodes : tree[n] \in Node
    /\ {root, level, topic} \subseteq 0..Len(tree)
    /\ who \in {"client", "remote"}
    /\ kind \in {"none", "connect", "publish", "subunsub", "remote"}
    /\ asked = <<>> \/ \A i \in DOMAIN asked : asked[i].path # <<>>
    /\ Len(found) + Len(strings) <= MaxFilters
    /\ text.head \in 0..Room /\ DOMAIN text.mem = 1..Room
    /\ \A i \in DOMAIN found : found[i] \in 0..Len(tree)
    /\ fresh \in BOOLEAN /\ longest \in Nat

Known(path) == \E n \in Nodes : PathOf[n] = path

PathsTo(path) == {SubSeq(path, 1, k) : k \in 1..Len(path)}

(* Going down from the top by a path, a lookup per part.                    *)
Descend(path) ==
    LET at[k \in 0..Len(path)] == IF k = 0 THEN NULL ELSE Find(at[k - 1], path[k])
    IN  at[Len(path)]

(* addtopicpart and attach: whatever the order of the topics, every node    *)
(* stays in reach by its own path, which no other node has; and once all    *)
(* are added the paths are the topics asked for and what leads to them.     *)
TreeSound ==
    /\ \A n \in Nodes : Descend(PathOf[n]) = n
    /\ todo = <<>> =>
        {PathOf[n] : n \in Nodes} = UNION {PathsTo(setup[i]) : i \in DOMAIN setup}

(* A topic published to, or the first filter of a packet, that names a      *)
(* topic of the broker resolves to that topic: whatever was in the text     *)
(* buffer before, and whoever had the slot.  (The filters after the first   *)
(* are ExistingNotRefused's.)                                               *)
KnownTopicResolves ==
    kind \in {"publish", "subunsub"} /\ found # <<>> /\ Known(asked[1].path)
        => found[1] # NULL /\ PathOf[found[1]] = asked[1].path

(* What a name resolves to at all is a topic whose path it ends with: a     *)
(* part that is not found makes the next one start again at the top, but no *)
(* topic is reached by text that is not its own.                            *)
NothingInvented ==
    kind \in {"publish", "subunsub"} /\ found # <<>> /\ found[1] # NULL
        => IsSuffix(PathOf[found[1]], asked[1].path)

(* What construct_publish writes for a topic is as long as it announces,    *)
(* and a reader with the same tree resolves it to the same topic.           *)
NameRoundTrip ==
    \A n \in Nodes :
        LET read[k \in 0..Len(Written(n))] ==
                IF k = 0 THEN [text |-> [mem |-> [i \in 1..Room |-> Nul], head |-> 0], topic |-> NULL]
                ELSE Munch(read[k - 1].text, read[k - 1].topic, Written(n)[k])
            end == read[Len(Written(n))]
        IN  /\ Len(Written(n)) = TopicLen(n)
            /\ Find(end.topic, CString(Put(end.text, Nul))) = n

(* A publish of the remote on a topic of the broker resolves to that topic, *)
(* as long as its last part is not shorter than a part that came before it, *)
(* in this publish or an earlier one, and left its end in the buffer.       *)
RemoteResolves ==
    kind = "remote" /\ found # <<>> /\ Known(asked[1].path) =>
        LET path == asked[1].path IN
        (\A i \in DOMAIN path : Len(path[i]) <= Len(Last(path))) /\ longest <= Len(Last(path))
            => found[1] # NULL /\ PathOf[found[1]] = path

-----------------------------------------------------------------------------
(* What the repository says and the code does not do.                       *)

(* BaseMQTTTest.java:188: no filter of a SUBSCRIBE to topics the broker has *)
(* is answered 0x80, which is the answer to one that resolved to NULL.      *)
ExistingNotRefused ==
    kind = "subunsub" /\ (\A i \in DOMAIN asked : Known(asked[i].path)) =>
        \A i \in DOMAIN found : found[i] # NULL

-----------------------------------------------------------------------------
(* Inductive invariants: what the properties above rest on.                 *)

(* Nodes are added after those they hang on, so a parent is an earlier node *)
(* and a child or a sibling a later one; every node hangs on one; siblings  *)
(* have different parts.                                                    *)
Shape ==
    /\ tree \in Seq([part : Parts, parent : Nat, child : Nat, sibling : Nat])
    /\ root = IF tree = <<>> THEN NULL ELSE 1
    /\ \A n \in Nodes :
          LET node == tree[n] IN
          /\ node.parent < n
          /\ node.child # NULL => /\ n < node.child /\ node.child \in Nodes
                                  /\ tree[node.child].parent = n
          /\ node.sibling # NULL => /\ n < node.sibling /\ node.sibling \in Nodes
                                    /\ tree[node.sibling].parent = node.parent
          /\ n = First(node.parent) \/ \E m \in Nodes : tree[m].sibling = n
    /\ \A m, n \in Nodes :
          tree[m].parent = tree[n].parent /\ tree[m].part = tree[n].part => m = n

(* How far the topics of the setup have been added.                         *)
Done == Len(setup) - Len(todo)

Building ==
    /\ setup \in Setups
    /\ todo \in Seq(Seq(Parts) \ {<<>>}) /\ Len(todo) <= Len(setup)
    /\ level \in 0..Len(tree) /\ (todo = <<>> => level = NULL)
    /\ todo # <<>> => setup[Done + 1] = PathOf[level] \o Head(todo)
    /\ \A k \in 2..Len(todo) : todo[k] = setup[Done + k]
    /\ {PathOf[n] : n \in Nodes} =
          (UNION {PathsTo(setup[i]) : i \in 1..Done}) \cup PathsTo(PathOf[level])

(* What is read has all but these bytes of a name behind it: the buffer     *)
(* holds what has come of a part, the register where the parts before lead. *)
Midway(name, rest, b, t) ==
    \/ \E j \in DOMAIN name.path : \E o \in 0..Len(name.path[j]) :
          /\ rest = SubSeq(name.path[j], o + 1, Len(name.path[j])) \o BytesAfter(name)[j]
          /\ b.head = o /\ \A k \in 1..o : b.mem[k] = name.path[j][k]
          /\ t = Descend(SubSeq(name.path, 1, j - 1))
    \/ /\ name.wild /\ rest \in {<<"#">>, <<>>}
       /\ b.head = 0 /\ t = Descend(name.path)

Chars == Letters \cup {Nul, "/", "#"}

ReadTypes ==
    /\ who \in {"client", "remote"} /\ fresh \in BOOLEAN /\ longest \in Nat
    /\ kind \in IF who = "client" THEN {"none", "connect", "publish", "subunsub"}
                                  ELSE {"none", "remote"}
    /\ text \in [mem : [1..Room -> Chars], head : 0..Room]
    /\ strings \in Seq(Seq(Chars))
    /\ topic \in 0..Len(tree) /\ found \in Seq(0..Len(tree))
    /\ todo # <<>> => kind = "none" /\ topic = NULL

(* The names of the packet are asked for one after the other.               *)
Asking ==
    /\ kind = "none" => asked = <<>> /\ strings = <<>> /\ found = <<>>
    /\ kind = "connect" => /\ DOMAIN asked = {1} /\ asked[1].path # <<>>
                           /\ Len(strings) <= 1 /\ found = <<>>
    /\ kind \in {"publish", "subunsub", "remote"} =>
          /\ asked \in Seq(Names) /\ Len(asked) \in 1..MaxFilters
          /\ Len(found) + Len(strings) = Len(asked)
    /\ kind \in {"publish", "remote"} => Len(asked) = 1
    /\ kind = "remote" => ~asked[1].wild

(* The first name of a packet, and any name for the remote port, is         *)
(* resolved part by part from the top.                                      *)
Resolving ==
    /\ who = "client" /\ kind \in {"none", "connect"} => topic = NULL
    /\ who = "client" /\ kind = "none" /\ ~fresh => text.head = 0
    /\ kind \in {"publish", "subunsub", "remote"} /\ found = <<>> =>
          Midway(asked[1], Head(strings), text, topic)
    /\ kind \in {"publish", "subunsub"} /\ found # <<>> => found[1] = Descend(asked[1].path)
    /\ kind = "remote" /\ found # <<>> =>
          LET last == Len(Last(asked[1].path)) IN
          (\A n \in Lengths(asked[1].path) \cup {longest} : n <= last)
              => found[1] = Descend(asked[1].path)

(* What the remote port's buffer still holds of earlier parts.              *)
LeftOver ==
    who = "remote" =>
        \A k \in 1..Room : text.mem[k] # Nul =>
            k <= longest \/ (kind = "remote" /\ \E n \in Lengths(asked[1].path) : k <= n)

TopicsInv == Shape /\ Building /\ ReadTypes /\ Asking /\ Resolving /\ LeftOver

=============================================================================
