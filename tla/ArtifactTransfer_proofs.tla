------------------------ MODULE ArtifactTransfer_proofs ------------------------
(* The artifacts of a run on their way to the Agents, for any artifacts,       *)
(* sizes, requests and any number of faults and reconnects: what is prepared   *)
(* has the bytes of its rows, and an Agent ends its connection only for cause. *)
EXTENDS ArtifactTransfer, TLAPS

(* Positions in a connection's stream: s is what it holds, and position i of   *)
(* it is looked at before the message there, if there is one, is received.     *)
IsChunk(m, a) == m.what = "chunk" /\ m.art = a
NoneBefore(s, i, a) == \A j \in 1 .. Len(s) : j < i => ~IsChunk(s[j], a)
LastBefore(s, i, j, a) ==
  /\ j \in 1 .. Len(s) /\ j < i
  /\ IsChunk(s[j], a)
  /\ \A l \in 1 .. Len(s) : j < l /\ l < i => ~IsChunk(s[l], a)

(* No transfer of a is under way once the messages before i are received: t    *)
(* is the transfer in progress before them.                                    *)
SettledAt(s, i, a, t) ==
  /\ NoneBefore(s, i, a) => t = None
  /\ \A j \in 1 .. Len(s) : LastBefore(s, i, j, a) => s[j].eof

(* A chunk of a at offset off, received after the messages before i, continues *)
(* the transfer, starts one, or is one of an artifact that is complete.        *)
ReadyAt(s, i, a, t, c, off) ==
  /\ NoneBefore(s, i, a) => c # "none" \/ off = (IF t = None THEN 0 ELSE t.got)
  /\ \A j \in 1 .. Len(s) :
       LastBefore(s, i, j, a) => s[j].eof \/ off = s[j].off + s[j].len

(* A transfer of a was begun, or was finished, once the messages before i are  *)
(* received.                                                                   *)
BegunAt(s, i, a, t, c) ==
  c # "none" \/ t # None \/ \E j \in 1 .. Len(s) : j < i /\ IsChunk(s[j], a)
CompleteAt(s, i, a, c) ==
  c # "none" \/ \E j \in 1 .. Len(s) : j < i /\ IsChunk(s[j], a) /\ s[j].eof

-----------------------------------------------------------------------------
(* The inductive invariant *)

Active == {"find", "chunk", "prepare", "wait"}

(* A start that is under way holds the mutex.                                  *)
HolderOnly == \A q \in Req : req[q].pc \in Active => lock = q

(* Where a start stands in the file it sends, and to whom.                     *)
Position ==
  \A q \in Req :
    /\ req[q].pc \in {"find", "chunk"} => req[q].ix \in 1 .. Len(Sends)
    /\ req[q].pc = "chunk" => req[q].art \in Artifact /\ req[q].off <= Size[req[q].art]
    /\ req[q].pc = "idle" => req[q].ix = 1
    /\ \A g \in Agent : req[q].gens[g] <= link[g].gen

(* A broken connection holds nothing.                                          *)
DownIsEmpty ==
  \A g \in Agent : ~link[g].up =>
    link[g].msgs = << >> /\ incoming[g] = NoTransfers /\ completed[g] = NothingYet

(* What was verified is what the row says, and is not being received again.    *)
VerifiedIsGood ==
  \A g \in Agent, a \in Artifact :
    /\ completed[g][a] # "bad"
    /\ completed[g][a] # "none" => incoming[g][a] = None

OnlyLongIsCut == \A a \in Artifact : damage[a] = "short" => Size[a] > 0

(* A chunk lies within its file, is the last where the file ends, and differs  *)
(* from the file's bytes only if those were changed.                           *)
SoundChunk(m) ==
  /\ m.off + m.len <= Size[m.art]
  /\ m.eof <=> m.off + m.len = Size[m.art]
  /\ ~m.good => damage[m.art] = "changed"
SoundStream ==
  \A g \in Agent : \A i \in 1 .. Len(link[g].msgs) :
    link[g].msgs[i].what = "chunk" => SoundChunk(link[g].msgs[i])
SoundTransfer ==
  \A g \in Agent, a \in Artifact :
    incoming[g][a] # None /\ ~incoming[g][a].good => damage[a] = "changed"

(* The first connection of an Agent knows the files it has written.            *)
FirstKnowsItsFiles ==
  \A g \in Agent : link[g].gen = 1 /\ link[g].up =>
    \A a \in parts[g] : incoming[g][a] # None \/ completed[g][a] # "none"

(* The start that sends artifact a to g over g's present connection.           *)
Reaches(q, g) == Current(q, g) /\ link[g].up
Sending(q, g, a) ==
  /\ req[q].pc = "chunk" /\ Sends[req[q].ix] = g /\ req[q].art = a
  /\ Reaches(q, g)

(* No chunk but the first of a file is sent without those before it.           *)
SkipsNone(g, a) ==
  LET s == link[g].msgs
  IN /\ \A i \in 1 .. Len(s) :
          IsChunk(s[i], a) /\ s[i].off > 0
            => BegunAt(s, i, a, incoming[g][a], completed[g][a])
     /\ \A q \in Req :
          Sending(q, g, a) /\ req[q].off > 0
            => BegunAt(s, Len(s) + 1, a, incoming[g][a], completed[g][a])
NoneIsSkipped == \A g \in Agent, a \in Artifact : SkipsNone(g, a)

(* The artifacts a start has sent to g so far.                                 *)
SentTo(q, g) ==
  IF req[q].pc \in {"prepare", "wait"} THEN Needs[q]
  ELSE IF req[q].pc \in {"find", "chunk"}
       THEN IF \E k \in 1 .. Len(Sends) : k < req[q].ix /\ Sends[k] = g THEN Needs[q]
            ELSE IF Sends[req[q].ix] = g THEN Needs[q] \ req[q].todo ELSE {}
       ELSE {}

(* Prepare is sent after the whole of every artifact it needs.                 *)
PreparesLast(g, a) ==
  LET s == link[g].msgs
  IN /\ \A i \in 1 .. Len(s) :
          s[i].what = "prepare" /\ a \in Needs[s[i].req]
            => CompleteAt(s, i, a, completed[g][a])
     /\ \A q \in Req :
          a \in SentTo(q, g) /\ Reaches(q, g)
            => CompleteAt(s, Len(s) + 1, a, completed[g][a])
PrepareComesLast == \A g \in Agent, a \in Artifact : PreparesLast(g, a)

(* A start of this connection was given up.                                    *)
Abandoned(g) ==
  \E q \in Req : req[q].pc \in {"failed", "dropped"} /\ req[q].gens[g] = link[g].gen

(* On a connection that no start gave up, every transfer is continued where it *)
(* was left, and none is under way when Prepare arrives.                       *)
Ordered(g, a) ==
  LET s == link[g].msgs
      t == incoming[g][a]
      c == completed[g][a]
  IN /\ \A i \in 1 .. Len(s) :
          /\ IsChunk(s[i], a) => ReadyAt(s, i, a, t, c, s[i].off)
          /\ s[i].what = "prepare" => SettledAt(s, i, a, t)
     /\ \A q \in Req : Sending(q, g, a) => ReadyAt(s, Len(s) + 1, a, t, c, req[q].off)
     /\ (\A q \in Req : Sending(q, g, a) => req[q].off = 0)
          => SettledAt(s, Len(s) + 1, a, t)
InOrder == \A g \in Agent, a \in Artifact : ~Abandoned(g) => Ordered(g, a)

IInv ==
  /\ TypeOK
  /\ HolderOnly /\ Position /\ OnlyLongIsCut
  /\ DownIsEmpty /\ VerifiedIsGood
  /\ SoundStream /\ SoundTransfer /\ FirstKnowsItsFiles
  /\ NoneIsSkipped /\ PrepareComesLast /\ InOrder
  /\ PreparedWithItsBytes /\ BailsOnlyForCause
-----------------------------------------------------------------------------
(* Positions of a stream that a message is appended to or taken from *)

LEMMA TailFacts ==
  ASSUME NEW S, NEW s \in Seq(S), s # << >>
  PROVE  /\ Tail(s) \in Seq(S) /\ Len(s) \in Nat \ {0} /\ Len(Tail(s)) = Len(s) - 1
         /\ \A i \in 1 .. Len(s) - 1 : Tail(s)[i] = s[i + 1]
         /\ Head(s) = s[1] /\ s[1] \in S
OBVIOUS

LEMMA AppendFacts ==
  ASSUME NEW S, NEW s \in Seq(S), NEW m \in S
  PROVE  /\ Append(s, m) \in Seq(S) /\ Len(s) \in Nat /\ Len(Append(s, m)) = Len(s) + 1
         /\ \A i \in 1 .. Len(s) : Append(s, m)[i] = s[i]
         /\ Append(s, m)[Len(s) + 1] = m
OBVIOUS

LEMMA AppendKeeps ==
  ASSUME NEW s \in Seq(Message), NEW m \in Message, NEW a, NEW t, NEW c, NEW off,
         NEW i \in 1 .. Len(s) + 1
  PROVE  /\ SettledAt(s, i, a, t) => SettledAt(Append(s, m), i, a, t)
         /\ ReadyAt(s, i, a, t, c, off) => ReadyAt(Append(s, m), i, a, t, c, off)
         /\ BegunAt(s, i, a, t, c) => BegunAt(Append(s, m), i, a, t, c)
         /\ CompleteAt(s, i, a, c) => CompleteAt(Append(s, m), i, a, c)
<1> DEFINE r == Append(s, m)
<1>1. /\ r \in Seq(Message) /\ Len(s) \in Nat /\ Len(r) = Len(s) + 1
      /\ \A k \in 1 .. Len(s) : r[k] = s[k]
  BY AppendFacts
<1> HIDE DEF r
<1>2. NoneBefore(r, i, a) => NoneBefore(s, i, a)
  BY <1>1 DEF NoneBefore
<1>3. \A j \in 1 .. Len(r) :
        LastBefore(r, i, j, a) => j \in 1 .. Len(s) /\ LastBefore(s, i, j, a) /\ r[j] = s[j]
  BY <1>1 DEF LastBefore
<1>4. SettledAt(s, i, a, t) => SettledAt(r, i, a, t)
  BY <1>2, <1>3 DEF SettledAt
<1>5. ReadyAt(s, i, a, t, c, off) => ReadyAt(r, i, a, t, c, off)
  BY <1>2, <1>3 DEF ReadyAt
<1>6. /\ BegunAt(s, i, a, t, c) => BegunAt(r, i, a, t, c)
      /\ CompleteAt(s, i, a, c) => CompleteAt(r, i, a, c)
  BY <1>1 DEF BegunAt, CompleteAt
<1> QED  BY <1>4, <1>5, <1>6 DEF r

(* What the last message of a stream leaves behind it.                         *)
LEMMA AppendEnds ==
  ASSUME NEW s \in Seq(Message), NEW m \in Message, NEW a, NEW t, NEW c
  PROVE  /\ SettledAt(s, Len(s) + 1, a, t) /\ ~IsChunk(m, a)
              => SettledAt(Append(s, m), Len(Append(s, m)) + 1, a, t)
         /\ IsChunk(m, a) /\ m.eof => SettledAt(Append(s, m), Len(Append(s, m)) + 1, a, t)
         /\ IsChunk(m, a)
              => ReadyAt(Append(s, m), Len(Append(s, m)) + 1, a, t, c, m.off + m.len)
         /\ BegunAt(s, Len(s) + 1, a, t, c) \/ IsChunk(m, a)
              => BegunAt(Append(s, m), Len(Append(s, m)) + 1, a, t, c)
         /\ CompleteAt(s, Len(s) + 1, a, c) \/ (IsChunk(m, a) /\ m.eof)
              => CompleteAt(Append(s, m), Len(Append(s, m)) + 1, a, c)
<1> DEFINE r == Append(s, m)
           n == Len(s) + 1
<1>1. /\ r \in Seq(Message) /\ Len(s) \in Nat /\ Len(r) = n /\ r[n] = m
      /\ \A k \in 1 .. Len(s) : r[k] = s[k]
  BY AppendFacts
<1> HIDE DEF r
<1>2. ASSUME ~IsChunk(m, a)
      PROVE  /\ NoneBefore(r, n + 1, a) => NoneBefore(s, n, a)
             /\ \A j \in 1 .. Len(r) : LastBefore(r, n + 1, j, a) =>
                  j \in 1 .. Len(s) /\ LastBefore(s, n, j, a) /\ r[j] = s[j]
  BY <1>1, <1>2 DEF NoneBefore, LastBefore
<1>3. ASSUME IsChunk(m, a)
      PROVE  /\ ~NoneBefore(r, n + 1, a)
             /\ \A j \in 1 .. Len(r) : LastBefore(r, n + 1, j, a) => r[j] = m
  BY <1>1, <1>3 DEF NoneBefore, LastBefore
<1>4. SettledAt(s, n, a, t) /\ ~IsChunk(m, a) => SettledAt(r, n + 1, a, t)
  BY <1>2 DEF SettledAt
<1>5. IsChunk(m, a) /\ m.eof => SettledAt(r, n + 1, a, t)
  BY <1>3 DEF SettledAt
<1>6. IsChunk(m, a) => ReadyAt(r, n + 1, a, t, c, m.off + m.len)
  BY <1>3 DEF ReadyAt
<1>7. BegunAt(s, n, a, t, c) \/ IsChunk(m, a) => BegunAt(r, n + 1, a, t, c)
  BY <1>1 DEF BegunAt
<1>8. CompleteAt(s, n, a, c) \/ (IsChunk(m, a) /\ m.eof) => CompleteAt(r, n + 1, a, c)
  BY <1>1 DEF CompleteAt
<1> QED  BY <1>1, <1>4, <1>5, <1>6, <1>7, <1>8 DEF r

(* What receiving the chunk m does to the transfer of artifact a: t and c      *)
(* become u and d.                                                             *)
Receives(m, a, t, c, u, d) ==
  \/ ~IsChunk(m, a) /\ u = t /\ d = c
  \/ IsChunk(m, a) /\ c # "none" /\ t = None /\ u = t /\ d = c
  \/ /\ IsChunk(m, a) /\ c = "none" /\ ~m.eof
     /\ u # None /\ u.got = m.off + m.len /\ d = c
  \/ IsChunk(m, a) /\ c = "none" /\ m.eof /\ u = None /\ d # "none"

LEMMA TailKeeps ==
  ASSUME NEW s \in Seq(Message), s # << >>, NEW a, NEW t, NEW c, NEW u, NEW d, NEW off,
         NEW i \in 1 .. Len(s), Receives(s[1], a, t, c, u, d)
  PROVE  /\ SettledAt(s, i + 1, a, t) => SettledAt(Tail(s), i, a, u)
         /\ ReadyAt(s, i + 1, a, t, c, off) => ReadyAt(Tail(s), i, a, u, d, off)
         /\ BegunAt(s, i + 1, a, t, c) => BegunAt(Tail(s), i, a, u, d)
         /\ CompleteAt(s, i + 1, a, c) => CompleteAt(Tail(s), i, a, d)
<1> DEFINE r == Tail(s)
<1>1. /\ r \in Seq(Message) /\ Len(s) \in Nat \ {0} /\ Len(r) = Len(s) - 1
      /\ \A k \in 1 .. Len(r) : r[k] = s[k + 1]
  BY TailFacts
<1> HIDE DEF r
<1>2. ASSUME NoneBefore(r, i, a)
      PROVE  IF IsChunk(s[1], a) THEN LastBefore(s, i + 1, 1, a) ELSE NoneBefore(s, i + 1, a)
  <2>1. \A k \in 1 .. Len(s) : k < i + 1 /\ k # 1 => ~IsChunk(s[k], a)
    <3> SUFFICES ASSUME NEW k \in 1 .. Len(s), k < i + 1, k # 1 PROVE ~IsChunk(s[k], a)
      OBVIOUS
    <3>1. k - 1 \in 1 .. Len(r) /\ k - 1 < i /\ r[k - 1] = s[k]
      BY <1>1
    <3> QED  BY <3>1, <1>2 DEF NoneBefore
  <2> QED  BY <1>1, <2>1 DEF LastBefore, NoneBefore
<1>3. \A j \in 1 .. Len(r) : LastBefore(r, i, j, a) =>
        j + 1 \in 1 .. Len(s) /\ LastBefore(s, i + 1, j + 1, a) /\ r[j] = s[j + 1]
  <2> SUFFICES ASSUME NEW j \in 1 .. Len(r), LastBefore(r, i, j, a)
               PROVE  j + 1 \in 1 .. Len(s) /\ LastBefore(s, i + 1, j + 1, a) /\ r[j] = s[j + 1]
    OBVIOUS
  <2>1. ASSUME NEW l \in 1 .. Len(s), j + 1 < l, l < i + 1 PROVE ~IsChunk(s[l], a)
    <3>1. l - 1 \in 1 .. Len(r) /\ j < l - 1 /\ l - 1 < i /\ r[l - 1] = s[l]
      BY <1>1, <2>1
    <3> QED  BY <3>1 DEF LastBefore
  <2> QED  BY <1>1, <2>1 DEF LastBefore
<1>4. SettledAt(s, i + 1, a, t) => SettledAt(r, i, a, u)
  BY <1>1, <1>2, <1>3 DEF SettledAt, Receives
<1>5. ReadyAt(s, i + 1, a, t, c, off) => ReadyAt(r, i, a, u, d, off)
  BY <1>1, <1>2, <1>3 DEF ReadyAt, Receives
<1>6. \A j \in 1 .. Len(s) : j < i + 1 =>
        j = 1 \/ (j - 1 \in 1 .. Len(r) /\ j - 1 < i /\ r[j - 1] = s[j])
  BY <1>1
<1>7. BegunAt(s, i + 1, a, t, c) => BegunAt(r, i, a, u, d)
  BY <1>6 DEF BegunAt, Receives
<1>8. CompleteAt(s, i + 1, a, c) => CompleteAt(r, i, a, d)
  BY <1>6 DEF CompleteAt, Receives
<1> QED  BY <1>4, <1>5, <1>7, <1>8 DEF r

-----------------------------------------------------------------------------
(* Types *)

LEMMA TypeInit == Init => TypeOK
BY TransferAssumption DEF Init, TypeOK, Request, Pc, Role, Link, Fresh, Unstarted,
   NoTransfers, NothingYet

LEMMA SendsCount == Len(Sends) \in Nat /\ Len(Sends) >= 1 /\ Len(Sends) <= 2
BY DEF Sends

LEMMA SendsFacts ==
  /\ Len(Sends) \in 1 .. 2
  /\ \A k \in 1 .. Len(Sends) : Sends[k] \in Agent
  /\ \A g \in Agent : \E k \in 1 .. Len(Sends) : Sends[k] = g
  /\ \A j, k \in 1 .. Len(Sends) : Sends[j] = Sends[k] => j = k
  /\ \A k \in Role : Endpoint(k) \in Agent
<1>1. CASE Client = Server
  BY <1>1 DEF Sends, Agent, Endpoint, Role
<1>2. CASE Client # Server
  BY <1>2 DEF Sends, Agent, Endpoint, Role
<1> QED  BY <1>1, <1>2

(* The record of one start changes, the others stand where they were.          *)
Becomes(q, pc, ix, todo, art, off, gens) ==
  /\ req' \in [Req -> Request]
  /\ \A p \in Req \ {q} : req'[p] = req[p]
  /\ req'[q].pc = pc /\ req'[q].ix = ix /\ req'[q].todo = todo
  /\ req'[q].art = art /\ req'[q].off = off /\ req'[q].gens = gens

LEMMA NewPc ==
  ASSUME req \in [Req -> Request], NEW q \in Req, NEW x \in Pc
  PROVE  req' = [req EXCEPT ![q].pc = x]
           => Becomes(q, x, req[q].ix, req[q].todo, req[q].art, req[q].off, req[q].gens)
<1> DEFINE r == [req[q] EXCEPT !.pc = x]
<1>1. r \in Request
  BY DEF Request
<1>2. /\ r.pc = x /\ r.ix = req[q].ix /\ r.todo = req[q].todo
      /\ r.art = req[q].art /\ r.off = req[q].off /\ r.gens = req[q].gens
  BY DEF Request
<1>3. req' = [req EXCEPT ![q].pc = x]
        => req' = [req EXCEPT ![q] = r]
  OBVIOUS
<1> HIDE DEF r
<1>4. req' = [req EXCEPT ![q] = r]
        => Becomes(q, x, req[q].ix, req[q].todo, req[q].art, req[q].off, req[q].gens)
  BY <1>1, <1>2 DEF Becomes
<1> QED  BY <1>3, <1>4

LEMMA NewStart ==
  ASSUME req \in [Req -> Request], NEW q \in Req, NEW x \in Pc, NEW t \in SUBSET Artifact, NEW n \in [Agent -> 0 .. MaxGen]
  PROVE  req' = [req EXCEPT ![q].pc = x, ![q].todo = t, ![q].gens = n]
           => Becomes(q, x, req[q].ix, t, req[q].art, req[q].off, n)
<1> DEFINE r == [req[q] EXCEPT !.pc = x, !.todo = t, !.gens = n]
<1>1. r \in Request
  BY DEF Request
<1>2. /\ r.pc = x /\ r.ix = req[q].ix /\ r.todo = t
      /\ r.art = req[q].art /\ r.off = req[q].off /\ r.gens = n
  BY DEF Request
<1>3. req' = [req EXCEPT ![q].pc = x, ![q].todo = t, ![q].gens = n]
        => req' = [req EXCEPT ![q] = r]
  OBVIOUS
<1> HIDE DEF r
<1>4. req' = [req EXCEPT ![q] = r]
        => Becomes(q, x, req[q].ix, t, req[q].art, req[q].off, n)
  BY <1>1, <1>2 DEF Becomes
<1> QED  BY <1>3, <1>4

LEMMA NewChunk ==
  ASSUME req \in [Req -> Request], NEW q \in Req, NEW x \in Pc, NEW a \in Artifact \cup {None}, NEW o \in Nat
  PROVE  req' = [req EXCEPT ![q].pc = x, ![q].art = a, ![q].off = o]
           => Becomes(q, x, req[q].ix, req[q].todo, a, o, req[q].gens)
<1> DEFINE r == [req[q] EXCEPT !.pc = x, !.art = a, !.off = o]
<1>1. r \in Request
  BY DEF Request
<1>2. /\ r.pc = x /\ r.ix = req[q].ix /\ r.todo = req[q].todo
      /\ r.art = a /\ r.off = o /\ r.gens = req[q].gens
  BY DEF Request
<1>3. req' = [req EXCEPT ![q].pc = x, ![q].art = a, ![q].off = o]
        => req' = [req EXCEPT ![q] = r]
  OBVIOUS
<1> HIDE DEF r
<1>4. req' = [req EXCEPT ![q] = r]
        => Becomes(q, x, req[q].ix, req[q].todo, a, o, req[q].gens)
  BY <1>1, <1>2 DEF Becomes
<1> QED  BY <1>3, <1>4

LEMMA NewEndpoint ==
  ASSUME req \in [Req -> Request], NEW q \in Req, NEW i \in Role, NEW t \in SUBSET Artifact
  PROVE  req' = [req EXCEPT ![q].ix = i, ![q].todo = t]
           => Becomes(q, req[q].pc, i, t, req[q].art, req[q].off, req[q].gens)
<1> DEFINE r == [req[q] EXCEPT !.ix = i, !.todo = t]
<1>1. r \in Request
  BY DEF Request
<1>2. /\ r.pc = req[q].pc /\ r.ix = i /\ r.todo = t
      /\ r.art = req[q].art /\ r.off = req[q].off /\ r.gens = req[q].gens
  BY DEF Request
<1>3. req' = [req EXCEPT ![q].ix = i, ![q].todo = t]
        => req' = [req EXCEPT ![q] = r]
  OBVIOUS
<1> HIDE DEF r
<1>4. req' = [req EXCEPT ![q] = r]
        => Becomes(q, req[q].pc, i, t, req[q].art, req[q].off, req[q].gens)
  BY <1>1, <1>2 DEF Becomes
<1> QED  BY <1>3, <1>4

LEMMA NewTurn ==
  ASSUME req \in [Req -> Request], NEW q \in Req, NEW x \in Pc, NEW i \in Role
  PROVE  req' = [req EXCEPT ![q].pc = x, ![q].ix = i]
           => Becomes(q, x, i, req[q].todo, req[q].art, req[q].off, req[q].gens)
<1> DEFINE r == [req[q] EXCEPT !.pc = x, !.ix = i]
<1>1. r \in Request
  BY DEF Request
<1>2. /\ r.pc = x /\ r.ix = i /\ r.todo = req[q].todo
      /\ r.art = req[q].art /\ r.off = req[q].off /\ r.gens = req[q].gens
  BY DEF Request
<1>3. req' = [req EXCEPT ![q].pc = x, ![q].ix = i]
        => req' = [req EXCEPT ![q] = r]
  OBVIOUS
<1> HIDE DEF r
<1>4. req' = [req EXCEPT ![q] = r]
        => Becomes(q, x, i, req[q].todo, req[q].art, req[q].off, req[q].gens)
  BY <1>1, <1>2 DEF Becomes
<1> QED  BY <1>3, <1>4

LEMMA NewOffset ==
  ASSUME req \in [Req -> Request], NEW q \in Req, NEW o \in Nat
  PROVE  req' = [req EXCEPT ![q].off = o]
           => Becomes(q, req[q].pc, req[q].ix, req[q].todo, req[q].art, o, req[q].gens)
<1> DEFINE r == [req[q] EXCEPT !.off = o]
<1>1. r \in Request
  BY DEF Request
<1>2. /\ r.pc = req[q].pc /\ r.ix = req[q].ix /\ r.todo = req[q].todo
      /\ r.art = req[q].art /\ r.off = o /\ r.gens = req[q].gens
  BY DEF Request
<1>3. req' = [req EXCEPT ![q].off = o]
        => req' = [req EXCEPT ![q] = r]
  OBVIOUS
<1> HIDE DEF r
<1>4. req' = [req EXCEPT ![q] = r]
        => Becomes(q, req[q].pc, req[q].ix, req[q].todo, req[q].art, o, req[q].gens)
  BY <1>1, <1>2 DEF Becomes
<1> QED  BY <1>3, <1>4

LEMMA NewLast ==
  ASSUME req \in [Req -> Request], NEW q \in Req, NEW x \in Pc, NEW t \in SUBSET Artifact, NEW a \in Artifact \cup {None}, NEW o \in Nat
  PROVE  req' = [req EXCEPT ![q].pc = x, ![q].todo = t, ![q].art = a, ![q].off = o]
           => Becomes(q, x, req[q].ix, t, a, o, req[q].gens)
<1> DEFINE r == [req[q] EXCEPT !.pc = x, !.todo = t, !.art = a, !.off = o]
<1>1. r \in Request
  BY DEF Request
<1>2. /\ r.pc = x /\ r.ix = req[q].ix /\ r.todo = t
      /\ r.art = a /\ r.off = o /\ r.gens = req[q].gens
  BY DEF Request
<1>3. req' = [req EXCEPT ![q].pc = x, ![q].todo = t, ![q].art = a, ![q].off = o]
        => req' = [req EXCEPT ![q] = r]
  OBVIOUS
<1> HIDE DEF r
<1>4. req' = [req EXCEPT ![q] = r]
        => Becomes(q, x, req[q].ix, t, a, o, req[q].gens)
  BY <1>1, <1>2 DEF Becomes
<1> QED  BY <1>3, <1>4

-----------------------------------------------------------------------------
(* Control's own steps: nothing is sent *)

(* What a start does without sending.                                          *)
Begins(q) ==
  /\ req[q].pc = "idle" /\ lock = None /\ lock' = q
  /\ Becomes(q, "find", req[q].ix, Needs[q], req[q].art, req[q].off,
             [g \in Agent |-> link[g].gen])
Takes(q, a) ==
  /\ req[q].pc = "find" /\ a \in req[q].todo /\ lock' = lock
  /\ Becomes(q, "chunk", req[q].ix, req[q].todo, a, 0, req[q].gens)
TurnsToServer(q) ==
  /\ req[q].pc = "find" /\ req[q].todo = {} /\ req[q].ix < Len(Sends) /\ lock' = lock
  /\ Becomes(q, "find", req[q].ix + 1, Needs[q], req[q].art, req[q].off, req[q].gens)
HasSentAll(q) ==
  /\ req[q].pc = "find" /\ req[q].todo = {} /\ req[q].ix = Len(Sends) /\ lock' = lock
  /\ Becomes(q, "prepare", 1, req[q].todo, req[q].art, req[q].off, req[q].gens)
GoesOn(q) ==
  /\ req[q].pc = "wait" /\ lock' = lock
  /\ Becomes(q, "prepare", 2, req[q].todo, req[q].art, req[q].off, req[q].gens)
Finishes(q, pc) ==
  /\ req[q].pc \in Active /\ lock' = None
  /\ pc \in {"done", "failed", "dropped"} /\ (pc = "done" => req[q].pc = "wait")
  /\ Becomes(q, pc, req[q].ix, req[q].todo, req[q].art, req[q].off, req[q].gens)

ControlStep(q) ==
  \/ Begins(q) \/ (\E a \in Artifact : Takes(q, a)) \/ TurnsToServer(q)
  \/ HasSentAll(q) \/ GoesOn(q) \/ (\E pc \in Pc : Finishes(q, pc))

LEMMA ControlSteps ==
  ASSUME TypeOK, Position, NEW q \in Req,
         \/ StartBegin(q) \/ FindArtifact(q) \/ SendFails(q)
         \/ Acknowledged(q) \/ AckTimesOut(q) \/ RequestDropped(q)
  PROVE  /\ ControlStep(q)
         /\ replies' \subseteq Req \X Role /\ faults' \in 0 .. MaxFaults
         /\ UNCHANGED <<damage, link, session>>
<1>0. /\ req \in [Req -> Request] /\ req[q] \in Request
      /\ replies \subseteq Req \X Role /\ faults \in 0 .. MaxFaults
  BY DEF TypeOK
<1>a. /\ req[q].ix \in Role /\ req[q].todo \in SUBSET Artifact
      /\ req[q].art \in Artifact \cup {None} /\ req[q].off \in Nat
      /\ req[q].gens \in [Agent -> 0 .. MaxGen] /\ Needs[q] \in SUBSET Artifact
  BY <1>0, TransferAssumption DEF Request
<1>c. "prepare" \in Pc /\ 1 \in Role /\ 2 \in Role
  BY DEF Pc, Role
<1>1. CASE StartBegin(q)
  <2>1. [g \in Agent |-> link[g].gen] \in [Agent -> 0 .. MaxGen]
    BY DEF TypeOK, Link
  <2>2. Begins(q)
    BY <1>0, <1>a, <1>1, <2>1, NewStart DEF StartBegin, Begins, Pc
  <2> QED  BY <1>0, <1>1, <2>2 DEF StartBegin, ControlStep
<1>2. CASE FindArtifact(q)
  <2>1. CASE \E a \in req[q].todo :
               req' = [req EXCEPT ![q].pc = "chunk", ![q].art = a, ![q].off = 0]
    <3>1. PICK a \in req[q].todo :
            req' = [req EXCEPT ![q].pc = "chunk", ![q].art = a, ![q].off = 0]
      BY <2>1
    <3>2. Takes(q, a)
      BY <1>0, <1>a, <1>2, <3>1, NewChunk DEF FindArtifact, Takes, Pc
    <3> QED  BY <1>0, <1>a, <1>2, <3>2 DEF FindArtifact, ControlStep
  <2>2. CASE /\ req[q].todo = {} /\ req[q].ix < Len(Sends)
             /\ req' = [req EXCEPT ![q].ix = @ + 1, ![q].todo = Needs[q]]
    <3>1. req[q].ix + 1 \in Role
      BY SMTT(90), <1>a, <2>2, SendsFacts DEF Role
    <3>2. Becomes(q, req[q].pc, req[q].ix + 1, Needs[q], req[q].art, req[q].off, req[q].gens)
      BY <1>0, <1>a, <2>2, <3>1, NewEndpoint
    <3>3. TurnsToServer(q)
      BY <1>2, <2>2, <3>2 DEF FindArtifact, TurnsToServer
    <3> QED  BY <1>0, <1>2, <3>3 DEF FindArtifact, ControlStep
  <2>3. CASE /\ req[q].todo = {} /\ req[q].ix = Len(Sends)
             /\ req' = [req EXCEPT ![q].pc = "prepare", ![q].ix = 1]
    <3>1. Becomes(q, "prepare", 1, req[q].todo, req[q].art, req[q].off, req[q].gens)
      BY <1>0, <1>c, <2>3, NewTurn
    <3>2. HasSentAll(q)
      BY <1>2, <2>3, <3>1 DEF FindArtifact, HasSentAll
    <3> QED  BY <1>0, <1>2, <3>2 DEF FindArtifact, ControlStep
  <2> QED  BY <1>2, <2>1, <2>2, <2>3 DEF FindArtifact
<1>b. ASSUME NEW pc \in {"done", "failed", "dropped"}, Ends(q, pc), req[q].pc \in Active,
             pc = "done" => req[q].pc = "wait"
      PROVE  ControlStep(q)
  <2>1. Finishes(q, pc)
    BY <1>0, <1>a, <1>b, NewPc DEF Ends, Finishes, Pc
  <2> QED  BY <2>1 DEF ControlStep, Pc
<1>3. CASE SendFails(q)
  BY <1>0, <1>3, <1>b DEF SendFails, Active
<1>4. CASE Acknowledged(q)
  <2>1. CASE req[q].ix = 2 /\ Ends(q, "done")
    BY <1>0, <1>4, <1>b, <2>1 DEF Acknowledged, Active
  <2>2. CASE /\ req[q].ix = 1
             /\ req' = [req EXCEPT ![q].pc = "prepare", ![q].ix = 2]
             /\ UNCHANGED lock
    <3>1. Becomes(q, "prepare", 2, req[q].todo, req[q].art, req[q].off, req[q].gens)
      BY <1>0, <1>c, <2>2, NewTurn
    <3>2. GoesOn(q)
      BY <1>4, <2>2, <3>1 DEF Acknowledged, GoesOn
    <3> QED  BY <1>0, <1>4, <3>2 DEF Acknowledged, ControlStep
  <2> QED  BY <1>4, <2>1, <2>2 DEF Acknowledged
<1>5. CASE AckTimesOut(q)
  BY <1>0, <1>5, <1>b, TransferAssumption DEF AckTimesOut, Active, Fault
<1>6. CASE RequestDropped(q)
  BY <1>0, <1>6, <1>b, TransferAssumption DEF RequestDropped, Active, Fault
<1> QED  BY <1>1, <1>2, <1>3, <1>4, <1>5, <1>6

LEMMA ControlType ==
  ASSUME TypeOK, NEW q \in Req, ControlStep(q),
         replies' \subseteq Req \X Role, faults' \in 0 .. MaxFaults,
         UNCHANGED <<damage, link, session>>
  PROVE  TypeOK'
BY DEF TypeOK, ControlStep, Begins, Takes, TurnsToServer, HasSentAll, GoesOn, Finishes,
       Becomes, session

(* Whatever a start does, those that were given up stay what they were, the    *)
(* mutex has one holder, and the start keeps its place.                        *)
LEMMA ControlPosition ==
  ASSUME TypeOK, HolderOnly, Position, NEW q \in Req, ControlStep(q), UNCHANGED link
  PROVE  /\ HolderOnly' /\ Position'
         /\ \A p \in Req \ {q} : req'[p] = req[p]
         /\ req[q].pc \notin {"failed", "dropped"}
<1>1. \A p \in Req \ {q} : req'[p] = req[p]
  BY DEF ControlStep, Begins, Takes, TurnsToServer, HasSentAll, GoesOn, Finishes, Becomes
<1>2. req[q].pc \notin {"failed", "dropped"}
  BY DEF ControlStep, Begins, Takes, TurnsToServer, HasSentAll, GoesOn, Finishes, Active
<1>3. HolderOnly'
  BY <1>1, TransferAssumption DEF HolderOnly, Active, ControlStep, Begins, Takes,
     TurnsToServer, HasSentAll, GoesOn, Finishes, Becomes
<1>4. Position'
  <2>1. \A g \in Agent : link[g].gen \in Nat
    BY TransferAssumption DEF TypeOK, Link
  <2>2. req[q] \in Request
    BY DEF TypeOK
  <2> USE DEF ControlStep, Begins, Takes, TurnsToServer, HasSentAll, GoesOn, Finishes, Becomes
  <2>3. req[q].ix \in Nat
    BY <2>2 DEF Request, Role
  <2>4. req'[q].pc \in {"find", "chunk"} => req'[q].ix \in 1 .. Len(Sends)
    <3>1. Len(Sends) \in Nat /\ Len(Sends) >= 1
      BY SendsCount
    <3>2. /\ req[q].pc \in {"find", "chunk"} => req[q].ix \in 1 .. Len(Sends)
          /\ req[q].pc = "idle" => req[q].ix = 1
      BY DEF Position
    <3> QED  BY <2>3, <3>1, <3>2
  <2>5. req'[q].pc = "chunk" => req'[q].art \in Artifact /\ req'[q].off <= Size[req'[q].art]
    BY TransferAssumption
  <2>6. req'[q].pc = "idle" => req'[q].ix = 1
    OBVIOUS
  <2>7. \A g \in Agent : req'[q].gens[g] <= link[g].gen
    BY <2>1 DEF Position
  <2> QED  BY <1>1, <2>4, <2>5, <2>6, <2>7 DEF Position
<1> QED  BY <1>1, <1>2, <1>3, <1>4

(* A start counts as sent only what it has sent.                               *)
LEMMA ControlSent ==
  ASSUME TypeOK, Position, NEW q \in Req, ControlStep(q), NEW p \in Req, NEW g \in Agent
  PROVE  SentTo(p, g)' \subseteq SentTo(p, g)
<1>1. CASE p # q
  <2>1. req'[p] = req[p]
    BY <1>1 DEF ControlStep, Begins, Takes, TurnsToServer, HasSentAll, GoesOn, Finishes,
       Becomes
  <2> QED  BY <2>1 DEF SentTo
<1>2. CASE p = q
  <2>0. req[q].ix \in Nat
    <3>1. req[q] \in Request
      BY DEF TypeOK
    <3> QED  BY <3>1 DEF Request, Role
  <2>1. req[q].ix \in Nat /\ Len(Sends) \in Nat /\ Len(Sends) >= 1
    BY <2>0, SendsCount
  <2>2. req[q].pc = "idle" => req[q].ix = 1
    BY DEF Position
  <2>3. PICK k \in 1 .. Len(Sends) : Sends[k] = g
    BY SendsFacts
  <2>4. CASE Begins(q)
    <3>1. req'[q].pc = "find" /\ req'[q].ix = 1 /\ req'[q].todo = Needs[q]
      BY <2>2, <2>4 DEF Begins, Becomes
    <3>2. ~\E j \in 1 .. Len(Sends) : j < req'[q].ix /\ Sends[j] = g
      BY <2>1, <3>1
    <3> QED  BY <1>2, <3>1, <3>2 DEF SentTo
  <2>5. CASE \E a \in Artifact : Takes(q, a)
    BY <1>2, <2>5 DEF Takes, Becomes, SentTo
  <2>6. CASE TurnsToServer(q)
    <3>1. /\ req[q].pc = "find" /\ req[q].todo = {} /\ req'[q].pc = "find"
          /\ req'[q].ix = req[q].ix + 1 /\ req'[q].todo = Needs[q]
      BY <2>6 DEF TurnsToServer, Becomes
    <3>2. CASE \E j \in 1 .. Len(Sends) : j < req[q].ix + 1 /\ Sends[j] = g
      <4>1. PICK j \in 1 .. Len(Sends) : j < req[q].ix + 1 /\ Sends[j] = g
        BY <3>2
      <4>2. j < req[q].ix \/ Sends[req[q].ix] = g
        BY <2>1, <4>1
      <4>3. SentTo(q, g) = Needs[q]
        BY <3>1, <4>1, <4>2 DEF SentTo
      <4>4. SentTo(q, g)' = Needs[q]
        BY <3>1, <3>2 DEF SentTo
      <4> QED  BY <1>2, <4>3, <4>4
    <3>3. CASE ~\E j \in 1 .. Len(Sends) : j < req[q].ix + 1 /\ Sends[j] = g
      BY <1>2, <3>1, <3>3 DEF SentTo
    <3> QED  BY <3>2, <3>3
  <2>7. CASE HasSentAll(q)
    <3>1. /\ req[q].pc = "find" /\ req[q].todo = {} /\ req[q].ix = Len(Sends)
          /\ req'[q].pc = "prepare"
      BY <2>7 DEF HasSentAll, Becomes
    <3>2. k < req[q].ix \/ Sends[req[q].ix] = g
      BY <2>1, <2>3, <3>1
    <3> QED  BY <1>2, <2>3, <3>1, <3>2 DEF SentTo
  <2>8. CASE GoesOn(q)
    BY <1>2, <2>8 DEF GoesOn, Becomes, SentTo
  <2>9. ASSUME NEW pc \in Pc, Finishes(q, pc) PROVE SentTo(q, g)' = {}
    BY <2>9 DEF Finishes, Becomes, SentTo
  <2> QED  BY <1>2, <2>4, <2>5, <2>6, <2>7, <2>8, <2>9 DEF ControlStep
<1> QED  BY <1>1, <1>2

(* Nothing is sent, so a file that is being sent was being sent, or is yet to  *)
(* begin.                                                                      *)
LEMMA ControlSending ==
  ASSUME TypeOK, Position, NEW q \in Req, ControlStep(q), UNCHANGED link,
         NEW g \in Agent, NEW a \in Artifact
  PROVE  /\ \A p \in Req : Sending(p, g, a)' =>
              \/ Sending(p, g, a) /\ req'[p].off = req[p].off
              \/ p = q /\ req[q].pc = "find" /\ req'[p].off = 0
         /\ \A p \in Req : Sending(p, g, a) =>
              \/ Sending(p, g, a)' /\ req'[p].off = req[p].off
              \/ Abandoned(g)'
<1>1. \A p \in Req \ {q} : req'[p] = req[p]
  BY DEF ControlStep, Begins, Takes, TurnsToServer, HasSentAll, GoesOn, Finishes, Becomes
<1>2. CASE Begins(q) \/ TurnsToServer(q) \/ HasSentAll(q) \/ GoesOn(q)
  BY <1>1, <1>2 DEF Begins, TurnsToServer, HasSentAll, GoesOn, Becomes, Sending, Reaches,
     Current
<1>3. CASE \E b \in Artifact : Takes(q, b)
  BY <1>1, <1>3 DEF Takes, Becomes, Sending, Reaches, Current
<1>4. ASSUME NEW pc \in Pc, Finishes(q, pc)
      PROVE  /\ ~Sending(q, g, a)'
             /\ Sending(q, g, a) => Abandoned(g)'
  BY <1>4 DEF Finishes, Becomes, Sending, Reaches, Current, Abandoned, Active
<1>5. CASE \E pc \in Pc : Finishes(q, pc)
  <2>1. \A p \in Req \ {q} :
          /\ Sending(p, g, a)' <=> Sending(p, g, a)
          /\ req'[p].off = req[p].off
    BY <1>1 DEF Sending, Reaches, Current
  <2> QED  BY <1>4, <1>5, <2>1
<1> QED  BY <1>2, <1>3, <1>5 DEF ControlStep

LEMMA AbandonedStays ==
  ASSUME NEW q \in Req, \A p \in Req \ {q} : req'[p] = req[p],
         req[q].pc \notin {"failed", "dropped"}, UNCHANGED link, NEW g \in Agent
  PROVE  Abandoned(g) => Abandoned(g)'
BY DEF Abandoned

LEMMA ControlOrder ==
  ASSUME TypeOK, HolderOnly, Position, InOrder, NEW q \in Req, ControlStep(q),
         UNCHANGED <<link, incoming, completed>>
  PROVE  InOrder'
<1> SUFFICES ASSUME NEW g \in Agent, NEW a \in Artifact, ~Abandoned(g)'
             PROVE  Ordered(g, a)'
  BY DEF InOrder
<1> DEFINE s == link[g].msgs
           t == incoming[g][a]
           c == completed[g][a]
           n == Len(s) + 1
<1>1. ~Abandoned(g)
  BY ControlPosition, AbandonedStays
<1>2. /\ \A i \in 1 .. Len(s) :
           /\ IsChunk(s[i], a) => ReadyAt(s, i, a, t, c, s[i].off)
           /\ s[i].what = "prepare" => SettledAt(s, i, a, t)
      /\ \A p \in Req : Sending(p, g, a) => ReadyAt(s, n, a, t, c, req[p].off)
      /\ (\A p \in Req : Sending(p, g, a) => req[p].off = 0) => SettledAt(s, n, a, t)
  BY <1>1 DEF InOrder, Ordered
<1>3. /\ \A p \in Req : Sending(p, g, a)' =>
           \/ Sending(p, g, a) /\ req'[p].off = req[p].off
           \/ p = q /\ req[q].pc = "find" /\ req'[p].off = 0
      /\ \A p \in Req : Sending(p, g, a) =>
           Sending(p, g, a)' /\ req'[p].off = req[p].off
  BY ControlSending
<1>4. req[q].pc = "find" => \A p \in Req : ~Sending(p, g, a)
  BY TransferAssumption DEF HolderOnly, Active, Sending
<1> HIDE DEF s, t, c, n
<1>5. SettledAt(s, n, a, t) => ReadyAt(s, n, a, t, c, 0)
  BY DEF SettledAt, ReadyAt
<1>6. \A p \in Req : Sending(p, g, a)' => ReadyAt(s, n, a, t, c, req'[p].off)
  BY <1>2, <1>3, <1>4, <1>5
<1>7. (\A p \in Req : Sending(p, g, a)' => req'[p].off = 0) => SettledAt(s, n, a, t)
  BY <1>2, <1>3
<1> QED  BY <1>2, <1>6, <1>7 DEF Ordered, s, t, c, n

LEMMA ControlKeeps ==
  ASSUME IInv, NEW q \in Req, ControlStep(q),
         replies' \subseteq Req \X Role, faults' \in 0 .. MaxFaults,
         UNCHANGED <<damage, link, session>>
  PROVE  IInv'
<1> USE DEF IInv, session
<1>1. TypeOK' /\ HolderOnly' /\ Position'
  BY ControlType, ControlPosition
<1>2. \A g \in Agent : Abandoned(g) => Abandoned(g)'
  BY ControlPosition, AbandonedStays
<1>3. OnlyLongIsCut' /\ DownIsEmpty' /\ VerifiedIsGood' /\ PreparedWithItsBytes'
  BY DEF OnlyLongIsCut, DownIsEmpty, VerifiedIsGood, PreparedWithItsBytes
<1>4. SoundStream' /\ SoundTransfer' /\ FirstKnowsItsFiles'
  BY DEF SoundStream, SoundChunk, SoundTransfer, FirstKnowsItsFiles
<1>5. NoneIsSkipped'
  <2>1. \A g \in Agent, a \in Artifact, p \in Req :
          Sending(p, g, a)' /\ req'[p].off > 0 => Sending(p, g, a) /\ req[p].off > 0
    BY ControlSending
  <2> QED  BY <2>1 DEF NoneIsSkipped, SkipsNone
<1>6. PrepareComesLast'
  <2>1. \A g \in Agent, a \in Artifact, p \in Req :
          a \in SentTo(p, g)' /\ Reaches(p, g)' => a \in SentTo(p, g) /\ Reaches(p, g)
    <3> SUFFICES ASSUME NEW g \in Agent, NEW a \in Artifact, NEW p \in Req,
                        a \in SentTo(p, g)', Reaches(p, g)'
                 PROVE  a \in SentTo(p, g) /\ Reaches(p, g)
      OBVIOUS
    <3>1. a \in SentTo(p, g)
      BY ControlSent
    <3>2. req'[p].gens = req[p].gens
      BY <3>1 DEF SentTo, ControlStep, Begins, Takes, TurnsToServer, HasSentAll, GoesOn,
         Finishes, Becomes
    <3> QED  BY <3>1, <3>2 DEF Reaches, Current
  <2> QED  BY <2>1 DEF PrepareComesLast, PreparesLast
<1>7. InOrder'
  BY ControlOrder
<1>8. BailsOnlyForCause'
  <2>1. \A p \in Req : req[p].pc \in {"failed", "dropped"} => req'[p] = req[p]
    BY ControlPosition
  <2> QED  BY <2>1 DEF BailsOnlyForCause
<1> QED  BY <1>1, <1>3, <1>4, <1>5, <1>6, <1>7, <1>8

-----------------------------------------------------------------------------
(* A message is sent *)

(* It is the last of the stream, or it goes nowhere.                           *)
Delivered(g, m) ==
  /\ link' \in [Agent -> Link]
  /\ \A h \in Agent : link'[h].gen = link[h].gen /\ link'[h].up = link[h].up
  /\ \A h \in Agent \ {g} : link'[h] = link[h]
  /\ link[g].up /\ link'[g].msgs = Append(link[g].msgs, m)

LEMMA SentFacts ==
  ASSUME TypeOK, NEW q \in Req, NEW g \in Agent, NEW m \in Message, Sent(q, g, m)
  PROVE  \/ Reaches(q, g) /\ Delivered(g, m)
         \/ ~Reaches(q, g) /\ link' = link
<1>1. link \in [Agent -> Link] /\ link[g] \in Link
  BY DEF TypeOK
<1>2. CASE /\ Current(q, g) /\ link[g].open /\ link[g].up /\ Len(link[g].msgs) < Capacity
           /\ link' = [link EXCEPT ![g].msgs = Append(@, m)]
  <2> DEFINE l == [link[g] EXCEPT !.msgs = Append(link[g].msgs, m)]
  <2>1. l \in Link
    <3>1. link[g].msgs \in Seq(Message)
      BY <1>1 DEF Link
    <3>2. Append(link[g].msgs, m) \in Seq(Message)
      BY <3>1, AppendFacts
    <3> QED  BY <1>1, <3>2 DEF Link
  <2>2. l.gen = link[g].gen /\ l.up = link[g].up /\ l.msgs = Append(link[g].msgs, m)
    BY <1>1 DEF Link
  <2>3. link' = [link EXCEPT ![g] = l]
    BY <1>2
  <2> HIDE DEF l
  <2>4. Delivered(g, m)
    BY <1>1, <1>2, <2>1, <2>2, <2>3 DEF Delivered
  <2> QED  BY <1>2, <2>4 DEF Reaches
<1>3. CASE (Current(q, g) => link[g].open /\ ~link[g].up) /\ UNCHANGED link
  BY <1>3 DEF Reaches
<1> QED  BY <1>2, <1>3 DEF Sent

(* Where nobody sends a file, and nothing arrives, the order stays.            *)
LEMMA ElsewhereKeeps ==
  ASSUME NEW g \in Agent, NEW a \in Artifact,
         link'[g] = link[g], UNCHANGED <<incoming, completed>>,
         \A p \in Req : ~Sending(p, g, a) /\ ~Sending(p, g, a)'
  PROVE  /\ SkipsNone(g, a) => SkipsNone(g, a)'
         /\ Ordered(g, a) => Ordered(g, a)'
<1>1. SkipsNone(g, a) => SkipsNone(g, a)'
  BY DEF SkipsNone
<1>2. Ordered(g, a) => Ordered(g, a)'
  BY DEF Ordered
<1> QED  BY <1>1, <1>2

(* One more sound message, and everything but its place in the order holds.    *)
LEMMA SentSimple ==
  ASSUME IInv, NEW q \in Req, NEW g \in Agent, NEW m \in Message,
         \A p \in Req \ {q} : req'[p] = req[p], req[q].pc \notin {"failed", "dropped"},
         m.what = "chunk" => SoundChunk(m),
         Delivered(g, m) \/ link' = link, UNCHANGED <<damage, session>>
  PROVE  /\ OnlyLongIsCut' /\ DownIsEmpty' /\ VerifiedIsGood' /\ PreparedWithItsBytes'
         /\ SoundStream' /\ SoundTransfer' /\ FirstKnowsItsFiles' /\ BailsOnlyForCause'
         /\ \A h \in Agent : Abandoned(h) => Abandoned(h)'
<1> USE DEF IInv, session
<1>1. \A h \in Agent : link'[h].gen = link[h].gen /\ link'[h].up = link[h].up
  BY DEF Delivered
<1>2. OnlyLongIsCut' /\ VerifiedIsGood' /\ PreparedWithItsBytes' /\ SoundTransfer'
  BY DEF OnlyLongIsCut, VerifiedIsGood, PreparedWithItsBytes, SoundTransfer
<1>3. DownIsEmpty'
  BY <1>1 DEF DownIsEmpty, Delivered
<1>4. FirstKnowsItsFiles'
  BY <1>1 DEF FirstKnowsItsFiles
<1>5. SoundStream'
  <2>1. CASE Delivered(g, m)
    <3>1. SUFFICES ASSUME NEW h \in Agent, NEW i \in 1 .. Len(link'[h].msgs),
                          link'[h].msgs[i].what = "chunk"
                   PROVE  SoundChunk(link'[h].msgs[i])
      BY DEF SoundStream, SoundChunk
    <3>2. CASE h # g
      BY <2>1, <3>1, <3>2 DEF SoundStream, Delivered
    <3>3. CASE h = g
      <4>1. link[g].msgs \in Seq(Message)
        BY DEF TypeOK, Link
      <4>2. /\ link'[g].msgs = Append(link[g].msgs, m)
            /\ Len(link'[g].msgs) = Len(link[g].msgs) + 1
        BY <2>1, <4>1, AppendFacts DEF Delivered
      <4>3. CASE i = Len(link[g].msgs) + 1
        BY <3>1, <3>3, <4>1, <4>2, <4>3, AppendFacts
      <4>4. CASE i # Len(link[g].msgs) + 1
        <5>1. i \in 1 .. Len(link[g].msgs) /\ link'[g].msgs[i] = link[g].msgs[i]
          BY <3>3, <4>1, <4>2, <4>4, AppendFacts
        <5> QED  BY <3>1, <3>3, <5>1 DEF SoundStream
      <4> QED  BY <4>3, <4>4
    <3> QED  BY <3>2, <3>3
  <2>2. CASE link' = link
    BY <2>2 DEF SoundStream, SoundChunk
  <2> QED  BY <2>1, <2>2
<1>6. BailsOnlyForCause'
  <2>1. \A p \in Req : req[p].pc \in {"failed", "dropped"} => req'[p] = req[p]
    OBVIOUS
  <2> QED  BY <2>1 DEF BailsOnlyForCause
<1>7. \A h \in Agent : Abandoned(h) => Abandoned(h)'
  BY <1>1 DEF Abandoned
<1> QED  BY <1>2, <1>3, <1>4, <1>5, <1>6, <1>7

(* A turn of the read loop sends a sound chunk and moves on, to the next chunk *)
(* or the next file, or gives up.                                              *)
TakesOff(q, a, m) ==
  /\ lock' = lock /\ m.eof
  /\ Becomes(q, "find", req[q].ix, req[q].todo \ {a}, None, 0, req[q].gens)
GoesFurther(q, m) ==
  /\ lock' = lock /\ m.len = 1
  /\ Becomes(q, "chunk", req[q].ix, req[q].todo, req[q].art, m.off + m.len, req[q].gens)
GivesUp(q) ==
  /\ lock' = None
  /\ Becomes(q, "failed", req[q].ix, req[q].todo, req[q].art, req[q].off, req[q].gens)
ChunkSent(q, g, a, m) ==
  /\ req[q].pc = "chunk" /\ a = req[q].art /\ g = Sends[req[q].ix]
  /\ IsChunk(m, a) /\ m.off = req[q].off /\ SoundChunk(m)
  /\ Sent(q, g, m)
  /\ TakesOff(q, a, m) \/ GoesFurther(q, m) \/ GivesUp(q)

LEMMA ReadableFacts ==
  ASSUME TypeOK, OnlyLongIsCut, NEW a \in Artifact
  PROVE  Readable(a) \in Nat /\ Readable(a) <= Size[a] /\ Size[a] \in Nat
BY TransferAssumption DEF TypeOK, OnlyLongIsCut, Readable

LEMMA ChunkFacts ==
  ASSUME IInv, NEW q \in Req, SendChunk(q)
  PROVE  \E g \in Agent, a \in Artifact, m \in Message : ChunkSent(q, g, a, m)
<1> DEFINE a == req[q].art
           g == Sends[req[q].ix]
           off == req[q].off
           n == IF off < Readable(a) THEN 1 ELSE 0
           m == [what |-> "chunk", art |-> a, off |-> off, len |-> n,
                 good |-> damage[a] # "changed", eof |-> off + n = Size[a]]
<1>0. req \in [Req -> Request] /\ req[q] \in Request
  BY DEF IInv, TypeOK
<1>a. /\ req[q].ix \in Role /\ req[q].todo \in SUBSET Artifact
      /\ req[q].art \in Artifact \cup {None} /\ req[q].off \in Nat
      /\ req[q].gens \in [Agent -> 0 .. MaxGen]
  BY <1>0 DEF Request
<1>1. req[q].pc = "chunk" /\ Sent(q, g, m)
  BY DEF SendChunk
<1>2. a \in Artifact /\ g \in Agent /\ off <= Size[a]
  BY <1>1, SendsFacts DEF IInv, Position
<1>3. off \in Nat /\ Readable(a) \in Nat /\ Readable(a) <= Size[a] /\ Size[a] \in Nat
  BY <1>a, <1>2, ReadableFacts DEF IInv
<1>4. m \in Message
  BY <1>2, <1>3 DEF Message
<1>5. SoundChunk(m)
  <2>1. off + n <= Size[a]
    BY <1>2, <1>3
  <2>2. /\ m.off + m.len = off + n /\ m.art = a
        /\ m.eof <=> off + n = Size[a]
        /\ m.good <=> damage[a] # "changed"
    OBVIOUS
  <2> HIDE DEF m, n, off
  <2> QED  BY <2>1, <2>2 DEF SoundChunk
<1>6. CASE /\ off + n = Size[a]
           /\ req' = [req EXCEPT ![q].pc = "find", ![q].todo = @ \ {a},
                                 ![q].art = None, ![q].off = 0]
           /\ UNCHANGED lock
  <2>1. /\ "find" \in Pc /\ req[q].todo \ {a} \in SUBSET Artifact
        /\ None \in Artifact \cup {None} /\ 0 \in Nat
    BY <1>a DEF Pc
  <2>2. Becomes(q, "find", req[q].ix, req[q].todo \ {a}, None, 0, req[q].gens)
    BY <1>0, <1>6, <2>1, NewLast
  <2>3. TakesOff(q, a, m)
    BY <1>6, <2>2 DEF TakesOff
  <2> QED  BY <1>1, <1>2, <1>4, <1>5, <2>3 DEF ChunkSent, IsChunk
<1>7. CASE /\ off + n # Size[a] /\ n = 1
           /\ req' = [req EXCEPT ![q].off = @ + 1]
           /\ UNCHANGED lock
  <2>1. off + 1 \in Nat
    BY <1>3
  <2>2. Becomes(q, req[q].pc, req[q].ix, req[q].todo, req[q].art, off + 1, req[q].gens)
    BY <1>0, <1>7, <2>1, NewOffset
  <2>3. GoesFurther(q, m)
    BY <1>1, <1>7, <2>2 DEF GoesFurther
  <2> QED  BY <1>1, <1>2, <1>4, <1>5, <2>3 DEF ChunkSent, IsChunk
<1>8. CASE off + n # Size[a] /\ n = 0 /\ Ends(q, "failed")
  <2>1. "failed" \in Pc
    BY DEF Pc
  <2>2. Becomes(q, "failed", req[q].ix, req[q].todo, req[q].art, req[q].off, req[q].gens)
    BY <1>0, <1>8, <2>1, NewPc DEF Ends
  <2>3. GivesUp(q)
    BY <1>8, <2>2 DEF GivesUp, Ends
  <2> QED  BY <1>1, <1>2, <1>4, <1>5, <2>3 DEF ChunkSent, IsChunk
<1> QED  BY <1>6, <1>7, <1>8 DEF SendChunk

LEMMA ChunkPosition ==
  ASSUME IInv, NEW q \in Req, NEW g \in Agent, NEW a \in Artifact, NEW m \in Message,
         ChunkSent(q, g, a, m), UNCHANGED <<damage, replies, faults, session>>
  PROVE  /\ TypeOK' /\ HolderOnly' /\ Position'
         /\ \A p \in Req \ {q} : req'[p] = req[p] /\ req[p].pc \notin Active
         /\ req'[q].gens = req[q].gens
<1> USE DEF IInv
<1>1. /\ req' \in [Req -> Request]
      /\ \A p \in Req \ {q} : req'[p] = req[p]
      /\ req'[q].gens = req[q].gens
  BY DEF ChunkSent, TakesOff, GoesFurther, GivesUp, Becomes
<1>2. req[q].pc = "chunk" /\ lock = q
  BY DEF ChunkSent, HolderOnly, Active
<1>3. \A p \in Req \ {q} : req[p].pc \notin Active
  BY <1>2 DEF HolderOnly
<1>4. /\ link' \in [Agent -> Link]
      /\ \A h \in Agent : link'[h].gen = link[h].gen
  BY SentFacts DEF ChunkSent, Delivered, TypeOK
<1>5. lock' \in Req \cup {None}
  BY <1>2 DEF ChunkSent, TakesOff, GoesFurther, GivesUp
<1>6. TypeOK'
  BY <1>1, <1>4, <1>5 DEF TypeOK, session
<1>7. HolderOnly'
  BY <1>1, <1>2, <1>3 DEF HolderOnly, ChunkSent, TakesOff, GoesFurther, GivesUp, Becomes,
     Active
<1>8. Position'
  <2>1. \A h \in Agent : req'[q].gens[h] <= link'[h].gen
    BY <1>1, <1>4 DEF Position
  <2>2. req'[q].pc \in {"find", "chunk"} => req'[q].ix \in 1 .. Len(Sends)
    BY <1>2 DEF Position, ChunkSent, TakesOff, GoesFurther, GivesUp, Becomes
  <2>3. req'[q].pc = "chunk" => req'[q].art \in Artifact /\ req'[q].off <= Size[req'[q].art]
    <3>1. m.art = a /\ m.off + m.len <= Size[a]
      BY DEF ChunkSent, IsChunk, SoundChunk
    <3> QED  BY <3>1 DEF ChunkSent, TakesOff, GoesFurther, GivesUp, Becomes
  <2>4. req'[q].pc # "idle"
    BY DEF ChunkSent, TakesOff, GoesFurther, GivesUp, Becomes
  <2> QED  BY <1>1, <1>4, <2>1, <2>2, <2>3, <2>4 DEF Position
<1> QED  BY <1>1, <1>3, <1>6, <1>7, <1>8

(* The one file that is being sent, before and after.                          *)
LEMMA ChunkSending ==
  ASSUME IInv, NEW q \in Req, NEW g \in Agent, NEW a \in Artifact, NEW m \in Message,
         ChunkSent(q, g, a, m), UNCHANGED <<damage, replies, faults, session>>,
         NEW h \in Agent, NEW b \in Artifact, NEW p \in Req
  PROVE  /\ Sending(p, h, b) => p = q /\ h = g /\ b = a
         /\ Sending(p, h, b)' => p = q /\ h = g /\ b = a /\ GoesFurther(q, m)
         /\ Reaches(p, h)' <=> Reaches(p, h)
         /\ Reaches(q, g) => Sending(q, g, a)
<1>1. \A k \in Req \ {q} : req'[k] = req[k] /\ req[k].pc \notin Active
  BY ChunkPosition
<1>2. \A k \in Req : req'[k].gens = req[k].gens
  BY <1>1, ChunkPosition
<1>3. link'[h].gen = link[h].gen /\ link'[h].up = link[h].up
  BY SentFacts DEF IInv, ChunkSent, Delivered
<1>4. Reaches(p, h)' <=> Reaches(p, h)
  BY <1>2, <1>3 DEF Reaches, Current
<1>5. Sending(p, h, b) => p = q /\ h = g /\ b = a
  BY <1>1 DEF Sending, ChunkSent, Active
<1>6. Sending(p, h, b)' => p = q /\ h = g /\ b = a /\ GoesFurther(q, m)
  BY <1>1 DEF Sending, ChunkSent, TakesOff, GoesFurther, GivesUp, Becomes, Active
<1>7. Reaches(q, g) => Sending(q, g, a)
  BY DEF Sending, ChunkSent
<1> QED  BY <1>4, <1>5, <1>6, <1>7

LEMMA ChunkOrder ==
  ASSUME IInv, NEW q \in Req, NEW g \in Agent, NEW a \in Artifact, NEW m \in Message,
         ChunkSent(q, g, a, m), UNCHANGED <<damage, replies, faults, session>>
  PROVE  NoneIsSkipped' /\ InOrder'
<1> USE DEF IInv, session
<1>0. \A k \in Req \ {q} : req'[k] = req[k]
  BY ChunkPosition
<1>a. \A h \in Agent : Abandoned(h) => Abandoned(h)'
  BY <1>0, SentSimple, SentFacts DEF ChunkSent
<1>1. CASE ~Reaches(q, g)
  <2>1. link' = link
    BY <1>1, SentFacts DEF ChunkSent
  <2>2. \A h \in Agent, b \in Artifact, p \in Req : ~Sending(p, h, b) /\ ~Sending(p, h, b)'
    BY <1>1, ChunkSending DEF Sending
  <2> QED  BY <1>a, <2>1, <2>2, ElsewhereKeeps DEF NoneIsSkipped, InOrder
<1>2. CASE Reaches(q, g)
  <2>1. Delivered(g, m)
    BY <1>2, SentFacts DEF ChunkSent
  <2>2. SUFFICES ASSUME NEW h \in Agent, NEW b \in Artifact
                 PROVE  SkipsNone(h, b)' /\ (~Abandoned(h)' => Ordered(h, b)')
    BY DEF NoneIsSkipped, InOrder
  <2>3. CASE h # g
    <3>1. \A p \in Req : ~Sending(p, h, b) /\ ~Sending(p, h, b)'
      BY <2>3, ChunkSending
    <3> QED  BY <1>a, <2>1, <2>3, <3>1, ElsewhereKeeps DEF NoneIsSkipped, InOrder, Delivered
  <2>4. CASE h = g
    <3> DEFINE s == link[g].msgs
               r == Append(s, m)
               t == incoming[g][b]
               c == completed[g][b]
    <3>1. s \in Seq(Message)
      BY DEF TypeOK, Link
    <3>2. link'[g].msgs = r /\ incoming'[g][b] = t /\ completed'[g][b] = c
      BY <2>1 DEF Delivered
    <3>3. /\ Len(r) = Len(s) + 1 /\ Len(s) \in Nat /\ r[Len(s) + 1] = m
          /\ \A i \in 1 .. Len(r) : i = Len(s) + 1 \/ (i \in 1 .. Len(s) /\ r[i] = s[i])
      BY <3>1, AppendFacts
    <3>4. Sending(q, g, a) /\ req[q].off = m.off /\ IsChunk(m, a)
      BY <1>2, ChunkSending DEF ChunkSent
    <3>5. SkipsNone(g, b)
      BY DEF NoneIsSkipped
    <3>6. m.off \in Nat
      BY <3>4 DEF TypeOK, Request
    <3>7. SkipsNone(g, b)'
      <4>1. ASSUME NEW i \in 1 .. Len(r), IsChunk(r[i], b), r[i].off > 0
            PROVE  BegunAt(r, i, b, t, c)
        <5>1. BegunAt(s, i, b, t, c)
          <6>1. CASE i = Len(s) + 1
            <7>1. b = a
              BY <3>3, <3>4, <4>1, <6>1 DEF IsChunk
            <7> QED  BY <3>3, <3>4, <3>5, <4>1, <6>1, <7>1 DEF SkipsNone
          <6>2. CASE i \in 1 .. Len(s) /\ r[i] = s[i]
            BY <3>5, <4>1, <6>2 DEF SkipsNone
          <6> QED  BY <3>3, <6>1, <6>2
        <5>2. i \in 1 .. Len(s) + 1
          BY <3>3
        <5> QED  BY <3>1, <5>1, <5>2, AppendKeeps
      <4>2. ASSUME NEW p \in Req, Sending(p, g, b)'
            PROVE  BegunAt(r, Len(r) + 1, b, t, c)
        <5>1. b = a
          BY <4>2, ChunkSending
        <5> QED  BY <3>1, <3>4, <5>1, AppendEnds
      <4> HIDE DEF r, t, c
      <4> QED  BY <3>2, <4>1, <4>2 DEF SkipsNone
    <3>8. ASSUME ~Abandoned(g)' PROVE Ordered(g, b)'
      <4>1. Ordered(g, b)
        BY <1>a, <3>8 DEF InOrder
      <4>2. ASSUME NEW i \in 1 .. Len(r)
            PROVE  /\ IsChunk(r[i], b) => ReadyAt(r, i, b, t, c, r[i].off)
                   /\ r[i].what = "prepare" => SettledAt(r, i, b, t)
        <5>1. /\ IsChunk(r[i], b) => ReadyAt(s, i, b, t, c, r[i].off)
              /\ r[i].what = "prepare" => SettledAt(s, i, b, t)
          <6>1. CASE i = Len(s) + 1
            <7>1. /\ IsChunk(r[i], b) => b = a /\ r[i].off = req[q].off
                  /\ r[i].what # "prepare"
              BY <3>3, <3>4, <6>1 DEF IsChunk
            <7> QED  BY <3>4, <4>1, <6>1, <7>1 DEF Ordered
          <6>2. CASE i \in 1 .. Len(s) /\ r[i] = s[i]
            BY <4>1, <6>2 DEF Ordered
          <6> QED  BY <3>3, <6>1, <6>2
        <5>2. i \in 1 .. Len(s) + 1
          BY <3>3
        <5> QED  BY <3>1, <5>1, <5>2, AppendKeeps
      <4>3. ASSUME NEW p \in Req, Sending(p, g, b)'
            PROVE  ReadyAt(r, Len(r) + 1, b, t, c, req'[p].off)
        <5>1. p = q /\ b = a /\ GoesFurther(q, m)
          BY <4>3, ChunkSending
        <5>2. req'[p].off = m.off + m.len
          BY <5>1 DEF GoesFurther, Becomes
        <5> QED  BY <3>1, <3>4, <5>1, <5>2, AppendEnds
      <4>4. ASSUME \A p \in Req : Sending(p, g, b)' => req'[p].off = 0
            PROVE  SettledAt(r, Len(r) + 1, b, t)
        <5>1. CASE b # a
          <6>1. \A p \in Req : ~Sending(p, g, b)
            BY <5>1, ChunkSending
          <6>2. SettledAt(s, Len(s) + 1, b, t)
            BY <4>1, <6>1 DEF Ordered
          <6>3. ~IsChunk(m, b)
            BY <3>4, <5>1 DEF IsChunk
          <6> QED  BY <3>1, <6>2, <6>3, AppendEnds
        <5>2. CASE b = a /\ m.eof
          BY <3>1, <3>4, <5>2, AppendEnds
        <5>3. CASE b = a /\ ~m.eof
          <6>1. CASE GoesFurther(q, m)
            <7>1. req'[q].pc = "chunk" /\ req'[q].ix = req[q].ix /\ req'[q].art = a
              BY <6>1 DEF GoesFurther, Becomes, ChunkSent
            <7>2. Sending(q, g, a)'
              BY <1>2, <7>1, ChunkSending DEF Sending, ChunkSent
            <7>3. req'[q].off = m.off + 1
              BY <6>1 DEF GoesFurther, Becomes
            <7> QED  BY <3>6, <4>4, <5>3, <7>2, <7>3
          <6>2. CASE GivesUp(q)
            <7>1. req'[q].pc = "failed" /\ req'[q].gens = req[q].gens
              BY <6>2 DEF GivesUp, Becomes
            <7>2. Abandoned(g)'
              BY <1>2, <2>1, <7>1 DEF Abandoned, Reaches, Current, Delivered
            <7> QED  BY <3>8, <7>2
          <6> QED  BY <5>3, <6>1, <6>2 DEF ChunkSent, TakesOff
        <5> QED  BY <5>1, <5>2, <5>3
      <4> HIDE DEF r, t, c
      <4> QED  BY <3>2, <4>2, <4>3, <4>4 DEF Ordered
    <3> QED  BY <2>4, <3>7, <3>8
  <2> QED  BY <2>3, <2>4
<1> QED  BY <1>1, <1>2

LEMMA ChunkPrepares ==
  ASSUME IInv, NEW q \in Req, NEW g \in Agent, NEW a \in Artifact, NEW m \in Message,
         ChunkSent(q, g, a, m), UNCHANGED <<damage, replies, faults, session>>
  PROVE  PrepareComesLast'
<1> USE DEF IInv, session
<1> SUFFICES ASSUME NEW h \in Agent, NEW b \in Artifact PROVE PreparesLast(h, b)'
  BY DEF PrepareComesLast
<1> DEFINE s == link[h].msgs
           r == link'[h].msgs
           c == completed[h][b]
<1>1. s \in Seq(Message) /\ PreparesLast(h, b)
  BY DEF TypeOK, Link, PrepareComesLast
<1>2. r = s \/ (h = g /\ r = Append(s, m))
  BY SentFacts DEF ChunkSent, Delivered
<1>3. /\ Len(Append(s, m)) = Len(s) + 1 /\ Len(s) \in Nat /\ Append(s, m)[Len(s) + 1] = m
      /\ \A i \in 1 .. Len(Append(s, m)) :
           i = Len(s) + 1 \/ (i \in 1 .. Len(s) /\ Append(s, m)[i] = s[i])
  BY <1>1, AppendFacts
<1>4. ASSUME NEW i \in 1 .. Len(r), r[i].what = "prepare", b \in Needs[r[i].req]
      PROVE  CompleteAt(r, i, b, c)
  <2>1. i \in 1 .. Len(s) /\ r[i] = s[i]
    BY <1>2, <1>3, <1>4 DEF ChunkSent, IsChunk
  <2>2. CompleteAt(s, i, b, c)
    BY <1>1, <1>4, <2>1 DEF PreparesLast
  <2>3. i \in 1 .. Len(s) + 1
    BY <1>3, <2>1
  <2> QED  BY <1>1, <1>2, <2>2, <2>3, AppendKeeps
<1>5. ASSUME NEW p \in Req, b \in SentTo(p, h)', Reaches(p, h)'
      PROVE  CompleteAt(r, Len(r) + 1, b, c)
  <2>1. p = q
    <3>1. CASE p # q
      <4>1. req'[p] = req[p] /\ req[p].pc \notin Active
        BY <3>1, ChunkPosition
      <4> QED  BY <1>5, <4>1 DEF SentTo, Active
    <3> QED  BY <3>1
  <2>2. Reaches(q, h)
    BY <1>5, <2>1, ChunkSending
  <2>3. b \in SentTo(q, h) \/ (TakesOff(q, a, m) /\ h = g /\ b = a)
    <3>1. req[q].pc = "chunk" /\ g = Sends[req[q].ix]
      BY DEF ChunkSent
    <3>2. CASE TakesOff(q, a, m)
      <4>1. /\ req'[q].pc = "find" /\ req'[q].ix = req[q].ix
            /\ req'[q].todo = req[q].todo \ {a}
        BY <3>2 DEF TakesOff, Becomes
      <4> QED  BY <1>5, <2>1, <3>1, <3>2, <4>1 DEF SentTo
    <3>3. CASE GoesFurther(q, m)
      BY <1>5, <2>1, <3>1, <3>3 DEF SentTo, GoesFurther, Becomes
    <3>4. CASE GivesUp(q)
      BY <1>5, <2>1, <3>4 DEF SentTo, GivesUp, Becomes
    <3> QED  BY <3>2, <3>3, <3>4 DEF ChunkSent
  <2>4. CASE b \in SentTo(q, h)
    <3>1. CompleteAt(s, Len(s) + 1, b, c)
      BY <1>1, <2>2, <2>4 DEF PreparesLast
    <3> HIDE DEF s, r, c
    <3> QED  BY <1>1, <1>2, <3>1, AppendEnds
  <2>5. CASE TakesOff(q, a, m) /\ h = g /\ b = a
    <3>1. r = Append(s, m)
      BY <2>2, <2>5, SentFacts DEF ChunkSent, Delivered
    <3>2. IsChunk(m, b) /\ m.eof
      BY <2>5 DEF ChunkSent, TakesOff
    <3> HIDE DEF s, r, c
    <3> QED  BY <1>1, <3>1, <3>2, AppendEnds
  <2> QED  BY <2>3, <2>4, <2>5
<1> QED  BY <1>4, <1>5 DEF PreparesLast

LEMMA ChunkKeeps ==
  ASSUME IInv, NEW q \in Req, SendChunk(q)
  PROVE  IInv'
<1>1. PICK g \in Agent, a \in Artifact, m \in Message : ChunkSent(q, g, a, m)
  BY ChunkFacts
<1>2. UNCHANGED <<damage, replies, faults, session>>
  BY DEF SendChunk
<1>3. TypeOK' /\ HolderOnly' /\ Position' /\ \A p \in Req \ {q} : req'[p] = req[p]
  BY <1>1, <1>2, ChunkPosition
<1>4. /\ OnlyLongIsCut' /\ DownIsEmpty' /\ VerifiedIsGood' /\ PreparedWithItsBytes'
      /\ SoundStream' /\ SoundTransfer' /\ FirstKnowsItsFiles' /\ BailsOnlyForCause'
  <2>1. Delivered(g, m) \/ link' = link
    BY <1>1, SentFacts DEF ChunkSent, IInv
  <2>2. req[q].pc \notin {"failed", "dropped"} /\ SoundChunk(m)
    BY <1>1 DEF ChunkSent
  <2> QED  BY <1>2, <1>3, <2>1, <2>2, SentSimple
<1>5. NoneIsSkipped' /\ InOrder' /\ PrepareComesLast'
  BY <1>1, <1>2, ChunkOrder, ChunkPrepares
<1> QED  BY <1>3, <1>4, <1>5 DEF IInv

(* Prepare is the last message of a start that reaches the Agent.              *)
LEMMA PrepareFacts ==
  ASSUME IInv, NEW q \in Req, SendPrepare(q)
  PROVE  \E g \in Agent, m \in Message :
           /\ m.what = "prepare" /\ m.req = q /\ Sent(q, g, m)
           /\ req[q].pc = "prepare"
           /\ Becomes(q, "wait", req[q].ix, req[q].todo, req[q].art, req[q].off, req[q].gens)
<1> DEFINE g == Endpoint(req[q].ix)
           m == [what |-> "prepare", req |-> q, role |-> req[q].ix]
<1>0. req \in [Req -> Request] /\ req[q] \in Request
  BY DEF IInv, TypeOK
<1>1. req[q].ix \in Role
  BY <1>0 DEF Request
<1>2. g \in Agent /\ m \in Message
  BY <1>1, SendsFacts DEF Message
<1>3. "wait" \in Pc
  BY DEF Pc
<1>4. Becomes(q, "wait", req[q].ix, req[q].todo, req[q].art, req[q].off, req[q].gens)
  BY <1>0, <1>3, NewPc DEF SendPrepare
<1> QED  BY <1>2, <1>4 DEF SendPrepare

LEMMA PrepareSentKeeps ==
  ASSUME IInv, NEW q \in Req, SendPrepare(q)
  PROVE  IInv'
<1> USE DEF IInv, session
<1>1. PICK g \in Agent, m \in Message :
        /\ m.what = "prepare" /\ m.req = q /\ Sent(q, g, m)
        /\ req[q].pc = "prepare"
        /\ Becomes(q, "wait", req[q].ix, req[q].todo, req[q].art, req[q].off, req[q].gens)
  BY PrepareFacts
<1>2. UNCHANGED <<lock, damage, replies, faults, session>>
  BY DEF SendPrepare
<1>3. lock = q /\ \A p \in Req \ {q} : req'[p] = req[p] /\ req[p].pc \notin Active
  BY <1>1 DEF HolderOnly, Active, Becomes
<1>4. /\ req' \in [Req -> Request] /\ req'[q].pc = "wait" /\ req'[q].gens = req[q].gens
      /\ \A p \in Req : req'[p].gens = req[p].gens
  BY <1>1, <1>3 DEF Becomes
<1>5. /\ link' \in [Agent -> Link]
      /\ \A h \in Agent : link'[h].gen = link[h].gen /\ link'[h].up = link[h].up
      /\ Delivered(g, m) \/ link' = link
  BY <1>1, SentFacts DEF Delivered, TypeOK
<1>6. TypeOK' /\ HolderOnly' /\ Position'
  <2>1. TypeOK'
    BY <1>2, <1>4, <1>5 DEF TypeOK
  <2>2. HolderOnly'
    BY <1>2, <1>3, <1>4 DEF HolderOnly, Active
  <2>3. Position'
    BY <1>3, <1>4, <1>5 DEF Position
  <2> QED  BY <2>1, <2>2, <2>3
<1>7. /\ OnlyLongIsCut' /\ DownIsEmpty' /\ VerifiedIsGood' /\ PreparedWithItsBytes'
      /\ SoundStream' /\ SoundTransfer' /\ FirstKnowsItsFiles' /\ BailsOnlyForCause'
      /\ \A h \in Agent : Abandoned(h) => Abandoned(h)'
  <2>1. m.what # "chunk" /\ req[q].pc \notin {"failed", "dropped"}
    BY <1>1
  <2> QED  BY <1>2, <1>3, <1>5, <2>1, SentSimple
<1>8. \A h \in Agent, b \in Artifact, p \in Req : ~Sending(p, h, b) /\ ~Sending(p, h, b)'
  BY <1>1, <1>3, <1>4 DEF Sending, Active
<1>9. \A p \in Req, h \in Agent : Reaches(p, h)' => Reaches(p, h)
  BY <1>4, <1>5 DEF Reaches, Current
<1>10. \A p \in Req, h \in Agent : SentTo(p, h)' \subseteq SentTo(p, h)
  BY <1>1, <1>3, <1>4 DEF SentTo, Active
<1>11. SUFFICES ASSUME NEW h \in Agent, NEW b \in Artifact
                PROVE  /\ SkipsNone(h, b)' /\ (~Abandoned(h)' => Ordered(h, b)')
                       /\ PreparesLast(h, b)'
  BY <1>6, <1>7 DEF NoneIsSkipped, InOrder, PrepareComesLast
<1>12. SkipsNone(h, b) /\ (~Abandoned(h) => Ordered(h, b)) /\ PreparesLast(h, b)
  BY DEF NoneIsSkipped, InOrder, PrepareComesLast
<1>13. CASE link'[h] = link[h]
  <2>1. PreparesLast(h, b)'
    BY <1>2, <1>9, <1>10, <1>12, <1>13 DEF PreparesLast
  <2> QED  BY <1>2, <1>7, <1>8, <1>12, <1>13, <2>1, ElsewhereKeeps
<1>14. CASE link'[h] # link[h]
  <2> DEFINE s == link[h].msgs
             r == Append(s, m)
             t == incoming[h][b]
             c == completed[h][b]
  <2>1. h = g /\ Delivered(g, m) /\ Reaches(q, h)
    BY <1>1, <1>14, SentFacts DEF Delivered
  <2>2. s \in Seq(Message)
    BY DEF TypeOK, Link
  <2>3. link'[h].msgs = r /\ incoming'[h][b] = t /\ completed'[h][b] = c
    BY <1>2, <2>1 DEF Delivered
  <2>4. /\ Len(r) = Len(s) + 1 /\ Len(s) \in Nat /\ r[Len(s) + 1] = m
        /\ \A i \in 1 .. Len(r) : i = Len(s) + 1 \/ (i \in 1 .. Len(s) /\ r[i] = s[i])
    BY <2>2, AppendFacts
  <2>5. \A i \in 1 .. Len(r) : i \in 1 .. Len(s) + 1
    BY <2>4
  <2>6. ~IsChunk(m, b)
    BY <1>1 DEF IsChunk
  <2>7. SkipsNone(h, b)'
    <3>1. ASSUME NEW i \in 1 .. Len(r), IsChunk(r[i], b), r[i].off > 0
          PROVE  BegunAt(r, i, b, t, c)
      <4>1. BegunAt(s, i, b, t, c)
        BY <1>12, <2>4, <2>6, <3>1 DEF SkipsNone
      <4> QED  BY <2>2, <2>5, <4>1, AppendKeeps
    <3> HIDE DEF r, t, c
    <3> QED  BY <1>8, <2>3, <3>1 DEF SkipsNone
  <2>8. ASSUME ~Abandoned(h)' PROVE Ordered(h, b)'
    <3>1. Ordered(h, b)
      BY <1>7, <1>12, <2>8
    <3>2. SettledAt(s, Len(s) + 1, b, t)
      BY <1>8, <3>1 DEF Ordered
    <3>3. ASSUME NEW i \in 1 .. Len(r)
          PROVE  /\ IsChunk(r[i], b) => ReadyAt(r, i, b, t, c, r[i].off)
                 /\ r[i].what = "prepare" => SettledAt(r, i, b, t)
      <4>1. CASE i = Len(s) + 1
        BY <2>2, <2>4, <2>5, <2>6, <3>2, <4>1, AppendKeeps
      <4>2. CASE i \in 1 .. Len(s) /\ r[i] = s[i]
        <5>1. /\ IsChunk(r[i], b) => ReadyAt(s, i, b, t, c, r[i].off)
              /\ r[i].what = "prepare" => SettledAt(s, i, b, t)
          BY <3>1, <4>2 DEF Ordered
        <5> QED  BY <2>2, <2>5, <5>1, AppendKeeps
      <4> QED  BY <2>4, <4>1, <4>2
    <3>4. SettledAt(r, Len(r) + 1, b, t)
      BY <2>2, <2>6, <3>2, AppendEnds
    <3> HIDE DEF r, t, c
    <3> QED  BY <1>8, <2>3, <3>3, <3>4 DEF Ordered
  <2>9. PreparesLast(h, b)'
    <3>1. ASSUME NEW p \in Req, b \in SentTo(p, h), Reaches(p, h)
          PROVE  CompleteAt(r, Len(r) + 1, b, c)
      <4>1. CompleteAt(s, Len(s) + 1, b, c)
        BY <1>12, <3>1 DEF PreparesLast
      <4> QED  BY <2>2, <4>1, AppendEnds
    <3>2. ASSUME NEW i \in 1 .. Len(r), r[i].what = "prepare", b \in Needs[r[i].req]
          PROVE  CompleteAt(r, i, b, c)
      <4>1. CompleteAt(s, i, b, c)
        <5>1. CASE i = Len(s) + 1
          <6>1. b \in SentTo(q, h)
            BY <1>1, <2>4, <3>2, <5>1 DEF SentTo
          <6> QED  BY <1>12, <2>1, <5>1, <6>1 DEF PreparesLast
        <5>2. CASE i \in 1 .. Len(s) /\ r[i] = s[i]
          BY <1>12, <3>2, <5>2 DEF PreparesLast
        <5> QED  BY <2>4, <5>1, <5>2
      <4> QED  BY <2>2, <2>5, <4>1, AppendKeeps
    <3> HIDE DEF r, t, c
    <3> QED  BY <1>9, <1>10, <2>3, <3>1, <3>2 DEF PreparesLast
  <2> QED  BY <2>7, <2>8, <2>9
<1> QED  BY <1>13, <1>14

-----------------------------------------------------------------------------
(* A connection ends *)

LEMMA LostFacts ==
  ASSUME TypeOK, NEW g \in Agent, Lost(g)
  PROVE  /\ link' \in [Agent -> Link]
         /\ \A h \in Agent : link'[h].gen = link[h].gen
         /\ \A h \in Agent \ {g} : /\ link'[h] = link[h] /\ incoming'[h] = incoming[h]
                                   /\ completed'[h] = completed[h]
         /\ link'[g].up = FALSE /\ link'[g].msgs = << >>
         /\ incoming' \in [Agent -> [Artifact -> Transfer \cup {None}]]
         /\ completed' \in [Agent -> [Artifact -> {"none", "good", "bad"}]]
         /\ incoming'[g] = NoTransfers /\ completed'[g] = NothingYet
         /\ prepared' \subseteq prepared
<1>1. link \in [Agent -> Link] /\ link[g] \in Link
  BY DEF TypeOK
<1> DEFINE l == [link[g] EXCEPT !.up = FALSE, !.msgs = << >>]
<1>2. l \in Link /\ l.gen = link[g].gen /\ l.up = FALSE /\ l.msgs = << >>
  <2>1. << >> \in Seq(Message)
    OBVIOUS
  <2>2. l \in Link
    BY <1>1, <2>1 DEF Link
  <2> QED  BY <1>1, <2>2 DEF Link
<1>3. link' = [link EXCEPT ![g] = l]
  BY DEF Lost
<1> HIDE DEF l
<1>4. /\ link' \in [Agent -> Link]
      /\ \A h \in Agent \ {g} : link'[h] = link[h]
      /\ \A h \in Agent : link'[h].gen = link[h].gen
      /\ link'[g].up = FALSE /\ link'[g].msgs = << >>
  BY <1>1, <1>2, <1>3
<1>5. NoTransfers \in [Artifact -> Transfer \cup {None}]
  BY DEF NoTransfers
<1>6. /\ incoming' \in [Agent -> [Artifact -> Transfer \cup {None}]]
      /\ incoming'[g] = NoTransfers /\ \A h \in Agent \ {g} : incoming'[h] = incoming[h]
  BY <1>5 DEF Lost, TypeOK
<1>7. NothingYet \in [Artifact -> {"none", "good", "bad"}]
  BY DEF NothingYet
<1>8. /\ completed' \in [Agent -> [Artifact -> {"none", "good", "bad"}]]
      /\ completed'[g] = NothingYet /\ \A h \in Agent \ {g} : completed'[h] = completed[h]
  BY <1>7 DEF Lost, TypeOK
<1>9. prepared' \subseteq prepared
  BY DEF Lost
<1> QED  BY <1>4, <1>6, <1>8, <1>9

(* On a stream that holds nothing, with nothing received, nothing is missing.  *)
LEMMA EmptyIsSettled ==
  ASSUME NEW g \in Agent, NEW a \in Artifact, link'[g].msgs = << >>,
         incoming'[g][a] = None, \A p \in Req : ~Reaches(p, g)'
  PROVE  SkipsNone(g, a)' /\ PreparesLast(g, a)' /\ Ordered(g, a)'
<1>1. Len(link'[g].msgs) = 0
  OBVIOUS
<1>2. \A p \in Req : ~Sending(p, g, a)'
  BY DEF Sending
<1>3. SettledAt(<< >>, 1, a, None)
  BY DEF SettledAt, LastBefore
<1>4. SkipsNone(g, a)' /\ PreparesLast(g, a)'
  BY <1>1, <1>2 DEF SkipsNone, PreparesLast
<1>5. Ordered(g, a)'
  BY <1>1, <1>2, <1>3 DEF Ordered
<1> QED  BY <1>4, <1>5

LEMMA LostKeeps ==
  ASSUME IInv, NEW g \in Agent, Lost(g), UNCHANGED <<lock, req, damage>>,
         parts' \in [Agent -> SUBSET Artifact], \A h \in Agent \ {g} : parts'[h] = parts[h],
         replies' \subseteq Req \X Role, faults' \in 0 .. MaxFaults,
         ended' \subseteq [agent : Agent, gen : 1 .. MaxGen, why : Reason],
         BailsOnlyForCause'
  PROVE  IInv'
<1> USE DEF IInv
<1>1. /\ link' \in [Agent -> Link]
      /\ \A h \in Agent : link'[h].gen = link[h].gen
      /\ \A h \in Agent \ {g} : /\ link'[h] = link[h] /\ incoming'[h] = incoming[h]
                                /\ completed'[h] = completed[h]
      /\ link'[g].up = FALSE /\ link'[g].msgs = << >>
      /\ incoming' \in [Agent -> [Artifact -> Transfer \cup {None}]]
      /\ completed' \in [Agent -> [Artifact -> {"none", "good", "bad"}]]
      /\ incoming'[g] = NoTransfers /\ completed'[g] = NothingYet
      /\ prepared' \subseteq prepared
  BY LostFacts
<1>2. TypeOK'
  BY <1>1 DEF TypeOK
<1>3. HolderOnly' /\ OnlyLongIsCut' /\ PreparedWithItsBytes'
  BY <1>1 DEF HolderOnly, OnlyLongIsCut, PreparedWithItsBytes
<1>4. Position'
  BY <1>1 DEF Position
<1>5. DownIsEmpty'
  BY <1>1 DEF DownIsEmpty
<1>6. \A a \in Artifact : incoming'[g][a] = None /\ completed'[g][a] = "none"
  BY <1>1 DEF NoTransfers, NothingYet
<1>7. VerifiedIsGood'
  BY <1>1, <1>6 DEF VerifiedIsGood
<1>8. SoundStream'
  BY <1>1 DEF SoundStream, SoundChunk
<1>9. SoundTransfer'
  BY <1>1, <1>6 DEF SoundTransfer
<1>10. FirstKnowsItsFiles'
  BY <1>1 DEF FirstKnowsItsFiles
<1>11. \A h \in Agent : Abandoned(h)' <=> Abandoned(h)
  BY <1>1 DEF Abandoned
<1>12. ASSUME NEW h \in Agent, NEW a \in Artifact
       PROVE  /\ SkipsNone(h, a)' /\ PreparesLast(h, a)'
              /\ ~Abandoned(h)' => Ordered(h, a)'
  <2>1. CASE h = g
    <3>1. \A p \in Req : ~Reaches(p, g)'
      BY <1>1 DEF Reaches
    <3> QED  BY <1>1, <1>6, <2>1, <3>1, EmptyIsSettled
  <2>2. CASE h # g
    <3>1. link'[h] = link[h] /\ incoming'[h] = incoming[h] /\ completed'[h] = completed[h]
      BY <1>1, <2>2
    <3>2. \A p \in Req : /\ Sending(p, h, a)' <=> Sending(p, h, a)
                         /\ Reaches(p, h)' <=> Reaches(p, h)
                         /\ SentTo(p, h)' = SentTo(p, h)
      BY <3>1 DEF Sending, Reaches, Current, SentTo
    <3>3. SkipsNone(h, a)' /\ PreparesLast(h, a)'
      BY <3>1, <3>2 DEF SkipsNone, PreparesLast, NoneIsSkipped, PrepareComesLast
    <3>4. ASSUME ~Abandoned(h)' PROVE Ordered(h, a)'
      <4>1. Ordered(h, a)
        BY <1>11, <3>4 DEF InOrder
      <4> QED  BY <3>1, <3>2, <4>1 DEF Ordered
    <3> QED  BY <3>3, <3>4
  <2> QED  BY <2>1, <2>2
<1>13. NoneIsSkipped' /\ PrepareComesLast' /\ InOrder'
  BY <1>12 DEF NoneIsSkipped, PrepareComesLast, InOrder
<1> QED  BY <1>2, <1>3, <1>4, <1>5, <1>7, <1>8, <1>9, <1>10, <1>13

-----------------------------------------------------------------------------
(* A message is received *)

LEMMA ReceivedKeeps ==
  ASSUME IInv, NEW g \in Agent, link[g].up, link[g].msgs # << >>, Consume(g),
         UNCHANGED <<lock, req, damage, ended, faults>>,
         incoming' \in [Agent -> [Artifact -> Transfer \cup {None}]],
         completed' \in [Agent -> [Artifact -> {"none", "good", "bad"}]],
         parts' \in [Agent -> SUBSET Artifact],
         replies' \subseteq Req \X Role,
         prepared' \subseteq [agent : Agent, req : Req, bytes : {"none", "good", "bad"}],
         \A h \in Agent \ {g} :
           incoming'[h] = incoming[h] /\ completed'[h] = completed[h] /\ parts'[h] = parts[h],
         \A a \in Artifact :
           Receives(link[g].msgs[1], a, incoming[g][a], completed[g][a],
                    incoming'[g][a], completed'[g][a]),
         VerifiedIsGood', SoundTransfer', FirstKnowsItsFiles', PreparedWithItsBytes'
  PROVE  IInv'
<1> USE DEF IInv
<1>1. link \in [Agent -> Link] /\ link[g] \in Link /\ link[g].msgs \in Seq(Message)
  BY DEF TypeOK, Link
<1> DEFINE s == link[g].msgs
           l == [link[g] EXCEPT !.msgs = Tail(s)]
<1>2. /\ Tail(s) \in Seq(Message) /\ Len(s) \in Nat \ {0} /\ Len(Tail(s)) = Len(s) - 1
      /\ \A i \in 1 .. Len(Tail(s)) : Tail(s)[i] = s[i + 1]
  BY <1>1, TailFacts
<1>3. l \in Link /\ l.gen = link[g].gen /\ l.up = link[g].up /\ l.msgs = Tail(s)
  BY <1>1, <1>2 DEF Link
<1>4. link' = [link EXCEPT ![g] = l]
  BY DEF Consume
<1> HIDE DEF l
<1>5. /\ link' \in [Agent -> Link] /\ link'[g].msgs = Tail(s)
      /\ \A h \in Agent : link'[h].gen = link[h].gen /\ link'[h].up = link[h].up
      /\ \A h \in Agent \ {g} : link'[h] = link[h]
  BY <1>1, <1>3, <1>4
<1>6. TypeOK'
  BY <1>5 DEF TypeOK
<1>7. HolderOnly' /\ OnlyLongIsCut' /\ BailsOnlyForCause'
  BY DEF HolderOnly, OnlyLongIsCut, BailsOnlyForCause
<1>8. Position'
  BY <1>5 DEF Position
<1>9. DownIsEmpty'
  BY <1>5 DEF DownIsEmpty
<1>10. SoundStream'
  <2>1. \A i \in 1 .. Len(Tail(s)) : i + 1 \in 1 .. Len(s)
    BY <1>2
  <2> HIDE DEF s
  <2>2. ASSUME NEW h \in Agent, NEW i \in 1 .. Len(link'[h].msgs),
               link'[h].msgs[i].what = "chunk"
        PROVE  SoundChunk(link'[h].msgs[i])
    <3>1. CASE h = g
      <4>1. i \in 1 .. Len(Tail(s)) /\ link'[h].msgs[i] = Tail(s)[i]
        BY <1>5, <2>2, <3>1
      <4>2. i + 1 \in 1 .. Len(s) /\ link'[h].msgs[i] = s[i + 1]
        BY <1>2, <2>1, <4>1
      <4> QED  BY <2>2, <4>2 DEF SoundStream, s
    <3>2. CASE h # g
      BY <1>5, <2>2, <3>2 DEF SoundStream
    <3> QED  BY <3>1, <3>2
  <2> QED  BY <2>2 DEF SoundStream, SoundChunk
<1>11. \A h \in Agent : Abandoned(h)' <=> Abandoned(h)
  BY <1>5 DEF Abandoned
<1>12. \A h \in Agent, a \in Artifact, p \in Req :
         /\ Sending(p, h, a)' <=> Sending(p, h, a)
         /\ Reaches(p, h)' <=> Reaches(p, h)
         /\ SentTo(p, h)' = SentTo(p, h)
  BY <1>5 DEF Sending, Reaches, Current, SentTo
<1>13. ASSUME NEW h \in Agent, NEW a \in Artifact
       PROVE  /\ SkipsNone(h, a)' /\ PreparesLast(h, a)'
              /\ ~Abandoned(h)' => Ordered(h, a)'
  <2>0. /\ SkipsNone(h, a) /\ PreparesLast(h, a)
        /\ ~Abandoned(h)' => Ordered(h, a)
    BY <1>11 DEF NoneIsSkipped, PrepareComesLast, InOrder
  <2>1. CASE h = g
    <3> DEFINE t == incoming[g][a]
               c == completed[g][a]
               u == incoming'[g][a]
               d == completed'[g][a]
               r == Tail(s)
    <3>1. Receives(s[1], a, t, c, u, d)
      OBVIOUS
    <3>2. link'[h].msgs = r /\ incoming'[h][a] = u /\ completed'[h][a] = d
      BY <1>5, <2>1
    <3>3. /\ Len(r) + 1 = Len(s) /\ Len(s) \in 1 .. Len(s)
          /\ \A i \in 1 .. Len(r) :
               i \in 1 .. Len(s) /\ i + 1 \in 1 .. Len(s) /\ r[i] = s[i + 1]
      BY <1>2
    <3> HIDE DEF t, c, u, d, r, s
    <3>4. \A off : \A i \in 1 .. Len(s) :
            /\ SettledAt(s, i + 1, a, t) => SettledAt(r, i, a, u)
            /\ ReadyAt(s, i + 1, a, t, c, off) => ReadyAt(r, i, a, u, d, off)
            /\ BegunAt(s, i + 1, a, t, c) => BegunAt(r, i, a, u, d)
            /\ CompleteAt(s, i + 1, a, c) => CompleteAt(r, i, a, d)
      BY <1>1, <3>1, TailKeeps DEF s, r
    <3>5. SkipsNone(h, a)'
      <4>1. /\ \A i \in 1 .. Len(s) : IsChunk(s[i], a) /\ s[i].off > 0 => BegunAt(s, i, a, t, c)
            /\ \A p \in Req : Sending(p, h, a) /\ req[p].off > 0
                 => BegunAt(s, Len(s) + 1, a, t, c)
        BY <2>0, <2>1 DEF SkipsNone, s, t, c
      <4>2. \A i \in 1 .. Len(r) : IsChunk(r[i], a) /\ r[i].off > 0 => BegunAt(r, i, a, u, d)
        BY <3>3, <3>4, <4>1
      <4>3. \A p \in Req : Sending(p, h, a)' /\ req'[p].off > 0
              => BegunAt(r, Len(r) + 1, a, u, d)
        BY <1>12, <3>3, <3>4, <4>1
      <4> QED  BY <3>2, <4>2, <4>3 DEF SkipsNone
    <3>6. PreparesLast(h, a)'
      <4>1. /\ \A i \in 1 .. Len(s) : s[i].what = "prepare" /\ a \in Needs[s[i].req]
                 => CompleteAt(s, i, a, c)
            /\ \A p \in Req : a \in SentTo(p, h) /\ Reaches(p, h)
                 => CompleteAt(s, Len(s) + 1, a, c)
        BY <2>0, <2>1 DEF PreparesLast, s, c
      <4>2. \A i \in 1 .. Len(r) : r[i].what = "prepare" /\ a \in Needs[r[i].req]
              => CompleteAt(r, i, a, d)
        BY <3>3, <3>4, <4>1
      <4>3. \A p \in Req : a \in SentTo(p, h)' /\ Reaches(p, h)'
              => CompleteAt(r, Len(r) + 1, a, d)
        BY <1>12, <3>3, <3>4, <4>1
      <4> QED  BY <3>2, <4>2, <4>3 DEF PreparesLast
    <3>7. ASSUME ~Abandoned(h)' PROVE Ordered(h, a)'
      <4>1. /\ \A i \in 1 .. Len(s) :
                 /\ IsChunk(s[i], a) => ReadyAt(s, i, a, t, c, s[i].off)
                 /\ s[i].what = "prepare" => SettledAt(s, i, a, t)
            /\ \A p \in Req : Sending(p, h, a) => ReadyAt(s, Len(s) + 1, a, t, c, req[p].off)
            /\ (\A p \in Req : Sending(p, h, a) => req[p].off = 0)
                 => SettledAt(s, Len(s) + 1, a, t)
        BY <2>0, <2>1, <3>7 DEF Ordered, s, t, c
      <4>2. \A i \in 1 .. Len(r) :
              /\ IsChunk(r[i], a) => ReadyAt(r, i, a, u, d, r[i].off)
              /\ r[i].what = "prepare" => SettledAt(r, i, a, u)
        BY <3>3, <3>4, <4>1
      <4>3. \A p \in Req : Sending(p, h, a)' => ReadyAt(r, Len(r) + 1, a, u, d, req'[p].off)
        BY <1>12, <3>3, <3>4, <4>1
      <4>4. (\A p \in Req : Sending(p, h, a)' => req'[p].off = 0)
              => SettledAt(r, Len(r) + 1, a, u)
        BY <1>12, <3>3, <3>4, <4>1
      <4> QED  BY <3>2, <4>2, <4>3, <4>4 DEF Ordered
    <3> QED  BY <3>5, <3>6, <3>7
  <2>2. CASE h # g
    <3>1. link'[h] = link[h] /\ incoming'[h] = incoming[h] /\ completed'[h] = completed[h]
      BY <1>5, <2>2
    <3>2. SkipsNone(h, a)' /\ PreparesLast(h, a)'
      BY <1>12, <2>0, <3>1 DEF SkipsNone, PreparesLast
    <3>3. Ordered(h, a) => Ordered(h, a)'
      BY <1>12, <3>1 DEF Ordered
    <3> QED  BY <2>0, <3>2, <3>3
  <2> QED  BY <2>1, <2>2
<1>14. NoneIsSkipped' /\ PrepareComesLast' /\ InOrder'
  BY <1>13 DEF NoneIsSkipped, PrepareComesLast, InOrder
<1> QED  BY <1>6, <1>7, <1>8, <1>9, <1>10, <1>14

-----------------------------------------------------------------------------
(* The Agent's command loop *)

(* What an Agent may end its connection over.                                  *)
Cause(g, why) ==
  \/ why = "exists" /\ link[g].gen > 1
  \/ why \in {"offset", "unfinished"} /\ Abandoned(g)
  \/ why = "digest" /\ \E a \in Artifact : damage[a] = "changed"

LEMMA BailKeeps ==
  ASSUME IInv, NEW g \in Agent, NEW why, Bail(g, why), Cause(g, why),
         UNCHANGED <<lock, req, damage, replies, faults>>,
         parts' \in [Agent -> SUBSET Artifact], \A h \in Agent \ {g} : parts'[h] = parts[h]
  PROVE  IInv'
<1> USE DEF IInv
<1>1. link[g].gen \in 1 .. MaxGen /\ why \in Reason
  BY DEF TypeOK, Link, Cause, Reason
<1>2. ended' = ended \cup {[agent |-> g, gen |-> link[g].gen, why |-> why]} /\ Lost(g)
  BY DEF Bail
<1>3. ended' \subseteq [agent : Agent, gen : 1 .. MaxGen, why : Reason]
  BY <1>1, <1>2 DEF TypeOK
<1>4. BailsOnlyForCause'
  <2> SUFFICES ASSUME NEW e \in ended'
               PROVE  \/ e.why = "exists" /\ e.gen > 1
                      \/ e.why \in {"offset", "unfinished"}
                           /\ \E q \in Req : /\ req[q].pc \in {"failed", "dropped"}
                                             /\ req[q].gens[e.agent] = e.gen
                      \/ e.why = "digest" /\ \E a \in Artifact : damage[a] = "changed"
    BY DEF BailsOnlyForCause
  <2>1. CASE e \in ended
    BY <2>1 DEF BailsOnlyForCause
  <2>2. CASE e = [agent |-> g, gen |-> link[g].gen, why |-> why]
    <3>1. e.agent = g /\ e.gen = link[g].gen /\ e.why = why
      BY <2>2
    <3> QED  BY <3>1 DEF Cause, Abandoned
  <2> QED  BY <1>2, <2>1, <2>2
<1>5. replies' \subseteq Req \X Role /\ faults' \in 0 .. MaxFaults
  BY DEF TypeOK
<1> QED  BY <1>2, <1>3, <1>4, <1>5, LostKeeps

(* The message at the head of a stream is the next part of its transfer,       *)
(* unless a start of this connection was given up.                             *)
LEMMA HeadChunk ==
  ASSUME IInv, NEW g \in Agent, link[g].up, link[g].msgs # << >>,
         NEW m, m = Head(link[g].msgs), m.what = "chunk"
  PROVE  /\ m = link[g].msgs[1] /\ m \in Message
         /\ m.art \in Artifact /\ m.off \in Nat /\ m.len \in 0 .. 1
         /\ m.good \in BOOLEAN /\ m.eof \in BOOLEAN
         /\ SoundChunk(m)
         /\ completed[g][m.art] = "none" /\ m.off # 0 => incoming[g][m.art] # None
         /\ completed[g][m.art] = "none" /\ ~Abandoned(g) => m.off = Opened(g, m.art).got
<1> USE DEF IInv
<1> DEFINE s == link[g].msgs
           a == m.art
<1>1. s \in Seq(Message)
  BY DEF TypeOK, Link
<1>2. m = s[1] /\ m \in Message /\ 1 \in 1 .. Len(s)
  BY <1>1, TailFacts
<1>3. /\ m.art \in Artifact /\ m.off \in Nat /\ m.len \in 0 .. 1
      /\ m.good \in BOOLEAN /\ m.eof \in BOOLEAN
  BY <1>2 DEF Message
<1>4. SoundChunk(m)
  BY <1>2 DEF SoundStream
<1>5. IsChunk(m, a)
  BY DEF IsChunk
<1>6. ASSUME completed[g][a] = "none", m.off # 0 PROVE incoming[g][a] # None
  <2>1. BegunAt(s, 1, a, incoming[g][a], completed[g][a])
    BY <1>2, <1>3, <1>5, <1>6 DEF NoneIsSkipped, SkipsNone
  <2> QED  BY <1>6, <2>1 DEF BegunAt
<1>7. ASSUME completed[g][a] = "none", ~Abandoned(g) PROVE m.off = Opened(g, a).got
  <2>1. ReadyAt(s, 1, a, incoming[g][a], completed[g][a], m.off)
    BY <1>2, <1>3, <1>5, <1>7 DEF InOrder, Ordered
  <2>2. NoneBefore(s, 1, a)
    BY DEF NoneBefore
  <2> QED  BY <1>7, <2>1, <2>2 DEF ReadyAt, Opened
<1> QED  BY <1>2, <1>3, <1>4, <1>6, <1>7

LEMMA HeadPrepare ==
  ASSUME IInv, NEW g \in Agent, link[g].up, link[g].msgs # << >>,
         NEW m, m = Head(link[g].msgs), m.what = "prepare"
  PROVE  /\ m = link[g].msgs[1] /\ m.req \in Req /\ m.role \in Role
         /\ \A a \in Needs[m.req] : completed[g][a] # "none"
         /\ ~Abandoned(g) => \A a \in Artifact : incoming[g][a] = None
<1> USE DEF IInv
<1> DEFINE s == link[g].msgs
<1>1. s \in Seq(Message)
  BY DEF TypeOK, Link
<1>2. m = s[1] /\ m \in Message /\ 1 \in 1 .. Len(s)
  BY <1>1, TailFacts
<1>3. m.req \in Req /\ m.role \in Role
  BY <1>2 DEF Message
<1>4. ASSUME NEW a \in Needs[m.req] PROVE completed[g][a] # "none"
  <2>1. a \in Artifact
    BY <1>3, TransferAssumption
  <2>2. CompleteAt(s, 1, a, completed[g][a])
    BY <1>2, <2>1 DEF PrepareComesLast, PreparesLast
  <2> QED  BY <2>2 DEF CompleteAt
<1>5. ASSUME ~Abandoned(g), NEW a \in Artifact PROVE incoming[g][a] = None
  <2>1. SettledAt(s, 1, a, incoming[g][a])
    BY <1>2, <1>5 DEF InOrder, Ordered
  <2>2. NoneBefore(s, 1, a)
    BY DEF NoneBefore
  <2> QED  BY <2>1, <2>2 DEF SettledAt
<1> QED  BY <1>2, <1>3, <1>4, <1>5

LEMMA ChunkReceived ==
  ASSUME IInv, NEW g \in Agent, link[g].up, link[g].msgs # << >>,
         NEW m, m = Head(link[g].msgs), m.what = "chunk", Chunk(g, m),
         UNCHANGED <<lock, req, damage, replies, faults>>
  PROVE  IInv'
<1> USE DEF IInv
<1> DEFINE a == m.art
           o == Opened(g, a)
           t == [got |-> o.got + m.len, good |-> o.good /\ m.good]
<1>1. /\ m = link[g].msgs[1] /\ m \in Message
      /\ a \in Artifact /\ m.off \in Nat /\ m.len \in 0 .. 1
      /\ m.good \in BOOLEAN /\ m.eof \in BOOLEAN /\ IsChunk(m, a)
  BY HeadChunk DEF IsChunk
<1>2. SoundChunk(m) /\ Size[a] \in Nat
  BY <1>1, HeadChunk, TransferAssumption
<1>3. /\ completed[g][a] = "none" /\ m.off # 0 => incoming[g][a] # None
      /\ completed[g][a] = "none" /\ ~Abandoned(g) => m.off = o.got
  BY HeadChunk
<1>4. incoming[g][a] \in Transfer \cup {None} /\ parts[g] \subseteq Artifact
  BY <1>1 DEF TypeOK
<1>5. /\ o \in Transfer /\ o.got \in Nat /\ o.good \in BOOLEAN
      /\ incoming[g][a] = None => o.got = 0 /\ o.good
      /\ incoming[g][a] # None => o = incoming[g][a]
  BY <1>4 DEF Opened, Transfer
<1>6. t \in Transfer /\ t # None
  <2>1. o.got + m.len \in Nat /\ (o.good /\ m.good) \in BOOLEAN
    BY <1>1, <1>5
  <2>2. t \in Transfer
    BY <2>1 DEF Transfer
  <2> HIDE DEF t
  <2> QED BY <2>2, NoneAssumption
<1>7. ~t.good => damage[a] = "changed"
  BY <1>1, <1>2, <1>5 DEF SoundTransfer, SoundChunk
<1>8. replies' \subseteq Req \X Role
  BY DEF TypeOK
<1>9. ASSUME Refused(g, m) = None
      PROVE  m.off = o.got /\ (incoming[g][a] = None => a \notin parts[g])
  BY <1>9, NoneAssumption DEF Refused, Reason
<1>10. CASE AlreadyComplete(g, m) /\ Consume(g)
              /\ UNCHANGED <<incoming, completed, parts, prepared, ended>>
  <2>1. incoming[g][a] = None /\ completed[g][a] # "none"
    BY <1>1, <1>10 DEF AlreadyComplete, VerifiedIsGood
  <2>2. \A b \in Artifact : Receives(link[g].msgs[1], b, incoming[g][b], completed[g][b],
                                     incoming'[g][b], completed'[g][b])
    BY <1>1, <1>10, <2>1 DEF Receives, IsChunk
  <2>3. VerifiedIsGood' /\ SoundTransfer' /\ PreparedWithItsBytes'
    BY <1>10 DEF VerifiedIsGood, SoundTransfer, PreparedWithItsBytes
  <2>4. FirstKnowsItsFiles'
    BY <1>10 DEF FirstKnowsItsFiles, Consume, TypeOK, Link
  <2> QED  BY <1>10, <1>8, <2>2, <2>3, <2>4, ReceivedKeeps DEF TypeOK
<1>11. CASE /\ ~AlreadyComplete(g, m) /\ Refused(g, m) # None
            /\ Bail(g, Refused(g, m)) /\ UNCHANGED parts
  <2>1. completed[g][a] = "none"
    BY <1>11 DEF AlreadyComplete
  <2>2. Cause(g, Refused(g, m))
    <3>1. CASE incoming[g][a] = None /\ a \in parts[g]
      <4>1. Refused(g, m) = "exists"
        BY <1>3, <2>1, <3>1 DEF Refused
      <4>2. link[g].gen # 1 /\ link[g].gen \in 1 .. MaxGen
        BY <2>1, <3>1 DEF FirstKnowsItsFiles, TypeOK, Link
      <4>3. link[g].gen > 1
        BY <4>2, TransferAssumption
      <4> QED  BY <4>1, <4>3 DEF Cause
    <3>2. CASE ~(incoming[g][a] = None /\ a \in parts[g]) /\ m.off # o.got
      <4>1. Refused(g, m) = "offset"
        BY <1>3, <2>1, <3>2 DEF Refused
      <4> QED  BY <1>3, <2>1, <3>2, <4>1 DEF Cause
    <3>3. CASE ~(incoming[g][a] = None /\ a \in parts[g]) /\ m.off = o.got
      <4>1. ~(o.got + m.len > Size[a])
        BY <1>1, <1>2, <3>3 DEF SoundChunk
      <4> QED  BY <1>3, <1>11, <2>1, <3>3, <4>1 DEF Refused
    <3> QED  BY <3>1, <3>2, <3>3
  <2> HIDE DEF a
  <2> QED  BY <1>11, <2>2, BailKeeps DEF TypeOK
<1>12. CASE /\ ~AlreadyComplete(g, m) /\ Refused(g, m) = None /\ ~m.eof
            /\ incoming' = [incoming EXCEPT ![g][a] = t]
            /\ parts' = [parts EXCEPT ![g] = @ \cup {a}]
            /\ Consume(g) /\ UNCHANGED <<completed, prepared, ended>>
  <2>1. completed[g][a] = "none" /\ t.got = m.off + m.len
    BY <1>9, <1>12 DEF AlreadyComplete
  <2> HIDE DEF t, a
  <2>2. /\ incoming' \in [Agent -> [Artifact -> Transfer \cup {None}]]
        /\ incoming'[g][a] = t
        /\ \A b \in Artifact \ {a} : incoming'[g][b] = incoming[g][b]
        /\ \A h \in Agent \ {g} : incoming'[h] = incoming[h]
    BY <1>1, <1>6, <1>12 DEF TypeOK
  <2>3. /\ parts' \in [Agent -> SUBSET Artifact] /\ parts'[g] = parts[g] \cup {a}
        /\ \A h \in Agent \ {g} : parts'[h] = parts[h]
    BY <1>1, <1>12 DEF TypeOK
  <2>4. \A b \in Artifact : Receives(link[g].msgs[1], b, incoming[g][b], completed[g][b],
                                     incoming'[g][b], completed'[g][b])
    <3>1. \A b \in Artifact \ {a} : ~IsChunk(m, b)
      BY DEF IsChunk, a
    <3> QED  BY <1>1, <1>6, <1>12, <2>1, <2>2, <3>1 DEF Receives
  <2>5. VerifiedIsGood'
    BY <1>12, <2>1, <2>2 DEF VerifiedIsGood
  <2>6. SoundTransfer'
    BY <1>7, <2>2 DEF SoundTransfer
  <2>7. FirstKnowsItsFiles'
    <3>1. \A h \in Agent : link'[h].gen = link[h].gen /\ link'[h].up = link[h].up
      BY <1>12 DEF Consume, TypeOK, Link
    <3>2. ASSUME NEW h \in Agent, link'[h].gen = 1, link'[h].up, NEW x \in parts'[h]
          PROVE  incoming'[h][x] # None \/ completed'[h][x] # "none"
      <4>1. CASE h # g
        BY <3>1, <3>2, <4>1, <1>12, <2>2, <2>3 DEF FirstKnowsItsFiles
      <4>2. CASE h = g /\ x = a
        BY <1>6, <2>2, <4>2
      <4>3. CASE h = g /\ x # a
        <5>1. x \in parts[g] /\ x \in Artifact
          BY <3>2, <4>3, <1>12, <2>2, <2>3 DEF TypeOK
        <5>2. incoming[g][x] # None \/ completed[g][x] # "none"
          BY <3>1, <3>2, <4>3, <5>1 DEF FirstKnowsItsFiles
        <5> QED  BY <4>3, <5>1, <5>2, <1>12, <2>2, <2>3
      <4> QED  BY <4>1, <4>2, <4>3
    <3> QED  BY <3>2 DEF FirstKnowsItsFiles
  <2>8. PreparedWithItsBytes'
    BY <1>12 DEF PreparedWithItsBytes
  <2> QED  BY <1>8, <1>12, <2>2, <2>3, <2>4, <2>5, <2>6, <2>7, <2>8, ReceivedKeeps DEF TypeOK
<1>13. CASE /\ ~AlreadyComplete(g, m) /\ Refused(g, m) = None /\ m.eof
            /\ Verdict(t, a) # None
            /\ Bail(g, Verdict(t, a))
            /\ parts' = [parts EXCEPT ![g] = IF Verdict(t, a) = "digest" THEN @ \ {a}
                                                                    ELSE @ \cup {a}]
  <2>1. t.got = Size[a]
    BY <1>2, <1>9, <1>13 DEF SoundChunk
  <2>2. Verdict(t, a) = "digest" /\ ~t.good
    BY <1>13, <2>1 DEF Verdict
  <2>3. Cause(g, Verdict(t, a))
    BY <1>1, <1>7, <2>2 DEF Cause
  <2> HIDE DEF t, a
  <2>4. parts' \in [Agent -> SUBSET Artifact] /\ \A h \in Agent \ {g} : parts'[h] = parts[h]
    BY <1>1, <1>13 DEF TypeOK
  <2> QED  BY <1>13, <2>3, <2>4, BailKeeps
<1>14. CASE /\ ~AlreadyComplete(g, m) /\ Refused(g, m) = None /\ m.eof
            /\ Verdict(t, a) = None
            /\ incoming' = [incoming EXCEPT ![g][a] = None]
            /\ completed' = [completed EXCEPT ![g][a] = IF t.good THEN "good" ELSE "bad"]
            /\ parts' = [parts EXCEPT ![g] = IF a \in Captures THEN @ \cup {a} ELSE @ \ {a}]
            /\ Consume(g) /\ UNCHANGED <<prepared, ended>>
  <2>1. completed[g][a] = "none"
    BY <1>14 DEF AlreadyComplete
  <2>2. t.good
    BY <1>14, NoneAssumption DEF Verdict, Reason
  <2> HIDE DEF t, a
  <2>3. /\ incoming' \in [Agent -> [Artifact -> Transfer \cup {None}]]
        /\ incoming'[g][a] = None
        /\ \A b \in Artifact \ {a} : incoming'[g][b] = incoming[g][b]
        /\ \A h \in Agent \ {g} : incoming'[h] = incoming[h]
    BY <1>1, <1>14 DEF TypeOK
  <2>4. /\ completed' \in [Agent -> [Artifact -> {"none", "good", "bad"}]]
        /\ completed'[g][a] = "good"
        /\ \A b \in Artifact \ {a} : completed'[g][b] = completed[g][b]
        /\ \A h \in Agent \ {g} : completed'[h] = completed[h]
    BY <1>1, <1>14, <2>2 DEF TypeOK
  <2>5. /\ parts' \in [Agent -> SUBSET Artifact] /\ parts'[g] \subseteq parts[g] \cup {a}
        /\ \A h \in Agent \ {g} : parts'[h] = parts[h]
    BY <1>1, <1>14 DEF TypeOK
  <2>6. \A b \in Artifact : Receives(link[g].msgs[1], b, incoming[g][b], completed[g][b],
                                     incoming'[g][b], completed'[g][b])
    <3>1. \A b \in Artifact \ {a} : ~IsChunk(m, b)
      BY DEF IsChunk, a
    <3> QED  BY <1>1, <1>14, <2>1, <2>3, <2>4, <3>1 DEF Receives
  <2>7. VerifiedIsGood'
    BY <2>3, <2>4 DEF VerifiedIsGood
  <2>8. SoundTransfer'
    BY <2>3 DEF SoundTransfer
  <2>9. FirstKnowsItsFiles'
    <3>1. \A h \in Agent : link'[h].gen = link[h].gen /\ link'[h].up = link[h].up
      BY <1>14 DEF Consume, TypeOK, Link
    <3>2. ASSUME NEW h \in Agent, link'[h].gen = 1, link'[h].up, NEW x \in parts'[h]
          PROVE  incoming'[h][x] # None \/ completed'[h][x] # "none"
      <4>1. CASE h # g
        BY <3>1, <3>2, <4>1, <2>3, <2>4, <2>5 DEF FirstKnowsItsFiles
      <4>2. CASE h = g /\ x = a
        BY <2>4, <4>2
      <4>3. CASE h = g /\ x # a
        <5>1. x \in parts[g] /\ x \in Artifact
          BY <3>2, <4>3, <2>3, <2>4, <2>5 DEF TypeOK
        <5>2. incoming[g][x] # None \/ completed[g][x] # "none"
          BY <3>1, <3>2, <4>3, <5>1 DEF FirstKnowsItsFiles
        <5> QED  BY <4>3, <5>1, <5>2, <2>3, <2>4, <2>5
      <4> QED  BY <4>1, <4>2, <4>3
    <3> QED  BY <3>2 DEF FirstKnowsItsFiles
  <2>10. PreparedWithItsBytes'
    BY <1>14 DEF PreparedWithItsBytes
  <2> QED  BY <1>8, <1>14, <2>3, <2>4, <2>5, <2>6, <2>7, <2>8, <2>9, <2>10, ReceivedKeeps
           DEF TypeOK
<1> QED  BY <1>10, <1>11, <1>12, <1>13, <1>14 DEF Chunk

LEMMA PrepareReceived ==
  ASSUME IInv, NEW g \in Agent, link[g].up, link[g].msgs # << >>,
         NEW m, m = Head(link[g].msgs), m.what = "prepare", Prepare(g, m),
         UNCHANGED <<lock, req, damage, faults>>
  PROVE  IInv'
<1> USE DEF IInv
<1>1. m = link[g].msgs[1] /\ m.req \in Req /\ m.role \in Role
  BY HeadPrepare
<1>2. /\ \A a \in Needs[m.req] : completed[g][a] # "none"
      /\ ~Abandoned(g) => \A a \in Artifact : incoming[g][a] = None
  BY HeadPrepare
<1>3. CASE /\ \E a \in Artifact : incoming[g][a] # None
           /\ Bail(g, "unfinished") /\ UNCHANGED <<parts, replies>>
  <2>1. Cause(g, "unfinished")
    BY <1>2, <1>3 DEF Cause
  <2> QED  BY <1>3, <2>1, BailKeeps DEF TypeOK
<1>4. Bytes(g, m.req) = "good"
  <2>1. \A a \in Needs[m.req] : completed[g][a] # "bad"
    BY <1>1, TransferAssumption DEF VerifiedIsGood
  <2> QED  BY <1>2, <2>1 DEF Bytes
<1>5. CASE /\ \A a \in Artifact : incoming[g][a] = None
           /\ prepared' = prepared \cup {[agent |-> g, req |-> m.req, bytes |-> Bytes(g, m.req)]}
           /\ replies' = replies \cup {<<m.req, m.role>>}
           /\ Consume(g) /\ UNCHANGED <<incoming, completed, parts, ended>>
  <2>1. \A b \in Artifact : Receives(link[g].msgs[1], b, incoming[g][b], completed[g][b],
                                     incoming'[g][b], completed'[g][b])
    BY <1>1, <1>5 DEF Receives, IsChunk
  <2>2. VerifiedIsGood' /\ SoundTransfer'
    BY <1>5 DEF VerifiedIsGood, SoundTransfer
  <2>3. FirstKnowsItsFiles'
    BY <1>5 DEF FirstKnowsItsFiles, Consume, TypeOK, Link
  <2>4. /\ prepared' \subseteq [agent : Agent, req : Req, bytes : {"none", "good", "bad"}]
        /\ PreparedWithItsBytes' /\ replies' \subseteq Req \X Role
    BY <1>1, <1>4, <1>5 DEF PreparedWithItsBytes, TypeOK
  <2>5. /\ incoming' \in [Agent -> [Artifact -> Transfer \cup {None}]]
        /\ completed' \in [Agent -> [Artifact -> {"none", "good", "bad"}]]
        /\ parts' \in [Agent -> SUBSET Artifact]
    BY <1>5 DEF TypeOK
  <2> QED  BY <1>5, <2>1, <2>2, <2>3, <2>4, <2>5, ReceivedKeeps
<1> QED  BY <1>3, <1>4, <1>5 DEF Prepare

-----------------------------------------------------------------------------
(* What may go wrong *)

LEMMA DamageKeeps ==
  ASSUME IInv, NEW a \in Artifact, FileDamaged(a)
  PROVE  IInv'
<1> USE DEF IInv
<1>1. /\ UNCHANGED <<lock, req, link, replies, session>>
      /\ faults' \in 0 .. MaxFaults /\ damage[a] = "none"
  BY TransferAssumption DEF FileDamaged, Fault, TypeOK
<1>2. PICK d \in {"short", "changed"} :
        (d = "short" => Size[a] > 0) /\ damage' = [damage EXCEPT ![a] = d]
  BY DEF FileDamaged
<1>3. /\ damage' \in [Artifact -> {"none", "short", "changed"}]
      /\ \A b \in Artifact : damage[b] = "changed" => damage'[b] = "changed"
      /\ OnlyLongIsCut'
  BY <1>1, <1>2 DEF TypeOK, OnlyLongIsCut
<1>4. TypeOK' /\ HolderOnly' /\ Position'
  BY <1>1, <1>3 DEF TypeOK, HolderOnly, Position, session
<1>5. DownIsEmpty' /\ VerifiedIsGood' /\ FirstKnowsItsFiles' /\ PreparedWithItsBytes'
  BY <1>1 DEF DownIsEmpty, VerifiedIsGood, FirstKnowsItsFiles, PreparedWithItsBytes, session
<1>6. SoundStream'
  <2>1. \A g \in Agent : \A i \in 1 .. Len(link[g].msgs) :
          link[g].msgs[i].what = "chunk" => link[g].msgs[i].art \in Artifact
    BY DEF TypeOK, Link, Message
  <2> QED  BY <1>1, <1>3, <2>1 DEF SoundStream, SoundChunk
<1>7. SoundTransfer' /\ BailsOnlyForCause'
  BY <1>1, <1>3 DEF SoundTransfer, BailsOnlyForCause, session
<1>8. NoneIsSkipped' /\ PrepareComesLast' /\ InOrder'
  <2>1. \A g \in Agent, b \in Artifact, p \in Req :
          /\ Sending(p, g, b)' <=> Sending(p, g, b)
          /\ Reaches(p, g)' <=> Reaches(p, g)
          /\ SentTo(p, g)' = SentTo(p, g)
    BY <1>1 DEF Sending, Reaches, Current, SentTo
  <2>4. \A g \in Agent : Abandoned(g)' <=> Abandoned(g)
    BY <1>1 DEF Abandoned
  <2>2. NoneIsSkipped' /\ PrepareComesLast'
    BY <1>1, <2>1 DEF NoneIsSkipped, SkipsNone, PrepareComesLast, PreparesLast, session
  <2>3. ASSUME NEW g \in Agent, NEW b \in Artifact
        PROVE  ~Abandoned(g)' => Ordered(g, b)'
    <3>1. Ordered(g, b) => Ordered(g, b)'
      BY <1>1, <2>1 DEF Ordered, session
    <3> QED  BY <2>4, <3>1 DEF InOrder
  <2> QED  BY <2>2, <2>3 DEF InOrder
<1> QED  BY <1>3, <1>4, <1>5, <1>6, <1>7, <1>8

LEMMA BreakKeeps ==
  ASSUME IInv, NEW g \in Agent, ConnectionBreaks(g)
  PROVE  IInv'
<1>1. /\ Lost(g) /\ UNCHANGED <<lock, req, damage, parts, replies, ended>>
      /\ faults' \in 0 .. MaxFaults
  BY TransferAssumption DEF ConnectionBreaks, Fault, IInv, TypeOK
<1>2. BailsOnlyForCause'
  BY <1>1 DEF BailsOnlyForCause, IInv
<1> QED  BY <1>1, <1>2, LostKeeps DEF IInv, TypeOK

(* A connection that is gone, or is new, holds nothing; nobody sends over it.  *)
LEMMA LinkKeeps ==
  ASSUME IInv, NEW g \in Agent, ControlNotices(g) \/ Reconnect(g)
  PROVE  IInv'
<1> USE DEF IInv, session
<1>1. /\ ~link[g].up
      /\ UNCHANGED <<lock, req, damage, replies, faults, session>>
  BY DEF ControlNotices, Reconnect
<1>2. link \in [Agent -> Link] /\ link[g] \in Link /\ link[g].gen \in 1 .. MaxGen
  BY DEF TypeOK, Link
<1>3. link[g].msgs = << >> /\ incoming[g] = NoTransfers /\ completed[g] = NothingYet
  BY <1>1 DEF DownIsEmpty
<1>4. /\ link' \in [Agent -> Link] /\ link'[g].msgs = << >>
      /\ \A h \in Agent \ {g} : link'[h] = link[h]
      /\ \/ link'[g].gen = link[g].gen /\ ~link'[g].up
         \/ link'[g].gen = link[g].gen + 1
  <2>1. CASE ControlNotices(g)
    <3> DEFINE l == [link[g] EXCEPT !.open = FALSE]
    <3>1. l \in Link /\ l.gen = link[g].gen /\ l.up = link[g].up /\ l.msgs = link[g].msgs
      BY <1>2 DEF Link
    <3>2. link' = [link EXCEPT ![g] = l]
      BY <2>1 DEF ControlNotices
    <3> HIDE DEF l
    <3> QED  BY <1>1, <1>2, <1>3, <3>1, <3>2
  <2>2. CASE Reconnect(g)
    <3> DEFINE l == [Fresh EXCEPT !.gen = link[g].gen + 1]
    <3>1. link[g].gen + 1 \in 1 .. MaxGen
      BY <1>2, <2>2, TransferAssumption DEF Reconnect
    <3>2. l \in Link /\ l.gen = link[g].gen + 1 /\ l.msgs = << >>
      <4>1. Fresh \in Link /\ Fresh.msgs = << >>
        BY TransferAssumption DEF Fresh, Link
      <4>2. l \in Link /\ l.gen = link[g].gen + 1 /\ l.msgs = Fresh.msgs
        BY <3>1, <4>1 DEF Link
      <4> QED  BY <4>1, <4>2
    <3>3. link' = [link EXCEPT ![g] = l]
      BY <2>2 DEF Reconnect
    <3> HIDE DEF l
    <3> QED  BY <1>2, <3>2, <3>3
  <2> QED  BY <2>1, <2>2
<1>5. TypeOK' /\ HolderOnly' /\ OnlyLongIsCut'
  BY <1>1, <1>4 DEF TypeOK, HolderOnly, OnlyLongIsCut
<1>6. \A p \in Req : req[p].gens[g] \in Nat /\ req[p].gens[g] <= link[g].gen
  BY TransferAssumption DEF TypeOK, Request, Position
<1>7. \A p \in Req : ~Reaches(p, g)'
  BY <1>1, <1>2, <1>4, <1>6 DEF Reaches, Current
<1>8. Position'
  BY <1>1, <1>2, <1>4, <1>6 DEF Position
<1>9. DownIsEmpty' /\ VerifiedIsGood' /\ PreparedWithItsBytes' /\ SoundTransfer'
  BY <1>1, <1>3, <1>4 DEF DownIsEmpty, VerifiedIsGood, PreparedWithItsBytes, SoundTransfer
<1>10. SoundStream'
  BY <1>1, <1>4 DEF SoundStream, SoundChunk
<1>11. FirstKnowsItsFiles'
  BY <1>1, <1>2, <1>4 DEF FirstKnowsItsFiles
<1>12. BailsOnlyForCause'
  BY <1>1 DEF BailsOnlyForCause
<1>13. ASSUME NEW h \in Agent, NEW a \in Artifact
       PROVE  /\ SkipsNone(h, a)' /\ PreparesLast(h, a)'
              /\ ~Abandoned(h)' => Ordered(h, a)'
  <2>1. CASE h = g
    <3>1. incoming'[g][a] = None
      BY <1>1, <1>3 DEF NoTransfers
    <3> QED  BY <1>4, <1>7, <2>1, <3>1, EmptyIsSettled
  <2>2. CASE h # g
    <3>1. link'[h] = link[h]
      BY <1>4, <2>2
    <3>2. \A p \in Req : /\ Sending(p, h, a)' <=> Sending(p, h, a)
                         /\ Reaches(p, h)' <=> Reaches(p, h)
                         /\ SentTo(p, h)' = SentTo(p, h)
      BY <1>1, <3>1 DEF Sending, Reaches, Current, SentTo
    <3>3. Abandoned(h)' <=> Abandoned(h)
      BY <1>1, <3>1 DEF Abandoned
    <3>4. SkipsNone(h, a)' /\ PreparesLast(h, a)'
      BY <1>1, <3>1, <3>2 DEF SkipsNone, PreparesLast, NoneIsSkipped, PrepareComesLast
    <3>5. Ordered(h, a) => Ordered(h, a)'
      BY <1>1, <3>1, <3>2 DEF Ordered
    <3> QED  BY <3>3, <3>4, <3>5 DEF InOrder
  <2> QED  BY <2>1, <2>2
<1>14. NoneIsSkipped' /\ PrepareComesLast' /\ InOrder'
  BY <1>13 DEF NoneIsSkipped, PrepareComesLast, InOrder
<1> QED  BY <1>5, <1>8, <1>9, <1>10, <1>11, <1>12, <1>14

-----------------------------------------------------------------------------
(* The theorems *)

LEMMA InvInit == Init => IInv
<1> SUFFICES ASSUME Init PROVE IInv
  OBVIOUS
<1> USE DEF Init
<1>1. \A q \in Req : req[q] = Unstarted /\ Unstarted.pc = "idle" /\ Unstarted.ix = 1
  BY DEF Unstarted
<1>2. \A g \in Agent :
        /\ link[g].gen = 1 /\ link[g].msgs = << >> /\ Len(link[g].msgs) = 0
        /\ incoming[g] = NoTransfers /\ completed[g] = NothingYet /\ parts[g] = {}
  BY DEF Fresh
<1>3. Position
  <2>1. \A g \in Agent : Unstarted.gens[g] = 0
    BY DEF Unstarted
  <2> QED  BY <1>1, <1>2, <2>1 DEF Position
<1>4. HolderOnly /\ OnlyLongIsCut /\ PreparedWithItsBytes /\ BailsOnlyForCause
  BY <1>1 DEF HolderOnly, Active, OnlyLongIsCut, PreparedWithItsBytes, BailsOnlyForCause
<1>5. DownIsEmpty /\ FirstKnowsItsFiles /\ SoundStream
  BY <1>2 DEF DownIsEmpty, FirstKnowsItsFiles, SoundStream
<1>6. VerifiedIsGood /\ SoundTransfer
  BY <1>2 DEF VerifiedIsGood, SoundTransfer, NoTransfers, NothingYet
<1>7. \A q \in Req, g \in Agent, a \in Artifact : ~Sending(q, g, a) /\ a \notin SentTo(q, g)
  BY <1>1 DEF Sending, SentTo
<1>8. NoneIsSkipped /\ PrepareComesLast
  BY <1>2, <1>7 DEF NoneIsSkipped, SkipsNone, PrepareComesLast, PreparesLast
<1>9. InOrder
  <2>1. \A a \in Artifact : SettledAt(<< >>, 1, a, None)
    BY DEF SettledAt, LastBefore
  <2>2. \A g \in Agent, a \in Artifact : incoming[g][a] = None
    BY <1>2 DEF NoTransfers
  <2> QED  BY <1>2, <1>7, <2>1, <2>2 DEF InOrder, Ordered
<1> QED  BY <1>3, <1>4, <1>5, <1>6, <1>8, <1>9, TypeInit DEF IInv

LEMMA InvNext == IInv /\ [Next]_vars => IInv'
<1> SUFFICES ASSUME IInv, [Next]_vars PROVE IInv'
  OBVIOUS
<1>1. ASSUME NEW q \in Req,
             \/ StartBegin(q) \/ FindArtifact(q) \/ SendFails(q)
             \/ Acknowledged(q) \/ AckTimesOut(q) \/ RequestDropped(q)
      PROVE  IInv'
  BY <1>1, ControlSteps, ControlKeeps DEF IInv
<1>2. ASSUME NEW q \in Req, SendChunk(q) PROVE IInv'
  BY <1>2, ChunkKeeps
<1>3. ASSUME NEW q \in Req, SendPrepare(q) PROVE IInv'
  BY <1>3, PrepareSentKeeps
<1>4. ASSUME NEW g \in Agent, AgentStep(g) PROVE IInv'
  <2> DEFINE m == Head(link[g].msgs)
  <2>1. link[g].up /\ link[g].msgs # << >> /\ UNCHANGED <<lock, req, damage, faults>>
    BY <1>4 DEF AgentStep
  <2>2. \/ m.what = "chunk" /\ Chunk(g, m) /\ UNCHANGED replies
        \/ m.what = "prepare" /\ Prepare(g, m)
    BY <1>4 DEF AgentStep
  <2> HIDE DEF m
  <2> QED  BY <2>1, <2>2, ChunkReceived, PrepareReceived DEF m
<1>5. ASSUME NEW g \in Agent, ConnectionBreaks(g) \/ ControlNotices(g) \/ Reconnect(g)
      PROVE  IInv'
  BY <1>5, BreakKeeps, LinkKeeps
<1>6. ASSUME NEW a \in Artifact, FileDamaged(a) PROVE IInv'
  BY <1>6, DamageKeeps
<1>7. CASE UNCHANGED vars
  <2>1. /\ \A g \in Agent, a \in Artifact, p \in Req :
             /\ Sending(p, g, a)' <=> Sending(p, g, a)
             /\ Reaches(p, g)' <=> Reaches(p, g)
             /\ SentTo(p, g)' = SentTo(p, g)
    BY <1>7 DEF vars, Sending, Reaches, Current, SentTo
  <2>7. \A g \in Agent : Abandoned(g)' <=> Abandoned(g)
    BY <1>7 DEF vars, Abandoned
  <2> USE <1>7 DEF vars, IInv
  <2>2. NoneIsSkipped' /\ PrepareComesLast'
    BY <2>1 DEF NoneIsSkipped, SkipsNone, PrepareComesLast, PreparesLast
  <2>3. ASSUME NEW g \in Agent, NEW a \in Artifact
        PROVE  ~Abandoned(g)' => Ordered(g, a)'
    <3>1. Ordered(g, a) => Ordered(g, a)'
      BY <2>1 DEF Ordered
    <3> QED  BY <2>7, <3>1 DEF InOrder
  <2>4. TypeOK' /\ HolderOnly' /\ Position' /\ OnlyLongIsCut' /\ DownIsEmpty'
    BY DEF TypeOK, HolderOnly, Position, OnlyLongIsCut, DownIsEmpty
  <2>5. /\ VerifiedIsGood' /\ SoundStream' /\ SoundTransfer' /\ FirstKnowsItsFiles'
        /\ PreparedWithItsBytes' /\ BailsOnlyForCause'
    BY DEF VerifiedIsGood, SoundStream, SoundChunk, SoundTransfer, FirstKnowsItsFiles,
       PreparedWithItsBytes, BailsOnlyForCause
  <2>6. InOrder'
    BY <2>3 DEF InOrder
  <2> QED  BY <2>2, <2>4, <2>5, <2>6
<1> QED  BY <1>1, <1>2, <1>3, <1>4, <1>5, <1>6, <1>7 DEF Next

LEMMA TransferInvariant == Spec => []IInv
BY InvInit, InvNext, PTL DEF Spec

(* TypeOK: what the requests, the connections and the Agents' tables hold.     *)
THEOREM TransferTypes == Spec => []TypeOK
<1>1. IInv => TypeOK
  BY DEF IInv
<1> QED  BY <1>1, TransferInvariant, PTL

(* PreparedWithItsBytes: a run is prepared only with verified artifacts.       *)
THEOREM PreparedArtifactsAreVerified == Spec => []PreparedWithItsBytes
<1>1. IInv => PreparedWithItsBytes
  BY DEF IInv
<1> QED  BY <1>1, TransferInvariant, PTL

(* BailsOnlyForCause: an Agent ends its connection over what a start sends it  *)
(* only because of a leftover file, a start given up, or damaged bytes.        *)
THEOREM AgentsBailOnlyForCause == Spec => []BailsOnlyForCause
<1>1. IInv => BailsOnlyForCause
  BY DEF IInv
<1> QED  BY <1>1, TransferInvariant, PTL

=============================================================================
