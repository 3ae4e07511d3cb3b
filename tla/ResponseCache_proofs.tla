------------------------ MODULE ResponseCache_proofs ------------------------
(***************************************************************************)
(* Proofs about ResponseCache for any users, homes and collections, any    *)
(* number of readers and changes, and any time-out.                        *)
(***************************************************************************)
EXTENDS ResponseCache, SequenceTheorems, TLAPS

-----------------------------------------------------------------------------
\* The inductive invariant

Told == Shows \ Untold

\* A token that job k still has to set
Pending(k, d) ==
    /\ jobs[k].on \notin Users
    /\ \E i \in 1..Len(jobs[k].left) : jobs[k].left[i] = d

\* Tokens that were read: none is that of a change to come, and none is that of
\* a job that has yet to set it. So no token ever comes back.
ReadOK(tokens) ==
    \A d \in DependsOn :
        /\ tokens[d] <= changes
        /\ \A k \in 1..changes : Pending(k, d) => tokens[d] # k

\* The token of d differs from the one that was read, and will not expire before
\* an entry with the time ttl left.
Replaced(d, tokens, ttl) ==
    token[d].id # None /\ token[d].id # tokens[d] /\ token[d].ttl >= ttl

\* An entry whose tokens were read when `seen' was the state of affairs: what was
\* announced since has replaced its token, in full or as far as the job has come.
Guarded(tokens, seen, ttl) ==
    /\ \A u \in Told : flushed[u] > seen[u] => Replaced(TokenOf(u), tokens, ttl)
    /\ \A k \in 1..changes :
          jobs[k].on \in Children \cap DependsOn /\ Len(jobs[k].left) = 1
            /\ k > seen[jobs[k].on]
          => Replaced(jobs[k].on, tokens, ttl)

JobLefts(u) == {<< >>, notifyURIs(u), Tail(notifyURIs(u))}

JobInv ==
    \A k \in 1..changes :
        /\ jobs[k].on \in Shows
        /\ jobs[k].left \in JobLefts(jobs[k].on)
        /\ jobs[k].on \notin Users => k <= data[jobs[k].on]

StoreInv ==
    /\ \A u \in URIs : data[u] <= changes /\ flushed[u] <= changes
    /\ \A u \in URIs \ Users : flushed[u] <= data[u]

TokenInv ==
    \A d \in URIs :
        /\ token[d].id <= changes /\ token[d].ttl <= Timeout
        /\ \A k \in 1..changes : Pending(k, d) => token[d].id # k

EntryInv(e) ==
    /\ e \in Entries /\ e.ttl <= Timeout
    /\ ReadOK(e.tokens)

CacheInv ==
    cache # << >> =>
        /\ cache = <<cache[1]>>
        /\ EntryInv(cache[1])
        /\ ~cache[1].slow => Guarded(cache[1].tokens, cache[1].seen, cache[1].ttl)

StoreStates ==
    [pc : {"store"}, made : Versions, left : SUBSET DependsOn, seen : Versions \cup {<< >>},
     tokens : [DependsOn -> ChangeIds], slow : BOOLEAN]
LookStates ==
    [pc : {"compare", "hit"}, entry : Entries, left : SUBSET DependsOn,
     announced : Versions, failed : SUBSET DependsOn, slow : BOOLEAN]

\* A reader that is putting an entry together
StoringInv(st) ==
    /\ st \in StoreStates
    /\ ReadOK(st.tokens)
    /\ st.left = {} => /\ st.seen \in Versions
                       /\ ~st.slow => Guarded(st.tokens, st.seen, Timeout)

\* A reader that is looking an entry up: the tokens it has compared, and could read,
\* were those of the entry, so what was announced by then had been seen.
LookingInv(st) ==
    /\ st \in LookStates
    /\ EntryInv(st.entry)
    /\ st.pc = "hit" => st.left = {}
    /\ \A u \in Shows : st.announced[u] <= flushed[u]
    /\ ~st.slow /\ ~st.entry.slow =>
          /\ st.pc = "compare" => Guarded(st.entry.tokens, st.entry.seen, st.entry.ttl)
          /\ \A u \in Told : TokenOf(u) \notin st.left /\ TokenOf(u) \notin st.failed =>
                st.announced[u] <= st.entry.seen[u]

ReaderInv(st) ==
    st = Idle \/ st = Miss \/ StoringInv(st) \/ LookingInv(st)

Job == [on : URIs, left : Seq(URIs)]

TypeInv ==
    /\ changes \in ChangeIds
    /\ data \in [URIs -> ChangeIds] /\ flushed \in [URIs -> ChangeIds]
    /\ token \in [URIs -> Tokens]
    /\ jobs \in Seq(Job) /\ Len(jobs) = changes
    /\ key \in Requests
    /\ reader \in [Readers -> {Idle, Miss} \cup StoreStates \cup LookStates]

Inv ==
    /\ TypeInv
    /\ JobInv
    /\ StoreInv
    /\ TokenInv
    /\ CacheInv
    /\ \A r \in Readers : ReaderInv(reader[r])

-----------------------------------------------------------------------------
\* What the request depends on and shows

\* The principal, the home and the collections are different URIs.
LEMMA KeyFacts ==
  ASSUME TypeInv
  PROVE  /\ key.user \in Users /\ key.home \in Homes /\ key.depth \in {0, 1}
         /\ key.user \in DependsOn /\ key.home \in DependsOn
         /\ DependsOn \subseteq Shows /\ Shows \subseteq URIs /\ Told \subseteq Shows
         /\ \A u \in Shows : u \in Users => u = key.user
         /\ \A u \in Shows : u \in Homes => u = key.home
         /\ \A u \in Told : TokenOf(u) \in DependsOn
         /\ \A u \in Told : u \in Users \cup Homes => TokenOf(u) = u
         /\ \A u \in Told : u \in Children =>
               TokenOf(u) = u \/ (TokenOf(u) = OwnerHome[u] /\ u \notin DependsOn)
<1>1. key.user \in Users /\ key.home \in Homes /\ key.depth \in {0, 1}
  BY ConstantsAssumption DEF TypeInv
<1>2. /\ key.user \in DependsOn /\ key.home \in DependsOn
      /\ DependsOn \subseteq Shows /\ Shows \subseteq URIs /\ Told \subseteq Shows
  BY <1>1 DEF DependsOn, Shows, URIs, Told
<1>3. /\ \A u \in Shows : u \in Users => u = key.user
      /\ \A u \in Shows : u \in Homes => u = key.home
  BY <1>1, ConstantsAssumption DEF Shows
<1>4. \A u \in Told : TokenOf(u) \in DependsOn
  BY <1>2 DEF TokenOf
<1>5. \A u \in Told : u \in Users \cup Homes => TokenOf(u) = u
  BY <1>2, <1>3 DEF TokenOf
<1>6. \A u \in Told : u \in Children =>
         TokenOf(u) = u \/ (TokenOf(u) = OwnerHome[u] /\ u \notin DependsOn)
  BY <1>1, ConstantsAssumption DEF TokenOf, Told, Untold, Shows, DependsOn
<1> QED BY <1>1, <1>2, <1>3, <1>4, <1>5, <1>6

\* A behaviour follows one request.
LEMMA KeyFixed ==
  ASSUME key' = key
  PROVE  /\ DependsOn' = DependsOn /\ Shows' = Shows /\ Told' = Told
         /\ Versions' = Versions /\ Entries' = Entries
         /\ StoreStates' = StoreStates /\ LookStates' = LookStates
         /\ \A u : TokenOf(u)' = TokenOf(u)
<1>1. DependsOn' = DependsOn /\ Shows' = Shows /\ Told' = Told
  BY DEF DependsOn, Shows, Told, Untold
<1>2. Versions' = Versions
  BY <1>1 DEF Versions
<1>3. Entries' = Entries
  BY <1>1, <1>2 DEF Entries
<1>4. StoreStates' = StoreStates /\ LookStates' = LookStates
  BY <1>1, <1>2, <1>3 DEF StoreStates, LookStates
<1>5. \A u : TokenOf(u)' = TokenOf(u)
  BY <1>1 DEF TokenOf
<1> QED BY <1>1, <1>2, <1>3, <1>4, <1>5

-----------------------------------------------------------------------------
\* Steps of a reader

\* As long as the store, the jobs and the tokens are left alone, an entry is as
\* good as it was.
LEMMA StoreStill ==
  ASSUME UNCHANGED <<changes, data, jobs, flushed, token, key>>
  PROVE  /\ JobInv => JobInv'
         /\ StoreInv => StoreInv'
         /\ TokenInv => TokenInv'
         /\ \A e : EntryInv(e) => EntryInv(e)'
         /\ \A t, s, l : Guarded(t, s, l) => Guarded(t, s, l)'
         /\ \A st : ReaderInv(st) => ReaderInv(st)'
<1>0. /\ DependsOn' = DependsOn /\ Shows' = Shows /\ Told' = Told
      /\ Versions' = Versions /\ Entries' = Entries
      /\ StoreStates' = StoreStates /\ LookStates' = LookStates
      /\ \A u : TokenOf(u)' = TokenOf(u)
  BY KeyFixed
<1>1. \A k, d : Pending(k, d)' <=> Pending(k, d)
  BY DEF Pending
<1>2. \A t : ReadOK(t)' <=> ReadOK(t)
  BY <1>0, <1>1 DEF ReadOK
<1>3. \A d, t, l : Replaced(d, t, l)' <=> Replaced(d, t, l)
  BY DEF Replaced
<1>4. \A t, s, l : Guarded(t, s, l)' <=> Guarded(t, s, l)
  BY <1>0, <1>3 DEF Guarded
<1>5. \A e : EntryInv(e)' <=> EntryInv(e)
  BY <1>0, <1>2 DEF EntryInv
<1>6. \A st : StoringInv(st)' <=> StoringInv(st)
  BY <1>0, <1>2, <1>4 DEF StoringInv
<1>7. \A st : LookingInv(st)' <=> LookingInv(st)
  BY <1>0, <1>4, <1>5 DEF LookingInv
<1>8. \A st : ReaderInv(st)' <=> ReaderInv(st)
  BY <1>6, <1>7 DEF ReaderInv
<1>9. /\ JobInv => JobInv'
      /\ StoreInv => StoreInv'
  BY <1>0 DEF JobInv, StoreInv
<1>10. TokenInv => TokenInv'
  BY <1>1 DEF TokenInv
<1> QED BY <1>4, <1>5, <1>8, <1>9, <1>10

ReaderStates == {Idle, Miss} \cup StoreStates \cup LookStates

\* A reader goes on to a state that has its invariant, and the cache stays good.
LEMMA ReaderStep ==
  ASSUME Inv, NEW r \in Readers, NEW st, Step(r, st), ReaderInv(st),
         cache' = cache \/ CacheInv'
  PROVE  Inv'
<1>0. /\ UNCHANGED <<changes, data, jobs, flushed, token, key>>
      /\ reader' = [reader EXCEPT ![r] = st]
  BY DEF Step
<1>1. st \in ReaderStates
  BY DEF ReaderInv, StoringInv, LookingInv, ReaderStates
<1>2. TypeInv'
  <2>1. ReaderStates' = ReaderStates
    BY <1>0, KeyFixed DEF ReaderStates
  <2>2. reader' \in [Readers -> ReaderStates]
    BY <1>0, <1>1 DEF Inv, TypeInv, ReaderStates
  <2> QED BY <1>0, <2>1, <2>2 DEF Inv, TypeInv, ReaderStates
<1>3. JobInv' /\ StoreInv' /\ TokenInv'
  BY <1>0, StoreStill DEF Inv
<1>4. CacheInv'
  <2>1. ASSUME cache' = cache PROVE CacheInv'
    BY <1>0, <2>1, StoreStill DEF Inv, CacheInv
  <2> QED BY <2>1
<1>5. ASSUME NEW q \in Readers PROVE ReaderInv(reader[q])'
  <2>1. ReaderInv(reader'[q])
    BY <1>0 DEF Inv, TypeInv
  <2> QED BY <1>0, <2>1, StoreStill
<1> QED BY <1>2, <1>3, <1>4, <1>5 DEF Inv

\* What the state of a reader says about it.
LEMMA StateOf ==
  ASSUME NEW st, ReaderInv(st)
  PROVE  /\ st.pc \in {"compare", "hit"} => LookingInv(st)
         /\ st.pc = "store" => StoringInv(st)
BY DEF ReaderInv, Idle, Miss, LookingInv, StoringInv, LookStates, StoreStates

\* A look-up begins: nothing has been compared yet.
LEMMA LookUpStep ==
  ASSUME Inv, NEW r \in Readers, LookUp(r)
  PROVE  Inv'
<1>1. CASE cache = << >>
  <2>1. Step(r, Miss) /\ cache' = cache
    BY <1>1 DEF LookUp
  <2> QED BY <2>1, ReaderStep DEF ReaderInv
<1>2. CASE cache # << >>
  <2> DEFINE st == [pc |-> "compare", entry |-> cache[1], left |-> DependsOn,
                    announced |-> Restrict(flushed, Shows), failed |-> {}, slow |-> FALSE]
  <2>1. Step(r, st) /\ cache' = cache
    BY <1>2 DEF LookUp
  <2>2. /\ EntryInv(cache[1])
        /\ ~cache[1].slow => Guarded(cache[1].tokens, cache[1].seen, cache[1].ttl)
    BY <1>2 DEF Inv, CacheInv
  <2>3. Restrict(flushed, Shows) \in Versions
        /\ \A u \in Shows : Restrict(flushed, Shows)[u] = flushed[u]
    BY KeyFacts DEF Restrict, Versions, Inv, TypeInv
  <2>4. /\ st.pc = "compare" /\ st.entry = cache[1] /\ st.left = DependsOn
        /\ st.announced = Restrict(flushed, Shows) /\ st.slow = FALSE
    OBVIOUS
  <2>5. st \in LookStates
    BY <2>2, <2>3 DEF LookStates, EntryInv
  <2>6. \A u \in Shows : st.announced[u] <= flushed[u]
    <3>1. \A u \in Shows : flushed[u] \in Nat
      BY KeyFacts, ConstantsAssumption DEF Inv, TypeInv, ChangeIds
    <3> QED BY <2>3, <2>4, <3>1
  <2>7. \A u \in Told : TokenOf(u) \in DependsOn
    BY KeyFacts DEF Inv
  <2> HIDE DEF st
  <2>8. LookingInv(st)
    BY <2>2, <2>4, <2>5, <2>6, <2>7 DEF LookingInv
  <2> QED BY <2>1, <2>8, ReaderStep DEF ReaderInv
<1> QED BY <1>1, <1>2

\* A token is compared: if it is the one that was read, no change that counts on
\* it had been announced when the look-up began.
LEMMA CompareStep ==
  ASSUME Inv, NEW r \in Readers, Compare(r)
  PROVE  Inv'
<1>1. LookingInv(reader[r]) /\ reader[r].pc = "compare"
  BY StateOf DEF Compare, Inv
<1>0. PICK d \in NextTokens(reader[r].left) : \E x \in tokenForURI(d) :
         Step(r, IF x = reader[r].entry.tokens[d]
                   THEN [reader[r] EXCEPT !.left = @ \ {d},
                           !.failed = IF x = token[d].id THEN @ ELSE @ \cup {d}]
                   ELSE Miss)
  BY DEF Compare
<1>2. PICK x \in tokenForURI(d) :
         Step(r, IF x = reader[r].entry.tokens[d]
                   THEN [reader[r] EXCEPT !.left = @ \ {d},
                           !.failed = IF x = token[d].id THEN @ ELSE @ \cup {d}]
                   ELSE Miss)
  BY <1>0
<1>3. cache' = cache
  BY DEF Compare
<1>4. CASE x # reader[r].entry.tokens[d]
  BY <1>2, <1>3, <1>4, ReaderStep DEF ReaderInv
<1>5. CASE x = reader[r].entry.tokens[d]
  <2> DEFINE old == reader[r]
             st == [old EXCEPT !.left = @ \ {d},
                      !.failed = IF x = token[d].id THEN @ ELSE @ \cup {d}]
  <2>1. Step(r, st)
    BY <1>2, <1>5
  <2>2. old \in LookStates
    BY <1>1 DEF LookingInv
  <2>3. /\ st.pc = "compare" /\ st.entry = old.entry /\ st.left = old.left \ {d}
        /\ st.announced = old.announced /\ st.slow = old.slow /\ st \in LookStates
        /\ st.failed = IF x = token[d].id THEN old.failed ELSE old.failed \cup {d}
    <3>1. d \in DependsOn
      BY <1>0, <2>2 DEF NextTokens, LookStates
    <3> QED BY <1>1, <2>2, <3>1 DEF LookStates
  <2>4. ASSUME ~old.slow, ~old.entry.slow, NEW u \in Told,
               TokenOf(u) \notin st.left, TokenOf(u) \notin st.failed
        PROVE  old.announced[u] <= old.entry.seen[u]
    <3>1. CASE TokenOf(u) \notin old.left
      <4>1. TokenOf(u) \notin old.failed
        BY <2>3, <2>4
      <4> QED BY <1>1, <2>4, <3>1, <4>1 DEF LookingInv
    <3>2. CASE TokenOf(u) = d
      <4>0. x = token[d].id
        BY <2>3, <2>4, <3>2
      <4>1. ~Replaced(d, old.entry.tokens, old.entry.ttl)
        BY <1>5, <4>0 DEF Replaced
      <4>2. Guarded(old.entry.tokens, old.entry.seen, old.entry.ttl)
        BY <1>1, <2>4 DEF LookingInv
      <4>3. ~(flushed[u] > old.entry.seen[u])
        BY <3>2, <4>1, <4>2 DEF Guarded
      <4>4. old.announced[u] <= flushed[u] /\ u \in Shows
        BY <1>1, KeyFacts DEF LookingInv, Inv
      <4>5. old.announced[u] \in Nat /\ flushed[u] \in Nat /\ old.entry.seen[u] \in Nat
        <5>1. flushed[u] \in ChangeIds
          BY <4>4, KeyFacts DEF Inv, TypeInv
        <5>2. old.announced[u] \in ChangeIds /\ old.entry.seen[u] \in ChangeIds
          BY <2>2, <4>4 DEF LookStates, Versions, Entries
        <5> QED BY <5>1, <5>2, ConstantsAssumption DEF ChangeIds
      <4> QED BY <4>3, <4>4, <4>5
    <3> QED BY <2>3, <2>4, <3>1, <3>2
  <2> HIDE DEF st, old
  <2>5. LookingInv(st)
    BY <1>1, <2>3, <2>4 DEF LookingInv, old
  <2> QED BY <1>3, <2>1, <2>5, ReaderStep DEF ReaderInv
<1> QED BY <1>4, <1>5

\* All tokens were the same.
LEMMA HitStep ==
  ASSUME Inv, NEW r \in Readers, Hit(r)
  PROVE  Inv'
<1> DEFINE old == reader[r]
           st == [old EXCEPT !.pc = "hit"]
<1>1. LookingInv(old) /\ old.pc = "compare" /\ NextTokens(old.left) = {}
  BY StateOf DEF Hit, Inv
<1>2. Step(r, st) /\ cache' = cache
  BY DEF Hit
<1>3. old \in LookStates
  BY <1>1 DEF LookingInv
<1>4. old.left = {}
  BY <1>1 DEF NextTokens
<1>5. /\ st.pc = "hit" /\ st.entry = old.entry /\ st.left = old.left
      /\ st.failed = old.failed
      /\ st.announced = old.announced /\ st.slow = old.slow /\ st \in LookStates
  BY <1>3 DEF LookStates
<1> HIDE DEF st, old
<1>6. LookingInv(st)
  BY <1>1, <1>4, <1>5 DEF LookingInv
<1> QED BY <1>2, <1>6, ReaderStep DEF ReaderInv

\* The steps that leave the cache and end, or start anew.
LEMMA AnsweredStep ==
  ASSUME Inv, NEW r \in Readers, Answered(r) \/ NotFound(r)
  PROVE  Inv'
<1>1. ReaderInv(Idle) /\ ReaderInv(Miss)
  BY DEF ReaderInv
<1> QED BY <1>1, ReaderStep DEF Answered, NotFound

\* A response is made from the store; no token has been read for it.
LEMMA RenderStep ==
  ASSUME Inv, NEW r \in Readers, Render(r)
  PROVE  Inv'
<1> DEFINE st == [pc |-> "store", made |-> Restrict(data, Shows), left |-> DependsOn,
                  seen |-> << >>, tokens |-> [u \in DependsOn |-> None], slow |-> FALSE]
<1>1. Step(r, st) /\ cache' = cache
  BY DEF Render
<1>2. Restrict(data, Shows) \in Versions
  BY KeyFacts DEF Restrict, Versions, Inv, TypeInv
<1>3. None \in ChangeIds /\ changes \in Nat
  BY ConstantsAssumption DEF None, ChangeIds, Inv, TypeInv
<1>4. [u \in DependsOn |-> None] \in [DependsOn -> ChangeIds]
  BY <1>3
<1>5. st.left = DependsOn /\ st.tokens = [u \in DependsOn |-> None]
  OBVIOUS
<1>6. st \in StoreStates
  BY <1>2, <1>4 DEF StoreStates
<1>7. ReadOK([u \in DependsOn |-> None])
  BY <1>3 DEF ReadOK, None
<1>8. DependsOn # {}
  BY KeyFacts DEF Inv
<1> HIDE DEF st
<1>9. StoringInv(st)
  BY <1>5, <1>6, <1>7, <1>8 DEF StoringInv
<1> QED BY <1>1, <1>9, ReaderStep DEF ReaderInv

\* Nothing has been announced that was not seen when the last token is read.
LEMMA SeenGuards ==
  ASSUME Inv, NEW tokens, NEW ttl
  PROVE  Seen \in Versions /\ Guarded(tokens, Seen, ttl)
<1>0. /\ Shows \subseteq URIs /\ Told \subseteq Shows /\ DependsOn \subseteq Shows
      /\ \A u \in URIs : data[u] \in Nat /\ flushed[u] \in Nat
  BY KeyFacts, ConstantsAssumption DEF Inv, TypeInv, ChangeIds
<1>1. Seen \in Versions
  BY <1>0 DEF Seen, Versions, Inv, TypeInv
<1>2. \A u \in Told : ~(flushed[u] > Seen[u])
  BY <1>0 DEF Seen, Inv, StoreInv
<1>3. ASSUME NEW k \in 1..changes, jobs[k].on \in Children \cap DependsOn
      PROVE  ~(k > Seen[jobs[k].on])
  <2>1. jobs[k].on \notin Users /\ jobs[k].on \in Shows /\ jobs[k].on \in URIs
    BY <1>0, <1>3, ConstantsAssumption
  <2>2. Seen[jobs[k].on] = data[jobs[k].on] /\ k <= data[jobs[k].on]
    BY <2>1 DEF Seen, Inv, JobInv
  <2>3. k \in Nat /\ data[jobs[k].on] \in Nat
    BY <1>0, <2>1
  <2> QED BY <2>2, <2>3
<1> QED BY <1>1, <1>2, <1>3 DEF Guarded

\* A token is read for an entry: it is one that no job has yet to set.
LEMMA ReadTokenStep ==
  ASSUME Inv, NEW r \in Readers, ReadToken(r)
  PROVE  Inv'
<1> DEFINE old == reader[r]
<1>1. StoringInv(old) /\ old.pc = "store"
  BY StateOf DEF ReadToken, Inv
<1>0. PICK d \in NextTokens(old.left) : \E x \in tokenForURI(d) :
         Step(r, [old EXCEPT !.left = @ \ {d}, !.tokens[d] = x,
                             !.seen = IF old.left = {d} THEN Seen ELSE @])
  BY DEF ReadToken
<1>2. PICK x \in tokenForURI(d) :
         Step(r, [old EXCEPT !.left = @ \ {d}, !.tokens[d] = x,
                             !.seen = IF old.left = {d} THEN Seen ELSE @])
  BY <1>0
<1> DEFINE st == [old EXCEPT !.left = @ \ {d}, !.tokens[d] = x,
                             !.seen = IF old.left = {d} THEN Seen ELSE @]
<1>3. Step(r, st) /\ cache' = cache
  BY <1>2 DEF ReadToken
<1>4. old \in StoreStates /\ ReadOK(old.tokens)
  BY <1>1 DEF StoringInv
<1>5. d \in old.left /\ d \in DependsOn /\ d \in URIs
  BY <1>0, <1>4, KeyFacts DEF NextTokens, StoreStates, Inv
<1>6. /\ x \in ChangeIds /\ x <= changes
      /\ \A k \in 1..changes : Pending(k, d) => x # k
  <2>1. /\ token[d].id \in ChangeIds /\ token[d].id <= changes
        /\ \A k \in 1..changes : Pending(k, d) => token[d].id # k
    BY <1>5 DEF Inv, TypeInv, TokenInv, Tokens
  <2>2. None \in ChangeIds /\ None <= changes /\ \A k \in 1..changes : None # k
    BY ConstantsAssumption DEF None, ChangeIds, Inv, TypeInv
  <2>3. x = token[d].id \/ x = None
    BY <1>2 DEF tokenForURI
  <2> QED BY <2>1, <2>2, <2>3
<1>7. Seen \in Versions
  BY SeenGuards
<1>8. /\ st.left = old.left \ {d} /\ st.slow = old.slow /\ st.pc = "store"
      /\ st.tokens = [old.tokens EXCEPT ![d] = x]
      /\ st.seen = IF old.left = {d} THEN Seen ELSE old.seen
      /\ st \in StoreStates
  BY <1>1, <1>4, <1>5, <1>6, <1>7 DEF StoreStates
<1>9. ReadOK(st.tokens)
  <2>1. old.tokens \in [DependsOn -> ChangeIds]
    BY <1>4 DEF StoreStates
  <2> QED BY <1>4, <1>6, <1>8, <2>1 DEF ReadOK
<1>10. ASSUME st.left = {} PROVE st.seen \in Versions /\ Guarded(st.tokens, st.seen, Timeout)
  <2>1. old.left = {d}
    BY <1>5, <1>8, <1>10
  <2>2. st.seen = Seen
    BY <1>8, <2>1
  <2> HIDE DEF st
  <2> QED BY <2>2, SeenGuards
<1> HIDE DEF st
<1>11. StoringInv(st)
  BY <1>8, <1>9, <1>10 DEF StoringInv
<1> QED BY <1>3, <1>11, ReaderStep DEF ReaderInv

\* The entry is stored: its tokens have been read.
LEMMA StoreEntryStep ==
  ASSUME Inv, NEW r \in Readers, StoreEntry(r)
  PROVE  Inv'
<1> DEFINE old == reader[r]
           e == [tokens |-> old.tokens, made |-> old.made, seen |-> old.seen,
                 slow |-> old.slow, ttl |-> Timeout]
<1>1. StoringInv(old) /\ old.left = {}
  BY StateOf DEF StoreEntry, Inv
<1>2. Step(r, Idle) /\ cache' = <<e>>
  BY DEF StoreEntry
<1>3. old \in StoreStates /\ ReadOK(old.tokens) /\ old.seen \in Versions
      /\ (~old.slow => Guarded(old.tokens, old.seen, Timeout))
  BY <1>1 DEF StoringInv
<1>4. Timeout \in Nat /\ Timeout \in 1..Forever
  BY ConstantsAssumption DEF Forever
<1>5. e \in Entries
  BY <1>3, <1>4 DEF Entries, StoreStates
<1>6. /\ e.tokens = old.tokens /\ e.seen = old.seen /\ e.slow = old.slow
      /\ e.ttl = Timeout
  OBVIOUS
<1> HIDE DEF e
<1>7. EntryInv(e) /\ (~e.slow => Guarded(e.tokens, e.seen, e.ttl))
  BY <1>3, <1>4, <1>5, <1>6 DEF EntryInv
<1>8. PICK f : cache' = <<f>> /\ EntryInv(f) /\ (~f.slow => Guarded(f.tokens, f.seen, f.ttl))
  BY <1>2, <1>7
<1>9. cache'[1] = f /\ cache' = <<cache'[1]>>
  BY <1>8
<1>10. CacheInv'
  <2>1. UNCHANGED <<changes, data, jobs, flushed, token, key>>
    BY <1>2 DEF Step
  <2>2. EntryInv(f)' /\ (~f.slow => Guarded(f.tokens, f.seen, f.ttl)')
    BY <1>8, <2>1, StoreStill
  <2> QED BY <1>9, <2>2 DEF CacheInv
<1> QED BY <1>2, <1>10, ReaderStep DEF ReaderInv

-----------------------------------------------------------------------------
\* Steps of the store and of the notifiers

\* A change of the store leaves every entry as good as it was if it takes no
\* token back that was read, and replaces a token before it says so.
LEMMA StoreStep ==
  ASSUME Inv, UNCHANGED <<cache, reader, key>>,
         TypeInv', JobInv', StoreInv', TokenInv',
         \A u \in URIs : flushed[u] <= flushed'[u],
         \A t \in [DependsOn -> ChangeIds] : ReadOK(t) => ReadOK(t)',
         \A t \in [DependsOn -> ChangeIds] : \A s \in Versions : \A l \in 0..Timeout :
            ReadOK(t) /\ Guarded(t, s, l) => Guarded(t, s, l)'
  PROVE  Inv'
<1>0. /\ DependsOn' = DependsOn /\ Shows' = Shows /\ Told' = Told
      /\ Versions' = Versions /\ Entries' = Entries
      /\ StoreStates' = StoreStates /\ LookStates' = LookStates
      /\ \A u : TokenOf(u)' = TokenOf(u)
  BY KeyFixed
<1>1. Timeout \in Nat /\ Timeout \in 0..Timeout
  BY ConstantsAssumption
<1>2. ASSUME NEW e, EntryInv(e)
      PROVE  /\ e.tokens \in [DependsOn -> ChangeIds] /\ e.seen \in Versions
             /\ e.ttl \in 0..Timeout /\ ReadOK(e.tokens)
             /\ EntryInv(e)'
  <2>1. /\ e.tokens \in [DependsOn -> ChangeIds] /\ e.seen \in Versions
        /\ e.ttl \in 1..Forever /\ e.ttl <= Timeout /\ ReadOK(e.tokens) /\ e \in Entries
    BY <1>2 DEF EntryInv, Entries
  <2>2. e.ttl \in 0..Timeout
    BY <1>1, <2>1 DEF Forever
  <2>3. EntryInv(e)'
    BY <1>0, <2>1 DEF EntryInv
  <2> QED BY <2>1, <2>2, <2>3
<1>3. CacheInv'
  BY <1>2 DEF Inv, CacheInv
<1>4. ASSUME NEW st, StoringInv(st) PROVE StoringInv(st)'
  <2>1. st \in StoreStates /\ st.tokens \in [DependsOn -> ChangeIds] /\ ReadOK(st.tokens)
    BY <1>4 DEF StoringInv, StoreStates
  <2>2. ReadOK(st.tokens)'
    BY <2>1
  <2>3. ASSUME st.left = {}
        PROVE  st.seen \in Versions /\ (~st.slow => Guarded(st.tokens, st.seen, Timeout)')
    BY <1>1, <1>4, <2>1, <2>3 DEF StoringInv
  <2> QED BY <1>0, <2>1, <2>2, <2>3 DEF StoringInv
<1>5. ASSUME NEW st, LookingInv(st) PROVE LookingInv(st)'
  <2>1. st \in LookStates /\ EntryInv(st.entry)
    BY <1>5 DEF LookingInv
  <2>2. EntryInv(st.entry)'
    BY <1>2, <2>1
  <2>3. \A u \in Shows : st.announced[u] <= flushed'[u]
    <3> SUFFICES ASSUME NEW u \in Shows PROVE st.announced[u] <= flushed'[u]
      OBVIOUS
    <3>1. u \in URIs
      BY KeyFacts DEF Inv
    <3>2. st.announced[u] \in Nat /\ flushed[u] \in Nat /\ flushed'[u] \in Nat
      <4>1. st.announced[u] \in ChangeIds
        BY <2>1 DEF LookStates, Versions
      <4>2. flushed[u] \in ChangeIds /\ flushed'[u] \in ChangeIds
        BY <3>1 DEF Inv, TypeInv
      <4> QED BY <4>1, <4>2, ConstantsAssumption DEF ChangeIds
    <3>3. st.announced[u] <= flushed[u] /\ flushed[u] <= flushed'[u]
      BY <1>5, <3>1 DEF LookingInv
    <3> QED BY <3>2, <3>3
  <2>4. ASSUME ~st.slow, ~st.entry.slow, st.pc = "compare"
        PROVE  Guarded(st.entry.tokens, st.entry.seen, st.entry.ttl)'
    BY <1>2, <1>5, <2>1, <2>4 DEF LookingInv
  <2> QED BY <1>0, <1>5, <2>1, <2>2, <2>3, <2>4 DEF LookingInv
<1>6. \A r \in Readers : ReaderInv(reader[r])'
  BY <1>4, <1>5 DEF Inv, ReaderInv
<1> QED BY <1>3, <1>6 DEF Inv

\* What a job can have left.
LEMMA NotifyShape ==
  ASSUME NEW u \in URIs
  PROVE  /\ u \in Children => /\ notifyURIs(u) = <<u, OwnerHome[u]>>
                              /\ JobLefts(u) = {<< >>, <<u, OwnerHome[u]>>, <<OwnerHome[u]>>}
                              /\ OwnerHome[u] \in Homes /\ OwnerHome[u] # u
         /\ u \notin Children => notifyURIs(u) = <<u>> /\ JobLefts(u) = {<< >>, <<u>>}
         /\ notifyURIs(u) \in Seq(URIs)
<1>1. ASSUME u \in Children
      PROVE  /\ notifyURIs(u) = <<u, OwnerHome[u]>>
             /\ JobLefts(u) = {<< >>, <<u, OwnerHome[u]>>, <<OwnerHome[u]>>}
             /\ OwnerHome[u] \in Homes /\ OwnerHome[u] # u
             /\ notifyURIs(u) \in Seq(URIs)
  <2>1. OwnerHome[u] \in Homes /\ OwnerHome[u] # u /\ OwnerHome[u] \in URIs
    BY <1>1, ConstantsAssumption DEF URIs
  <2>2. notifyURIs(u) = <<u, OwnerHome[u]>>
    BY <1>1 DEF notifyURIs
  <2>3. Tail(<<u, OwnerHome[u]>>) = <<OwnerHome[u]>>
    OBVIOUS
  <2> QED BY <2>1, <2>2, <2>3 DEF JobLefts
<1>2. ASSUME u \notin Children
      PROVE  notifyURIs(u) = <<u>> /\ JobLefts(u) = {<< >>, <<u>>} /\ notifyURIs(u) \in Seq(URIs)
  <2>1. notifyURIs(u) = <<u>>
    BY <1>2 DEF notifyURIs
  <2>2. Tail(<<u>>) = << >>
    OBVIOUS
  <2> QED BY <2>1, <2>2 DEF JobLefts
<1> QED BY <1>1, <1>2

\* A job is added.
LEMMA JobAdded ==
  ASSUME TypeInv, NEW j \in Job, jobs' = Append(jobs, j)
  PROVE  /\ jobs' \in Seq(Job) /\ Len(jobs') = changes + 1
         /\ jobs'[changes + 1] = j /\ \A k \in 1..changes : jobs'[k] = jobs[k]
BY AppendProperties DEF TypeInv

\* A job has less left.
LEMMA JobChanged ==
  ASSUME TypeInv, NEW k \in 1..changes, NEW l \in Seq(URIs),
         jobs' = [jobs EXCEPT ![k].left = l]
  PROVE  /\ jobs' \in Seq(Job) /\ Len(jobs') = changes
         /\ jobs'[k].on = jobs[k].on /\ jobs'[k].left = l
         /\ \A j \in 1..changes : j # k => jobs'[j] = jobs[j]
<1> DEFINE new == [jobs[k] EXCEPT !.left = l]
<1>1. jobs \in Seq(Job) /\ Len(jobs) = changes /\ jobs[k] \in Job
  BY DEF TypeInv
<1>2. new \in Job /\ new.on = jobs[k].on /\ new.left = l
  BY <1>1 DEF Job
<1>3. jobs' = [jobs EXCEPT ![k] = new]
  BY <1>1
<1> HIDE DEF new
<1>4. /\ jobs' \in Seq(Job) /\ Len(jobs') = Len(jobs)
      /\ \A j \in 1..Len(jobs) : jobs'[j] = IF j = k THEN new ELSE jobs[j]
  BY <1>1, <1>2, <1>3, ExceptSeq
<1> QED BY <1>1, <1>2, <1>4

\* The state of affairs in numbers.
LEMMA Numbers ==
  ASSUME TypeInv
  PROVE  /\ changes \in Nat /\ MaxChanges \in Nat /\ Timeout \in Nat /\ Timeout > 0
         /\ \A u \in URIs : data[u] \in Nat /\ flushed[u] \in Nat
         /\ \A u \in URIs : token[u].id \in Nat /\ token[u].ttl \in Nat
         /\ \A u \in URIs : token[u] \in Tokens
         /\ \A k \in 1..changes : jobs[k] \in Job
<1>1. changes \in Nat /\ MaxChanges \in Nat /\ Timeout \in Nat /\ Timeout > 0
  BY ConstantsAssumption DEF TypeInv, ChangeIds
<1>2. \A u \in URIs : data[u] \in Nat /\ flushed[u] \in Nat
  BY <1>1 DEF TypeInv, ChangeIds
<1>3. \A u \in URIs : token[u] \in Tokens
  BY DEF TypeInv
<1>4. \A u \in URIs : token[u].id \in Nat /\ token[u].ttl \in Nat
  BY <1>1, <1>3 DEF Tokens, ChangeIds, Forever
<1>5. \A k \in 1..changes : jobs[k] \in Job
  BY DEF TypeInv
<1> QED BY <1>1, <1>2, <1>3, <1>4, <1>5

\* The larger of two numbers.
LEMMA MaxOfTwo ==
  ASSUME NEW a \in Nat, NEW b \in Nat
  PROVE  Max({a, b}) = IF a >= b THEN a ELSE b
<1> DEFINE big == IF a >= b THEN a ELSE b
<1>1. big \in {a, b} /\ \A y \in {a, b} : big >= y
  OBVIOUS
<1>2. \A z \in {a, b} : (\A y \in {a, b} : z >= y) => z = big
  OBVIOUS
<1> QED BY <1>1, <1>2 DEF Max

\* The readers keep their types when the request stays.
LEMMA ReaderTypes ==
  ASSUME Inv, UNCHANGED <<reader, key>>
  PROVE  key' \in Requests
         /\ reader' \in [Readers -> {Idle, Miss} \cup StoreStates' \cup LookStates']
BY KeyFixed DEF Inv, TypeInv

\* A token that was read is not set again: it is no new change's, and jobs only
\* get shorter.
LEMMA ReadStays ==
  ASSUME Inv, key' = key, changes' \in {changes, changes + 1},
         \A k \in 1..changes : \A d : Pending(k, d)' => Pending(k, d)
  PROVE  \A t \in [DependsOn -> ChangeIds] : ReadOK(t) => ReadOK(t)'
<1> SUFFICES ASSUME NEW t \in [DependsOn -> ChangeIds], ReadOK(t) PROVE ReadOK(t)'
  OBVIOUS
<1>0. DependsOn' = DependsOn /\ changes \in Nat /\ MaxChanges \in Nat
  BY KeyFixed, Numbers DEF Inv
<1> SUFFICES ASSUME NEW d \in DependsOn
             PROVE  /\ t[d] <= changes'
                    /\ \A k \in 1..changes' : Pending(k, d)' => t[d] # k
  BY <1>0 DEF ReadOK
<1>1. t[d] \in Nat /\ t[d] <= changes /\ \A k \in 1..changes : Pending(k, d) => t[d] # k
  BY <1>0 DEF ReadOK, ChangeIds
<1>2. t[d] <= changes'
  BY <1>0, <1>1
<1>3. ASSUME NEW k \in 1..changes', Pending(k, d)' PROVE t[d] # k
  <2>1. CASE k \in 1..changes
    BY <1>1, <1>3, <2>1
  <2>2. CASE k = changes + 1
    BY <1>0, <1>1, <2>2
  <2> QED BY <1>0, <2>1, <2>2
<1> QED BY <1>2, <1>3

\* A change is committed.
LEMMA CommitStep ==
  ASSUME Inv, NEW u \in Shows \ Users, Commit(u)
  PROVE  Inv'
<1> DEFINE j == [on |-> u, left |-> notifyURIs(u)]
<1>0. /\ changes < MaxChanges /\ changes' = changes + 1
      /\ data' = [data EXCEPT ![u] = changes + 1] /\ jobs' = Append(jobs, j)
      /\ UNCHANGED <<flushed, token, cache, reader, key>>
  BY DEF Commit
<1>1. TypeInv /\ u \in URIs
  BY KeyFacts DEF Inv
<1>2. /\ changes \in Nat /\ MaxChanges \in Nat
      /\ \A v \in URIs : data[v] \in Nat /\ flushed[v] \in Nat
      /\ \A v \in URIs : token[v].id \in Nat
  BY <1>1, Numbers
<1>3. j \in Job /\ j.on = u /\ j.left = notifyURIs(u)
  BY <1>1, NotifyShape DEF Job
<1> HIDE DEF j
<1>4. /\ jobs' \in Seq(Job) /\ Len(jobs') = changes + 1
      /\ jobs'[changes + 1] = j /\ \A k \in 1..changes : jobs'[k] = jobs[k]
  BY <1>0, <1>1, <1>3, JobAdded
<1>5. TypeInv'
  <2>1. changes' \in ChangeIds
    BY <1>0, <1>2 DEF ChangeIds
  <2>2. data' \in [URIs -> ChangeIds]
    BY <1>0, <1>1, <2>1 DEF TypeInv
  <2> QED BY <1>0, <1>1, <1>4, <2>1, <2>2, ReaderTypes DEF TypeInv
<1>6. \A v \in URIs : data'[v] = IF v = u THEN changes + 1 ELSE data[v]
  BY <1>0, <1>1 DEF TypeInv
<1>7. JobInv'
  <2>1. Shows' = Shows
    BY <1>0, KeyFixed
  <2>2. ASSUME NEW k \in 1..changes
        PROVE  /\ jobs'[k].on \in Shows /\ jobs'[k].left \in JobLefts(jobs'[k].on)
               /\ jobs'[k].on \notin Users => k <= data'[jobs'[k].on]
    <3>1. /\ jobs[k].on \in Shows /\ jobs[k].left \in JobLefts(jobs[k].on)
          /\ jobs[k].on \notin Users => k <= data[jobs[k].on]
      BY DEF Inv, JobInv
    <3>2. jobs[k].on \in URIs
      BY <3>1, <1>1, KeyFacts
    <3>3. k <= changes + 1 /\ k \in Nat
      BY <1>2
    <3> QED BY <1>2, <1>4, <1>6, <3>1, <3>2, <3>3
  <2>3. /\ jobs'[changes + 1].on \in Shows
        /\ jobs'[changes + 1].left \in JobLefts(jobs'[changes + 1].on)
        /\ changes + 1 <= data'[jobs'[changes + 1].on]
    <3>1. changes + 1 <= changes + 1
      BY <1>2
    <3> QED BY <1>1, <1>3, <1>4, <1>6, <3>1 DEF JobLefts
  <2>4. \A k \in 1..changes' : k \in 1..changes \/ k = changes + 1
    BY <1>0, <1>2
  <2> QED BY <2>1, <2>2, <2>3, <2>4 DEF JobInv
<1>8. StoreInv'
  BY <1>0, <1>2, <1>6 DEF Inv, StoreInv
<1>9. \A k \in 1..changes : \A d : Pending(k, d)' => Pending(k, d)
  BY <1>4 DEF Pending
<1>10. TokenInv'
  <2> SUFFICES ASSUME NEW d \in URIs, NEW k \in 1..changes', Pending(k, d)'
               PROVE  token[d].id # k /\ token[d].id <= changes'
    BY <1>0, <1>2 DEF Inv, TokenInv
  <2>1. token[d].id \in Nat /\ token[d].id <= changes
    BY <1>2 DEF Inv, TokenInv
  <2>2. CASE k \in 1..changes
    BY <1>0, <1>2, <1>9, <2>1, <2>2 DEF Inv, TokenInv
  <2>3. CASE k = changes + 1
    BY <1>0, <1>2, <2>1, <2>3
  <2> QED BY <1>0, <1>2, <2>2, <2>3
<1>11. ASSUME NEW t, NEW s, NEW l, Guarded(t, s, l) PROVE Guarded(t, s, l)'
  <2>0. Told' = Told /\ DependsOn' = DependsOn /\ \A v : TokenOf(v)' = TokenOf(v)
    BY <1>0, KeyFixed
  <2>1. \A d : Replaced(d, t, l)' <=> Replaced(d, t, l)
    BY <1>0 DEF Replaced
  <2>2. ASSUME NEW k \in 1..changes', jobs'[k].on \in Children \cap DependsOn,
               Len(jobs'[k].left) = 1, k > s[jobs'[k].on]
        PROVE  Replaced(jobs'[k].on, t, l)
    <3>1. CASE k \in 1..changes
      BY <1>4, <1>11, <2>2, <3>1 DEF Guarded
    <3>2. CASE k = changes + 1
      <4>1. jobs'[k].left = <<u, OwnerHome[u]>>
        BY <1>1, <1>3, <1>4, <2>2, <3>2, NotifyShape
      <4>2. Len(jobs'[k].left) = 2
        BY <4>1
      <4> QED BY <2>2, <4>2
    <3>3. k \in 1..changes \/ k = changes + 1
      BY <1>0, <1>2
    <3> QED BY <3>1, <3>2, <3>3
  <2>3. \A v \in Told : flushed'[v] > s[v] => Replaced(TokenOf(v), t, l)
    BY <1>0, <1>11 DEF Guarded
  <2> QED BY <2>0, <2>1, <2>2, <2>3 DEF Guarded
<1>12. \A t \in [DependsOn -> ChangeIds] : ReadOK(t) => ReadOK(t)'
  BY <1>0, <1>9, ReadStays
<1>13. \A v \in URIs : flushed[v] <= flushed'[v]
  BY <1>0, <1>2
<1> QED BY <1>0, <1>5, <1>7, <1>8, <1>10, <1>11, <1>12, <1>13, StoreStep

\* A principal gets its new token at once: it is a change's that nobody has seen.
LEMMA PrincipalTokenStep ==
  ASSUME Inv, ChangePrincipal(key.user), ~UNCHANGED <<token, flushed>>
  PROVE  Inv'
<1> DEFINE me == key.user
           j == [on |-> me, left |-> <<me>>]
<1>0. /\ changes < MaxChanges /\ changes' = changes + 1
      /\ token' = [token EXCEPT ![me] = [id |-> changes + 1, ttl |-> Timeout]]
      /\ flushed' = [flushed EXCEPT ![me] = changes + 1]
      /\ jobs' = Append(jobs, j)
      /\ UNCHANGED <<data, cache, reader, key>>
  BY DEF ChangePrincipal
<1>1. TypeInv /\ me \in URIs /\ me \in Users /\ me \in Shows /\ me \in DependsOn
  BY KeyFacts DEF Inv
<1>2. /\ changes \in Nat /\ MaxChanges \in Nat /\ Timeout \in Nat
      /\ \A v \in URIs : data[v] \in Nat /\ flushed[v] \in Nat
      /\ \A v \in URIs : token[v].id \in Nat
  BY <1>1, Numbers
<1>3. j \in Job /\ j.on = me /\ j.left = <<me>>
  BY <1>1 DEF Job
<1> HIDE DEF j
<1>4. /\ jobs' \in Seq(Job) /\ Len(jobs') = changes + 1
      /\ jobs'[changes + 1] = j /\ \A k \in 1..changes : jobs'[k] = jobs[k]
  BY <1>0, <1>1, <1>3, JobAdded
<1>5. \A k \in 1..changes' : k \in 1..changes \/ k = changes + 1
  BY <1>0, <1>2
<1>6. changes' \in ChangeIds
  BY <1>0, <1>2 DEF ChangeIds
<1>7. /\ token' \in [URIs -> Tokens] /\ flushed' \in [URIs -> ChangeIds]
      /\ token'[me] = [id |-> changes + 1, ttl |-> Timeout] /\ flushed'[me] = changes + 1
      /\ \A v \in URIs : v # me => token'[v] = token[v] /\ flushed'[v] = flushed[v]
  <2>1. [id |-> changes + 1, ttl |-> Timeout] \in Tokens
    BY <1>0, <1>2, <1>6 DEF Tokens, Forever
  <2> QED BY <1>0, <1>1, <1>6, <2>1 DEF TypeInv
<1>8. TypeInv'
  BY <1>0, <1>1, <1>4, <1>6, <1>7, ReaderTypes DEF TypeInv
<1>9. JobInv'
  <2>1. Shows' = Shows
    BY <1>0, KeyFixed
  <2>2. \A k \in 1..changes :
           /\ jobs'[k].on \in Shows /\ jobs'[k].left \in JobLefts(jobs'[k].on)
           /\ jobs'[k].on \notin Users => k <= data'[jobs'[k].on]
    BY <1>0, <1>4 DEF Inv, JobInv
  <2>3. /\ jobs'[changes + 1].on \in Shows /\ jobs'[changes + 1].on \in Users
        /\ jobs'[changes + 1].left \in JobLefts(jobs'[changes + 1].on)
    <3>1. me \notin Children
      BY <1>1, ConstantsAssumption
    <3> QED BY <1>1, <1>3, <1>4, <3>1, NotifyShape
  <2> QED BY <1>5, <2>1, <2>2, <2>3 DEF JobInv
<1>10. StoreInv'
  <2>1. \A v \in URIs : /\ data'[v] <= changes' /\ flushed'[v] <= changes'
    BY <1>0, <1>2, <1>7 DEF Inv, StoreInv
  <2>2. \A v \in URIs \ Users : flushed'[v] <= data'[v]
    BY <1>0, <1>1, <1>7 DEF Inv, StoreInv
  <2> QED BY <2>1, <2>2 DEF StoreInv
<1>11. \A k \in 1..changes' : \A d : Pending(k, d)' => k \in 1..changes /\ Pending(k, d)
  BY <1>1, <1>3, <1>4, <1>5 DEF Pending
<1>12. TokenInv'
  <2>1. ASSUME NEW d \in URIs
        PROVE  /\ token'[d].id <= changes' /\ token'[d].ttl <= Timeout
               /\ \A k \in 1..changes' : Pending(k, d)' => token'[d].id # k
    <3>1. CASE d = me
      <4>1. token'[d].id = changes + 1 /\ token'[d].ttl = Timeout
        BY <1>7, <3>1
      <4> QED BY <1>0, <1>2, <1>11, <4>1
    <3>2. CASE d # me
      <4>1. token'[d] = token[d] /\ token[d].id <= changes /\ token[d].ttl <= Timeout
        BY <1>7, <3>2 DEF Inv, TokenInv
      <4>2. \A k \in 1..changes : Pending(k, d) => token[d].id # k
        BY DEF Inv, TokenInv
      <4> QED BY <1>0, <1>2, <1>11, <4>1, <4>2
    <3> QED BY <3>1, <3>2
  <2> QED BY <2>1 DEF TokenInv
<1>13. ASSUME NEW t \in [DependsOn -> ChangeIds], NEW s \in Versions, NEW l \in 0..Timeout,
              ReadOK(t), Guarded(t, s, l)
       PROVE  Guarded(t, s, l)'
  <2>0. Told' = Told /\ DependsOn' = DependsOn /\ \A v : TokenOf(v)' = TokenOf(v)
    BY <1>0, KeyFixed
  <2>1. Replaced(me, t, l)'
    <3>1. t[me] <= changes /\ t[me] \in Nat
      BY <1>1, <1>2, <1>13 DEF ReadOK, ChangeIds
    <3>2. token'[me].id = changes + 1 /\ token'[me].ttl = Timeout
      BY <1>7
    <3>3. changes + 1 # 0 /\ changes + 1 # t[me] /\ Timeout >= l
      BY <1>2, <3>1
    <3>4. token'[me].id # None /\ token'[me].id # t[me] /\ token'[me].ttl >= l
      BY <3>2, <3>3 DEF None
    <3>5. me' = me
      BY <1>0
    <3> QED BY <3>4, <3>5 DEF Replaced
  <2>2. ASSUME NEW d \in DependsOn, Replaced(d, t, l) PROVE Replaced(d, t, l)'
    <3>1. d \in URIs
      BY <1>1, KeyFacts
    <3>2. CASE d = me
      BY <1>0, <2>1, <3>2
    <3>3. CASE d # me
      BY <1>7, <2>2, <3>1, <3>3 DEF Replaced
    <3> QED BY <3>2, <3>3
  <2>3. ASSUME NEW v \in Told, flushed'[v] > s[v] PROVE Replaced(TokenOf(v), t, l)'
    <3>1. TokenOf(v) \in DependsOn /\ v \in URIs /\ (v \in Users => TokenOf(v) = v)
      BY <1>1, KeyFacts
    <3>2. CASE v = me
      <4>1. TokenOf(v)' = me' /\ me' = me
        BY <1>0, <1>1, <2>0, <3>1, <3>2
      <4> QED BY <2>1, <4>1
    <3>3. CASE v # me
      <4>1. Replaced(TokenOf(v), t, l)
        BY <1>7, <1>13, <2>3, <3>1, <3>3 DEF Guarded
      <4>2. PICK d \in DependsOn : d = TokenOf(v)
        BY <3>1
      <4>3. Replaced(d, t, l)'
        BY <2>2, <4>1, <4>2
      <4>4. TokenOf(v)' = d
        BY <2>0, <4>2
      <4> QED BY <4>3, <4>4
    <3> QED BY <3>2, <3>3
  <2>4. ASSUME NEW k \in 1..changes', jobs'[k].on \in Children \cap DependsOn,
               Len(jobs'[k].left) = 1, k > s[jobs'[k].on]
        PROVE  Replaced(jobs[k].on, t, l)'
    <3>1. k \in 1..changes /\ jobs'[k] = jobs[k]
      BY <1>1, <1>3, <1>4, <1>5, <2>4, ConstantsAssumption
    <3>2. PICK d \in DependsOn : d = jobs[k].on
      BY <2>4, <3>1
    <3>3. Replaced(d, t, l)
      BY <1>13, <2>4, <3>1, <3>2 DEF Guarded
    <3>4. Replaced(d, t, l)'
      BY <2>2, <3>3
    <3> QED BY <3>1, <3>2, <3>4
  <2> QED BY <2>0, <2>3, <2>4 DEF Guarded
<1>14. \A t \in [DependsOn -> ChangeIds] : ReadOK(t) => ReadOK(t)'
  <2>1. \A k \in 1..changes : \A d : Pending(k, d)' => Pending(k, d)
    BY <1>4 DEF Pending
  <2> QED BY <1>0, <2>1, ReadStays
<1>15. \A v \in URIs : flushed[v] <= flushed'[v]
  BY <1>2, <1>7 DEF Inv, StoreInv
<1> QED BY <1>0, <1>8, <1>9, <1>10, <1>12, <1>13, <1>14, <1>15, StoreStep

\* The token of a principal could not be set: nothing is said of the change.
LEMMA PrincipalNoTokenStep ==
  ASSUME Inv, ChangePrincipal(key.user), UNCHANGED <<token, flushed>>
  PROVE  Inv'
<1> DEFINE me == key.user
           j == [on |-> me, left |-> <<me>>]
<1>0. /\ changes < MaxChanges /\ changes' = changes + 1
      /\ jobs' = Append(jobs, j)
      /\ UNCHANGED <<token, flushed, data, cache, reader, key>>
  BY DEF ChangePrincipal
<1>1. TypeInv /\ me \in URIs /\ me \in Users /\ me \in Shows /\ me \notin Children
  BY KeyFacts, ConstantsAssumption DEF Inv
<1>2. /\ changes \in Nat /\ MaxChanges \in Nat
      /\ \A v \in URIs : data[v] \in Nat /\ flushed[v] \in Nat
      /\ \A v \in URIs : token[v].id \in Nat
  BY <1>1, Numbers
<1>3. j \in Job /\ j.on = me /\ j.left = <<me>>
  BY <1>1 DEF Job
<1> HIDE DEF j
<1>4. /\ jobs' \in Seq(Job) /\ Len(jobs') = changes + 1
      /\ jobs'[changes + 1] = j /\ \A k \in 1..changes : jobs'[k] = jobs[k]
  BY <1>0, <1>1, <1>3, JobAdded
<1>5. \A k \in 1..changes' : k \in 1..changes \/ k = changes + 1
  BY <1>0, <1>2
<1>6. changes' \in ChangeIds
  BY <1>0, <1>2 DEF ChangeIds
<1>7. TypeInv'
  BY <1>0, <1>1, <1>4, <1>6, ReaderTypes DEF TypeInv
<1>8. JobInv'
  <2>1. Shows' = Shows
    BY <1>0, KeyFixed
  <2>2. \A k \in 1..changes :
           /\ jobs'[k].on \in Shows /\ jobs'[k].left \in JobLefts(jobs'[k].on)
           /\ jobs'[k].on \notin Users => k <= data'[jobs'[k].on]
    BY <1>0, <1>4 DEF Inv, JobInv
  <2>3. /\ jobs'[changes + 1].on \in Shows /\ jobs'[changes + 1].on \in Users
        /\ jobs'[changes + 1].left \in JobLefts(jobs'[changes + 1].on)
    BY <1>1, <1>3, <1>4, NotifyShape
  <2> QED BY <1>5, <2>1, <2>2, <2>3 DEF JobInv
<1>9. StoreInv'
  BY <1>0, <1>2 DEF Inv, StoreInv
<1>10. \A k \in 1..changes' : \A d : Pending(k, d)' => k \in 1..changes /\ Pending(k, d)
  BY <1>1, <1>3, <1>4, <1>5 DEF Pending
<1>11. TokenInv'
  <2> SUFFICES ASSUME NEW d \in URIs
               PROVE  /\ token[d].id <= changes' /\ token[d].ttl <= Timeout
                      /\ \A k \in 1..changes' : Pending(k, d)' => token[d].id # k
    BY <1>0 DEF TokenInv
  <2>1. /\ token[d].id <= changes /\ token[d].ttl <= Timeout /\ token[d].id \in Nat
        /\ \A k \in 1..changes : Pending(k, d) => token[d].id # k
    BY <1>2 DEF Inv, TokenInv
  <2> QED BY <1>0, <1>2, <1>10, <2>1
<1>12. ASSUME NEW t, NEW s, NEW l, Guarded(t, s, l) PROVE Guarded(t, s, l)'
  <2>0. Told' = Told /\ DependsOn' = DependsOn /\ \A v : TokenOf(v)' = TokenOf(v)
    BY <1>0, KeyFixed
  <2>1. \A d : Replaced(d, t, l)' <=> Replaced(d, t, l)
    BY <1>0 DEF Replaced
  <2>2. ASSUME NEW k \in 1..changes', jobs'[k].on \in Children \cap DependsOn,
               Len(jobs'[k].left) = 1, k > s[jobs'[k].on]
        PROVE  Replaced(jobs'[k].on, t, l)
    <3>1. k \in 1..changes /\ jobs'[k] = jobs[k]
      BY <1>1, <1>3, <1>4, <1>5, <2>2
    <3> QED BY <1>12, <2>2, <3>1 DEF Guarded
  <2>3. \A v \in Told : flushed'[v] > s[v] => Replaced(TokenOf(v), t, l)
    BY <1>0, <1>12 DEF Guarded
  <2> QED BY <2>0, <2>1, <2>2, <2>3 DEF Guarded
<1>13. \A t \in [DependsOn -> ChangeIds] : ReadOK(t) => ReadOK(t)'
  <2>1. \A k \in 1..changes : \A d : Pending(k, d)' => Pending(k, d)
    BY <1>4 DEF Pending
  <2> QED BY <1>0, <2>1, ReadStays
<1>14. \A v \in URIs : flushed[v] <= flushed'[v]
  BY <1>0, <1>2
<1> QED BY <1>0, <1>7, <1>8, <1>9, <1>11, <1>12, <1>13, <1>14, StoreStep

\* A principal is changed.
LEMMA ChangePrincipalStep ==
  ASSUME Inv, ChangePrincipal(key.user)
  PROVE  Inv'
BY PrincipalTokenStep, PrincipalNoTokenStep

\* What job k can have left, and what it can have left next.
LEMMA JobShape ==
  ASSUME Inv, NEW k \in 1..changes, jobs[k].left # << >>
  PROVE  LET u == jobs[k].on
             l == jobs[k].left
         IN  /\ u \in URIs /\ u \in Shows /\ l \in Seq(URIs) /\ Tail(l) \in Seq(URIs)
             /\ Tail(l) \in JobLefts(u)
             /\ Head(l) \in URIs
             /\ \A i \in 1..Len(Tail(l)) : Tail(l)[i] = l[i + 1] /\ i + 1 \in 1..Len(l)
             /\ \A i \in 1..Len(Tail(l)) : Tail(l)[i] # Head(l)
             /\ u \notin Children => l = <<u>>
             /\ u \in Children => l = <<u, OwnerHome[u]>> \/ l = <<OwnerHome[u]>>
<1> DEFINE u == jobs[k].on
           l == jobs[k].left
<1>1. u \in URIs /\ u \in Shows /\ l \in Seq(URIs) /\ l \in JobLefts(u)
  BY Numbers DEF Inv, JobInv, Job
<1>2. /\ Tail(l) \in Seq(URIs) /\ Head(l) \in URIs /\ Len(Tail(l)) = Len(l) - 1
      /\ \A i \in 1..Len(Tail(l)) : Tail(l)[i] = l[i + 1] /\ i + 1 \in 1..Len(l)
  BY <1>1
<1>3. CASE u \notin Children
  <2>1. JobLefts(u) = {<< >>, <<u>>}
    BY <1>1, <1>3, NotifyShape
  <2>2. l = <<u>>
    BY <1>1, <2>1
  <2>3. Tail(l) = << >> /\ Head(l) = u
    BY <2>2
  <2> QED BY <1>1, <1>2, <1>3, <2>1, <2>2, <2>3
<1>4. CASE u \in Children
  <2>1. /\ JobLefts(u) = {<< >>, <<u, OwnerHome[u]>>, <<OwnerHome[u]>>}
        /\ OwnerHome[u] # u
    BY <1>1, <1>4, NotifyShape
  <2>2. CASE l = <<u, OwnerHome[u]>>
    <3>1. Tail(l) = <<OwnerHome[u]>> /\ Head(l) = u
      BY <2>2
    <3>2. \A i \in 1..Len(Tail(l)) : Tail(l)[i] # Head(l)
      <4>0. \A h : Len(<<h>>) = 1 /\ <<h>>[1] = h
        OBVIOUS
      <4>1. Len(Tail(l)) = 1 /\ Tail(l)[1] = OwnerHome[u]
        <5> HIDE DEF l, u
        <5> QED BY <3>1, <4>0
      <4>2. \A i \in 1..1 : i = 1
        OBVIOUS
      <4> QED BY <2>1, <3>1, <4>1, <4>2
    <3> HIDE DEF l, u
    <3> QED BY <1>1, <1>2, <1>4, <2>1, <2>2, <3>1, <3>2 DEF l, u
  <2>3. CASE l = <<OwnerHome[u]>>
    <3>1. Tail(l) = << >> /\ Len(Tail(l)) = 0
      BY <2>3
    <3>2. \A i \in 1..Len(Tail(l)) : Tail(l)[i] # Head(l)
      BY <3>1
    <3> QED BY <1>1, <1>2, <1>4, <2>1, <2>3, <3>1, <3>2
  <2> QED BY <1>1, <2>1, <2>2, <2>3
<1> QED BY <1>3, <1>4

\* A job gets shorter by its first URI, or ends.
LEMMA JobShorter ==
  ASSUME Inv, NEW k \in 1..changes, jobs[k].left # << >>, NEW l,
         l = << >> \/ l = Tail(jobs[k].left),
         jobs' = [jobs EXCEPT ![k].left = l], changes' = changes, key' = key
  PROVE  /\ jobs' \in Seq(Job) /\ Len(jobs') = changes'
         /\ jobs'[k].on = jobs[k].on /\ jobs'[k].left = l
         /\ \A j \in 1..changes : j # k => jobs'[j] = jobs[j]
         /\ \A j \in 1..changes : \A d : Pending(j, d)' => Pending(j, d)
         /\ (\A u \in URIs : data[u] <= data'[u] /\ data'[u] \in Nat) => JobInv'
         /\ \A t \in [DependsOn -> ChangeIds] : ReadOK(t) => ReadOK(t)'
<1>0. TypeInv /\ Shows' = Shows
  BY KeyFixed DEF Inv
<1>1. /\ l \in Seq(URIs) /\ l \in JobLefts(jobs[k].on)
      /\ \A i \in 1..Len(l) : \E h \in 1..Len(jobs[k].left) : l[i] = jobs[k].left[h]
  <2>1. CASE l = << >>
    BY <2>1 DEF JobLefts
  <2>2. CASE l = Tail(jobs[k].left)
    BY <2>2, JobShape
  <2> QED BY <2>1, <2>2
<1>2. /\ jobs' \in Seq(Job) /\ Len(jobs') = changes
      /\ jobs'[k].on = jobs[k].on /\ jobs'[k].left = l
      /\ \A j \in 1..changes : j # k => jobs'[j] = jobs[j]
  BY <1>0, <1>1, JobChanged
<1>3. ASSUME NEW j \in 1..changes, NEW d, Pending(j, d)' PROVE Pending(j, d)
  <2>1. CASE j = k
    BY <1>1, <1>2, <1>3, <2>1 DEF Pending
  <2>2. CASE j # k
    BY <1>2, <1>3, <2>2 DEF Pending
  <2> QED BY <2>1, <2>2
<1>4. ASSUME \A u \in URIs : data[u] <= data'[u] /\ data'[u] \in Nat PROVE JobInv'
  <2> SUFFICES ASSUME NEW j \in 1..changes
               PROVE  /\ jobs'[j].on \in Shows /\ jobs'[j].left \in JobLefts(jobs'[j].on)
                      /\ jobs'[j].on \notin Users => j <= data'[jobs'[j].on]
    BY <1>0 DEF JobInv
  <2>1. jobs'[j].on = jobs[j].on
    BY <1>2
  <2>2. /\ jobs[j].on \in Shows /\ jobs[j].left \in JobLefts(jobs[j].on)
        /\ jobs[j].on \notin Users => j <= data[jobs[j].on]
    BY DEF Inv, JobInv
  <2>3. jobs[j].on \in URIs /\ data[jobs[j].on] \in Nat /\ changes \in Nat
    BY <1>0, <2>2, KeyFacts, Numbers
  <2>4. jobs'[j].left \in JobLefts(jobs[j].on)
    BY <1>1, <1>2, <2>2
  <2>5. jobs[j].on \notin Users => j <= data'[jobs[j].on]
    BY <1>4, <2>2, <2>3
  <2> QED BY <2>1, <2>2, <2>4, <2>5
<1>5. \A t \in [DependsOn -> ChangeIds] : ReadOK(t) => ReadOK(t)'
  BY <1>3, ReadStays
<1> QED BY <1>2, <1>3, <1>4, <1>5

\* A job is lost, or the transaction of a principal's change ends.
LEMMA JobEndStep ==
  ASSUME Inv, NEW k \in 1..changes, LoseNotification(k) \/ EndPrincipalChange(k)
  PROVE  Inv'
<1>0. /\ jobs[k].left # << >> /\ jobs' = [jobs EXCEPT ![k].left = << >>]
      /\ UNCHANGED <<changes, flushed, token, cache, reader, key>>
  BY DEF LoseNotification, EndPrincipalChange
<1>1. TypeInv
  BY DEF Inv
<1>2. /\ changes \in Nat /\ \A v \in URIs : data[v] \in Nat /\ flushed[v] \in Nat
  BY <1>1, Numbers
<1>3. /\ data' \in [URIs -> ChangeIds]
      /\ \A v \in URIs : data[v] <= data'[v] /\ data'[v] \in Nat /\ data'[v] <= changes
      /\ \A v \in URIs \ Users : data'[v] = data[v]
  <2>1. CASE data' = data
    BY <1>1, <1>2, <2>1 DEF Inv, TypeInv, StoreInv
  <2>2. CASE data' = [data EXCEPT ![jobs[k].on] = Max({@, k})] /\ jobs[k].on \in Users
    <3> DEFINE u == jobs[k].on
    <3>1. u \in URIs /\ data[u] \in Nat /\ data[u] <= changes /\ data[u] \in ChangeIds
      BY <1>0, <1>1, <1>2, JobShape DEF Inv, TypeInv, StoreInv
    <3>2. k \in Nat /\ k <= changes /\ k \in ChangeIds
      BY <1>1, <1>2, ConstantsAssumption DEF TypeInv, ChangeIds
    <3>3. Max({data[u], k}) = IF data[u] >= k THEN data[u] ELSE k
      BY <3>1, <3>2, MaxOfTwo
    <3>4. data' = [data EXCEPT ![u] = Max({data[u], k})]
      BY <2>2
    <3>5. /\ Max({data[u], k}) \in ChangeIds /\ Max({data[u], k}) <= changes
          /\ Max({data[u], k}) \in Nat /\ data[u] <= Max({data[u], k})
      BY <3>1, <3>2, <3>3
    <3> HIDE DEF u
    <3>6. data' \in [URIs -> ChangeIds]
      BY <1>1, <3>4, <3>5 DEF TypeInv
    <3>7. \A v \in URIs : data'[v] = IF v = u THEN Max({data[u], k}) ELSE data[v]
      BY <1>1, <3>4 DEF TypeInv
    <3>8. \A v \in URIs : data[v] <= data'[v] /\ data'[v] \in Nat /\ data'[v] <= changes
      BY <1>2, <3>5, <3>7 DEF Inv, StoreInv
    <3> QED BY <2>2, <3>6, <3>7, <3>8 DEF u
  <2> QED BY <2>1, <2>2 DEF LoseNotification, EndPrincipalChange
<1>4. /\ jobs' \in Seq(Job) /\ Len(jobs') = changes'
      /\ jobs'[k].on = jobs[k].on /\ jobs'[k].left = << >>
      /\ \A j \in 1..changes : j # k => jobs'[j] = jobs[j]
      /\ \A j \in 1..changes : \A d : Pending(j, d)' => Pending(j, d)
      /\ JobInv'
      /\ \A t \in [DependsOn -> ChangeIds] : ReadOK(t) => ReadOK(t)'
  BY <1>0, <1>3, JobShorter
<1>5. TypeInv'
  BY <1>0, <1>1, <1>3, <1>4, ReaderTypes DEF TypeInv
<1>6. StoreInv'
  <2>1. \A v \in URIs : data'[v] <= changes' /\ flushed'[v] <= changes'
    BY <1>0, <1>3 DEF Inv, StoreInv
  <2>2. \A v \in URIs \ Users : flushed'[v] <= data'[v]
    BY <1>0, <1>3 DEF Inv, StoreInv
  <2> QED BY <2>1, <2>2 DEF StoreInv
<1>7. TokenInv'
  BY <1>0, <1>4 DEF Inv, TokenInv
<1>8. ASSUME NEW t, NEW s, NEW l, Guarded(t, s, l) PROVE Guarded(t, s, l)'
  <2>0. Told' = Told /\ DependsOn' = DependsOn /\ \A v : TokenOf(v)' = TokenOf(v)
    BY <1>0, KeyFixed
  <2>1. \A d : Replaced(d, t, l)' <=> Replaced(d, t, l)
    BY <1>0 DEF Replaced
  <2>2. \A v \in Told : flushed'[v] > s[v] => Replaced(TokenOf(v), t, l)
    BY <1>0, <1>8 DEF Guarded
  <2>3. ASSUME NEW j \in 1..changes, jobs'[j].on \in Children \cap DependsOn,
               Len(jobs'[j].left) = 1, j > s[jobs'[j].on]
        PROVE  Replaced(jobs'[j].on, t, l)
    <3>1. j # k
      <4>1. Len(<< >>) # 1
        OBVIOUS
      <4> QED BY <1>4, <2>3, <4>1
    <3> QED BY <1>4, <1>8, <2>3, <3>1 DEF Guarded
  <2> QED BY <1>0, <2>0, <2>1, <2>2, <2>3 DEF Guarded
<1>9. \A v \in URIs : flushed[v] <= flushed'[v]
  BY <1>0, <1>2
<1> QED BY <1>0, <1>4, <1>5, <1>6, <1>7, <1>8, <1>9, StoreStep

\* A job sets its next token. The token was not read by anyone, because no job
\* sets a token twice; and when the job is done every token that the change is
\* noticed by has been replaced.
LEMMA ChangedStep ==
  ASSUME Inv, NEW k \in 1..changes, Changed(k)
  PROVE  Inv'
<1> DEFINE u == jobs[k].on
           left == jobs[k].left
           x == Head(left)
           fresh == [id |-> k, ttl |-> Timeout]
<1>0. /\ left # << >> /\ u \notin Users
      /\ token' = [token EXCEPT ![x] = fresh]
      /\ jobs' = [jobs EXCEPT ![k].left = Tail(left)]
      /\ flushed' = IF Len(left) = 1 THEN [flushed EXCEPT ![u] = Max({flushed[u], k})]
                    ELSE flushed
      /\ UNCHANGED <<changes, data, cache, reader, key>>
  BY DEF Changed
<1>1. TypeInv
  BY DEF Inv
<1>2. /\ changes \in Nat /\ Timeout \in Nat
      /\ \A v \in URIs : data[v] \in Nat /\ flushed[v] \in Nat
      /\ \A v \in URIs : token[v].id \in Nat
  BY <1>1, Numbers
<1>3. /\ u \in URIs /\ u \in Shows /\ left \in Seq(URIs) /\ x \in URIs
      /\ \A i \in 1..Len(Tail(left)) : Tail(left)[i] # x
      /\ u \notin Children => left = <<u>>
      /\ u \in Children => left = <<u, OwnerHome[u]>> \/ left = <<OwnerHome[u]>>
  BY <1>0, JobShape
<1>4. k \in Nat /\ k # 0 /\ k <= changes /\ k \in ChangeIds
  BY <1>1, <1>2, ConstantsAssumption DEF TypeInv, ChangeIds
<1>5. /\ jobs' \in Seq(Job) /\ Len(jobs') = changes'
      /\ jobs'[k].on = u /\ jobs'[k].left = Tail(left)
      /\ \A j \in 1..changes : j # k => jobs'[j] = jobs[j]
      /\ \A j \in 1..changes : \A d : Pending(j, d)' => Pending(j, d)
      /\ JobInv'
      /\ \A t \in [DependsOn -> ChangeIds] : ReadOK(t) => ReadOK(t)'
  <2>1. \A v \in URIs : data[v] <= data'[v] /\ data'[v] \in Nat
    BY <1>0, <1>2
  <2> QED BY <1>0, <2>1, JobShorter
<1>6. Pending(k, x)
  <2>1. 1 \in 1..Len(left) /\ left[1] = x
    BY <1>0, <1>3
  <2> QED BY <1>0, <2>1 DEF Pending
<1> HIDE DEF u, left, x
<1>7. fresh \in Tokens /\ fresh.id = k /\ fresh.ttl = Timeout
  BY <1>2, <1>4 DEF Tokens, Forever
<1>8. /\ token' \in [URIs -> Tokens]
      /\ \A v \in URIs : token'[v] = IF v = x THEN fresh ELSE token[v]
  BY <1>0, <1>1, <1>3, <1>7 DEF TypeInv
<1>9. Max({flushed[u], k}) = IF flushed[u] >= k THEN flushed[u] ELSE k
  BY <1>2, <1>3, <1>4, MaxOfTwo
<1>10. /\ flushed' \in [URIs -> ChangeIds]
       /\ \A v \in URIs : flushed'[v] = IF v = u /\ Len(left) = 1 /\ k > flushed[u]
                                        THEN k ELSE flushed[v]
  <2>1. CASE Len(left) = 1
    <3>1. flushed' = [flushed EXCEPT ![u] = IF flushed[u] >= k THEN flushed[u] ELSE k]
      BY <1>0, <1>9, <2>1
    <3>2. (IF flushed[u] >= k THEN flushed[u] ELSE k) \in ChangeIds
      BY <1>1, <1>3, <1>4 DEF TypeInv
    <3> QED BY <1>1, <1>2, <1>3, <1>4, <2>1, <3>1, <3>2 DEF TypeInv
  <2>2. CASE Len(left) # 1
    BY <1>0, <1>1, <2>2 DEF TypeInv
  <2> QED BY <2>1, <2>2
<1>11. TypeInv'
  BY <1>0, <1>1, <1>5, <1>8, <1>10, ReaderTypes DEF TypeInv
<1>12. StoreInv'
  <2>1. k <= data[u]
    BY <1>0 DEF Inv, JobInv, u
  <2>2. \A v \in URIs : data'[v] <= changes' /\ flushed'[v] <= changes'
    BY <1>0, <1>2, <1>4, <1>10 DEF Inv, StoreInv
  <2>3. \A v \in URIs \ Users : flushed'[v] <= data'[v]
    BY <1>0, <1>2, <1>4, <1>10, <2>1 DEF Inv, StoreInv
  <2> QED BY <2>2, <2>3 DEF StoreInv
<1>13. TokenInv'
  <2> SUFFICES ASSUME NEW d \in URIs
               PROVE  /\ token'[d].id <= changes /\ token'[d].ttl <= Timeout
                      /\ \A j \in 1..changes : Pending(j, d)' => token'[d].id # j
    BY <1>0 DEF TokenInv
  <2>1. CASE d = x
    <3>1. token'[d].id = k /\ token'[d].ttl = Timeout
      BY <1>7, <1>8, <2>1
    <3>2. ~Pending(k, d)'
      BY <1>3, <1>5, <2>1 DEF Pending
    <3> QED BY <1>2, <1>4, <3>1, <3>2
  <2>2. CASE d # x
    BY <1>5, <1>8, <2>2 DEF Inv, TokenInv
  <2> QED BY <2>1, <2>2
<1>14. \A v \in URIs : flushed[v] <= flushed'[v]
  BY <1>2, <1>4, <1>10
<1>15. ASSUME NEW t \in [DependsOn -> ChangeIds], NEW s \in Versions, NEW l \in 0..Timeout,
              ReadOK(t), Guarded(t, s, l)
       PROVE  Guarded(t, s, l)'
  <2>0. /\ Told' = Told /\ DependsOn' = DependsOn /\ \A v : TokenOf(v)' = TokenOf(v)
        /\ DependsOn \subseteq URIs /\ Told \subseteq URIs /\ Shows \subseteq URIs
    BY <1>0, <1>1, KeyFixed, KeyFacts
  <2>1. ASSUME NEW d \in DependsOn, d = x PROVE Replaced(d, t, l)'
    <3>1. token'[d].id = k /\ token'[d].ttl = Timeout
      BY <1>7, <1>8, <2>0, <2>1
    <3>2. t[d] # k
      BY <1>6, <1>15, <2>1 DEF ReadOK
    <3>3. Timeout >= l
      BY <1>2
    <3> QED BY <1>4, <3>1, <3>2, <3>3 DEF Replaced, None
  <2>2. ASSUME NEW d \in DependsOn, Replaced(d, t, l) PROVE Replaced(d, t, l)'
    <3>1. CASE d = x
      BY <2>1, <3>1
    <3>2. CASE d # x
      BY <1>8, <2>0, <2>2, <3>2 DEF Replaced
    <3> QED BY <3>1, <3>2
  <2>3. ASSUME NEW v \in Told, flushed'[v] > s[v] PROVE Replaced(TokenOf(v), t, l)'
    <3>0. PICK d \in DependsOn : d = TokenOf(v) /\ TokenOf(v)' = d
      BY <1>1, <2>0, KeyFacts
    <3>1. CASE flushed[v] > s[v]
      <4>1. Replaced(d, t, l)
        BY <1>15, <3>0, <3>1 DEF Guarded
      <4> QED BY <2>2, <3>0, <4>1
    <3>2. CASE ~(flushed[v] > s[v])
      <4>1. v = u /\ Len(left) = 1 /\ k > s[u]
        BY <1>10, <2>0, <2>3, <3>2
      <4>2. CASE u \notin Children
        <5>1. left = <<u>> /\ x = u
          BY <1>3, <4>2 DEF x
        <5>2. d = u
          BY <1>0, <1>1, <1>3, <3>0, <4>1, <4>2, KeyFacts DEF URIs
        <5> QED BY <2>1, <3>0, <5>1, <5>2
      <4>3. CASE u \in Children
        <5>1. left = <<OwnerHome[u]>> /\ x = OwnerHome[u]
          <6>1. Len(<<u, OwnerHome[u]>>) = 2
            OBVIOUS
          <6>2. left = <<OwnerHome[u]>>
            BY <1>3, <4>1, <4>3, <6>1
          <6> QED BY <6>2 DEF x
        <5>2. d = u \/ (d = OwnerHome[u] /\ u \notin DependsOn)
          BY <1>1, <3>0, <4>1, <4>3, KeyFacts
        <5>3. CASE d = u
          <6>1. Replaced(u, t, l)
            BY <1>15, <4>1, <4>3, <5>3 DEF Guarded, u, left
          <6> QED BY <2>2, <3>0, <5>3, <6>1
        <5>4. CASE d = OwnerHome[u]
          BY <2>1, <3>0, <5>1, <5>4
        <5> QED BY <5>2, <5>3, <5>4
      <4> QED BY <4>2, <4>3
    <3> QED BY <3>1, <3>2
  <2>4. ASSUME NEW j \in 1..changes, jobs'[j].on \in Children \cap DependsOn,
               Len(jobs'[j].left) = 1, j > s[jobs'[j].on]
        PROVE  Replaced(jobs[j].on, t, l)'
    <3>0. PICK d \in DependsOn : d = jobs'[j].on
      BY <2>4
    <3>1. CASE j = k
      <4>1. d = u /\ u \in Children /\ Len(Tail(left)) = 1
        BY <1>5, <2>4, <3>0, <3>1
      <4>2. left = <<u, OwnerHome[u]>>
        <5>1. ASSUME left = <<OwnerHome[u]>> PROVE FALSE
          <6>1. Tail(<<OwnerHome[u]>>) = << >> /\ Len(<< >>) = 0
            OBVIOUS
          <6>2. Len(Tail(left)) = 0
            BY <5>1, <6>1
          <6> QED BY <4>1, <6>2
        <5> QED BY <1>3, <4>1, <5>1
      <4>3. x = u
        BY <4>2 DEF x
      <4> QED BY <2>1, <3>0, <4>1, <4>3
    <3>2. CASE j # k
      <4>1. Replaced(d, t, l)
        BY <1>5, <1>15, <2>4, <3>0, <3>2 DEF Guarded
      <4> QED BY <2>2, <3>0, <4>1
    <3> QED BY <3>1, <3>2
  <2> QED BY <1>0, <2>0, <2>3, <2>4 DEF Guarded
<1> QED BY <1>0, <1>5, <1>11, <1>12, <1>13, <1>14, <1>15, StoreStep

\* The token of a collection could not be set, and that of its home replaces one that
\* nobody has read; nothing is said of the change.
LEMMA SkipTokenStep ==
  ASSUME Inv, NEW k \in 1..changes, SkipToken(k)
  PROVE  Inv'
<1> DEFINE left == jobs[k].left
           x == left[2]
           fresh == [id |-> k, ttl |-> Timeout]
<1>0. /\ Len(left) = 2
      /\ token' = [token EXCEPT ![x] = fresh]
      /\ jobs' = [jobs EXCEPT ![k].left = << >>]
      /\ UNCHANGED <<changes, data, flushed, cache, reader, key>>
  BY DEF SkipToken
<1>1. TypeInv /\ left # << >>
  BY <1>0 DEF Inv
<1>2. /\ changes \in Nat /\ Timeout \in Nat
      /\ \A v \in URIs : data[v] \in Nat /\ flushed[v] \in Nat
  BY <1>1, Numbers
<1>3. left \in Seq(URIs) /\ 2 \in 1..Len(left) /\ x \in URIs
  BY <1>0, <1>1, JobShape
<1>4. k \in Nat /\ k # 0 /\ k <= changes /\ k \in ChangeIds
  BY <1>1, <1>2, ConstantsAssumption DEF TypeInv, ChangeIds
<1>5. /\ jobs' \in Seq(Job) /\ Len(jobs') = changes'
      /\ jobs'[k].left = << >>
      /\ \A j \in 1..changes : j # k => jobs'[j] = jobs[j]
      /\ \A j \in 1..changes : \A d : Pending(j, d)' => Pending(j, d)
      /\ JobInv'
      /\ \A t \in [DependsOn -> ChangeIds] : ReadOK(t) => ReadOK(t)'
  <2>1. \A v \in URIs : data[v] <= data'[v] /\ data'[v] \in Nat
    BY <1>0, <1>2
  <2> QED BY <1>0, <1>1, <2>1, JobShorter
<1>6. Pending(k, x)
  <2>1. jobs[k].on \notin Users
    <3>1. jobs[k].on \notin Children => left = <<jobs[k].on>>
      BY <1>1, JobShape
    <3>2. \A h : Len(<<h>>) = 1
      OBVIOUS
    <3>3. jobs[k].on \in Children
      BY <1>0, <3>1, <3>2
    <3> QED BY <3>3, ConstantsAssumption
  <2> QED BY <1>3, <2>1 DEF Pending
<1>7. ~\E d : Pending(k, d)'
  BY <1>5 DEF Pending
<1> HIDE DEF left, x
<1>8. fresh \in Tokens /\ fresh.id = k /\ fresh.ttl = Timeout
  BY <1>2, <1>4 DEF Tokens, Forever
<1>9. /\ token' \in [URIs -> Tokens]
      /\ \A v \in URIs : token'[v] = IF v = x THEN fresh ELSE token[v]
  BY <1>0, <1>1, <1>3, <1>8 DEF TypeInv
<1>10. TypeInv'
  BY <1>0, <1>1, <1>5, <1>9, ReaderTypes DEF TypeInv
<1>11. StoreInv'
  BY <1>0 DEF Inv, StoreInv
<1>12. TokenInv'
  <2> SUFFICES ASSUME NEW d \in URIs
               PROVE  /\ token'[d].id <= changes /\ token'[d].ttl <= Timeout
                      /\ \A j \in 1..changes : Pending(j, d)' => token'[d].id # j
    BY <1>0 DEF TokenInv
  <2>1. CASE d = x
    <3>1. token'[d].id = k /\ token'[d].ttl = Timeout
      BY <1>8, <1>9, <2>1
    <3> QED BY <1>2, <1>4, <1>7, <3>1
  <2>2. CASE d # x
    BY <1>5, <1>9, <2>2 DEF Inv, TokenInv
  <2> QED BY <2>1, <2>2
<1>13. ASSUME NEW t \in [DependsOn -> ChangeIds], NEW s \in Versions, NEW l \in 0..Timeout,
              ReadOK(t), Guarded(t, s, l)
       PROVE  Guarded(t, s, l)'
  <2>0. /\ Told' = Told /\ DependsOn' = DependsOn /\ \A v : TokenOf(v)' = TokenOf(v)
        /\ DependsOn \subseteq URIs
    BY <1>0, <1>1, KeyFixed, KeyFacts
  <2>1. ASSUME NEW d \in DependsOn, Replaced(d, t, l) PROVE Replaced(d, t, l)'
    <3>1. CASE d = x
      <4>1. token'[d].id = k /\ token'[d].ttl = Timeout
        BY <1>8, <1>9, <2>0, <3>1
      <4>2. t[d] # k
        BY <1>6, <1>13, <3>1 DEF ReadOK
      <4>3. Timeout >= l
        BY <1>2
      <4> QED BY <1>4, <4>1, <4>2, <4>3 DEF Replaced, None
    <3>2. CASE d # x
      BY <1>9, <2>0, <2>1, <3>2 DEF Replaced
    <3> QED BY <3>1, <3>2
  <2>2. ASSUME NEW v \in Told, flushed[v] > s[v] PROVE Replaced(TokenOf(v), t, l)'
    <3>1. PICK d \in DependsOn : d = TokenOf(v) /\ TokenOf(v)' = d
      BY <1>1, <2>0, KeyFacts
    <3>2. Replaced(d, t, l)
      BY <1>13, <2>2, <3>1 DEF Guarded
    <3> QED BY <2>1, <3>1, <3>2
  <2>3. ASSUME NEW j \in 1..changes, jobs'[j].on \in Children \cap DependsOn,
               Len(jobs'[j].left) = 1, j > s[jobs'[j].on]
        PROVE  Replaced(jobs[j].on, t, l)'
    <3>1. j # k
      <4>1. Len(<< >>) # 1
        OBVIOUS
      <4> QED BY <1>5, <2>3, <4>1
    <3>2. PICK d \in DependsOn : d = jobs[j].on /\ jobs'[j].on = d
      BY <1>5, <2>3, <3>1
    <3>3. Replaced(d, t, l)
      BY <1>5, <1>13, <2>3, <3>1, <3>2 DEF Guarded
    <3> QED BY <2>1, <3>2, <3>3
  <2> QED BY <1>0, <2>0, <2>2, <2>3 DEF Guarded
<1>14. \A v \in URIs : flushed[v] <= flushed'[v]
  BY <1>0, <1>2
<1> QED BY <1>0, <1>5, <1>10, <1>11, <1>12, <1>13, <1>14, StoreStep

-----------------------------------------------------------------------------
\* The clock

\* A token of a change lasts as long as an entry that was there before it: the
\* time-out is the same, so the token that replaced an entry's outlives the entry.
LEMMA TickStep ==
  ASSUME Inv, Tick
  PROVE  Inv'
<1>0. /\ token' = [v \in URIs |-> IF token[v].ttl <= 1 THEN NoToken
                                  ELSE [token[v] EXCEPT !.ttl = Aged(@)]]
      /\ cache' = IF cache = << >> \/ cache[1].ttl = 1 THEN << >>
                  ELSE <<[cache[1] EXCEPT !.ttl = Aged(@)]>>
      /\ reader' = [r \in Readers |->
                      IF reader[r].pc \in {"compare", "store"}
                        THEN [reader[r] EXCEPT !.slow = TRUE]
                        ELSE reader[r]]
      /\ UNCHANGED <<changes, data, jobs, flushed, key>>
  BY DEF Tick
<1>1. TypeInv
  BY DEF Inv
<1>2. /\ changes \in Nat /\ MaxChanges \in Nat /\ Timeout \in Nat /\ Timeout > 0
      /\ \A v \in URIs : token[v].id \in Nat /\ token[v].ttl \in Nat /\ token[v] \in Tokens
  BY <1>1, Numbers
<1>3. /\ DependsOn' = DependsOn /\ Shows' = Shows /\ Told' = Told
      /\ Versions' = Versions /\ Entries' = Entries
      /\ StoreStates' = StoreStates /\ LookStates' = LookStates
      /\ \A u : TokenOf(u)' = TokenOf(u)
  BY <1>0, KeyFixed
<1>4. \A k, d : Pending(k, d)' <=> Pending(k, d)
  BY <1>0 DEF Pending
<1>5. \A t : ReadOK(t)' <=> ReadOK(t)
  BY <1>0, <1>3, <1>4 DEF ReadOK
<1>6. ASSUME NEW v \in URIs
      PROVE  /\ token'[v] \in Tokens /\ token'[v].ttl <= Timeout
             /\ token'[v].id = None \/ token'[v].id = token[v].id
             /\ token[v].ttl > 1 => token'[v].id = token[v].id
                                    /\ token'[v].ttl = token[v].ttl - 1
  <2>1. token[v].ttl <= Timeout /\ token[v] \in Tokens /\ token[v].ttl \in Nat
    BY <1>2 DEF Inv, TokenInv
  <2>2. CASE token[v].ttl <= 1
    <3>1. token'[v] = NoToken
      BY <1>0, <2>2
    <3>2. NoToken \in Tokens /\ NoToken.id = None /\ NoToken.ttl = 0
      BY <1>2 DEF NoToken, None, Tokens, ChangeIds, Forever
    <3> QED BY <1>2, <2>1, <2>2, <3>1, <3>2
  <2>3. CASE ~(token[v].ttl <= 1)
    <3>1. token'[v] = [token[v] EXCEPT !.ttl = Aged(token[v].ttl)]
      BY <1>0, <2>3
    <3>2. Aged(token[v].ttl) = token[v].ttl - 1
      BY <1>2, <2>1 DEF Aged, Forever
    <3>3. token[v].ttl - 1 \in 0..Forever /\ token[v].ttl - 1 <= Timeout
      BY <1>2, <2>1, <2>3 DEF Forever
    <3>4. token'[v].id = token[v].id /\ token'[v].ttl = token[v].ttl - 1 /\ token'[v] \in Tokens
      BY <2>1, <3>1, <3>2, <3>3 DEF Tokens
    <3> QED BY <3>3, <3>4
  <2> QED BY <2>2, <2>3
<1>7. token' \in [URIs -> Tokens]
  <2>1. DOMAIN token' = URIs /\ token' = [v \in URIs |-> token'[v]]
    BY <1>0
  <2> QED BY <1>6, <2>1
<1>8. TokenInv'
  <2> SUFFICES ASSUME NEW d \in URIs
               PROVE  /\ token'[d].id <= changes /\ token'[d].ttl <= Timeout
                      /\ \A j \in 1..changes : Pending(j, d)' => token'[d].id # j
    BY <1>0 DEF TokenInv
  <2>1. /\ token[d].id <= changes
        /\ \A j \in 1..changes : Pending(j, d)' => token[d].id # j
    BY <1>4 DEF Inv, TokenInv
  <2>2. token'[d].id = 0 \/ token'[d].id = token[d].id
    BY <1>6 DEF None
  <2> QED BY <1>2, <1>6, <2>1, <2>2
<1>9. JobInv' /\ StoreInv'
  BY <1>0, <1>3 DEF Inv, JobInv, StoreInv
<1>10. ASSUME NEW t, NEW s, NEW l \in Nat, NEW m \in Nat, l > 1, m = l - 1, Guarded(t, s, l)
       PROVE  Guarded(t, s, m)'
  <2>0. DependsOn \subseteq URIs /\ \A u \in Told : TokenOf(u) \in DependsOn
    BY <1>1, KeyFacts
  <2>1. ASSUME NEW d \in DependsOn, Replaced(d, t, l) PROVE Replaced(d, t, m)'
    <3>1. token[d].ttl > 1 /\ token[d].ttl - 1 >= m
      BY <1>2, <1>10, <2>0, <2>1 DEF Replaced
    <3>2. token'[d].id = token[d].id /\ token'[d].ttl = token[d].ttl - 1
      BY <1>6, <2>0, <3>1
    <3> QED BY <2>1, <3>1, <3>2 DEF Replaced
  <2>2. ASSUME NEW u \in Told, flushed[u] > s[u] PROVE Replaced(TokenOf(u), t, m)'
    <3>1. PICK d \in DependsOn : d = TokenOf(u) /\ TokenOf(u)' = d
      BY <1>3, <2>0
    <3>2. Replaced(d, t, l)
      BY <1>10, <2>2, <3>1 DEF Guarded
    <3> QED BY <2>1, <3>1, <3>2
  <2>3. ASSUME NEW k \in 1..changes, jobs[k].on \in Children \cap DependsOn,
               Len(jobs[k].left) = 1, k > s[jobs[k].on]
        PROVE  Replaced(jobs[k].on, t, m)'
    <3>1. PICK d \in DependsOn : d = jobs[k].on /\ jobs'[k].on = d
      BY <1>0, <2>3
    <3>2. Replaced(d, t, l)
      BY <1>10, <2>3, <3>1 DEF Guarded
    <3> QED BY <2>1, <3>1, <3>2
  <2> QED BY <1>0, <1>3, <2>2, <2>3 DEF Guarded
<1>11. \A e : EntryInv(e)' <=> EntryInv(e)
  BY <1>3, <1>5 DEF EntryInv
<1>12. CacheInv'
  <2>1. CASE cache = << >> \/ cache[1].ttl = 1
    BY <1>0, <2>1 DEF CacheInv
  <2>2. CASE ~(cache = << >> \/ cache[1].ttl = 1)
    <3>1. PICK e : e = cache[1]
      OBVIOUS
    <3>2. PICK f : f = [e EXCEPT !.ttl = Aged(e.ttl)]
      OBVIOUS
    <3>3. cache' = <<f>> /\ cache'[1] = f
      BY <1>0, <2>2, <3>1, <3>2
    <3>4. /\ EntryInv(e) /\ e \in Entries /\ e.ttl \in Nat /\ e.ttl > 1 /\ e.ttl <= Timeout
          /\ ~e.slow => Guarded(e.tokens, e.seen, e.ttl)
      <4>1. /\ EntryInv(e) /\ e.ttl # 1
            /\ ~e.slow => Guarded(e.tokens, e.seen, e.ttl)
        BY <2>2, <3>1 DEF Inv, CacheInv
      <4>2. e \in Entries /\ e.ttl \in 1..Forever /\ e.ttl <= Timeout
        BY <4>1 DEF EntryInv, Entries
      <4> QED BY <1>2, <4>1, <4>2 DEF Forever
    <3>5. Aged(e.ttl) = e.ttl - 1 /\ e.ttl - 1 \in 1..Forever /\ e.ttl - 1 <= Timeout
      BY <1>2, <3>4 DEF Aged, Forever
    <3>6. /\ f \in Entries /\ f.tokens = e.tokens /\ f.seen = e.seen /\ f.slow = e.slow
          /\ f.ttl = e.ttl - 1 /\ f.ttl \in Nat /\ f.ttl <= Timeout
      BY <3>2, <3>4, <3>5 DEF Entries, Forever
    <3>7. EntryInv(f)
      BY <3>4, <3>6 DEF EntryInv
    <3>8. ~f.slow => Guarded(f.tokens, f.seen, f.ttl)'
      BY <1>10, <3>4, <3>6
    <3> QED BY <1>11, <3>3, <3>7, <3>8 DEF CacheInv
  <2> QED BY <2>1, <2>2
<1>13. ASSUME NEW st, StoringInv(st)
       PROVE  StoringInv([st EXCEPT !.slow = TRUE])'
  <2>1. PICK n : n = [st EXCEPT !.slow = TRUE]
    OBVIOUS
  <2>2. st \in StoreStates /\ ReadOK(st.tokens) /\ (st.left = {} => st.seen \in Versions)
    BY <1>13 DEF StoringInv
  <2>3. /\ n \in StoreStates /\ n.slow = TRUE /\ n.tokens = st.tokens
        /\ n.left = st.left /\ n.seen = st.seen
    BY <2>1, <2>2 DEF StoreStates
  <2>4. StoringInv(n)'
    BY <1>3, <1>5, <2>2, <2>3 DEF StoringInv
  <2> QED BY <2>1, <2>4
<1>14. ASSUME NEW st, LookingInv(st)
       PROVE  LookingInv([st EXCEPT !.slow = TRUE])'
  <2>1. PICK n : n = [st EXCEPT !.slow = TRUE]
    OBVIOUS
  <2>2. /\ st \in LookStates /\ EntryInv(st.entry) /\ (st.pc = "hit" => st.left = {})
        /\ \A u \in Shows : st.announced[u] <= flushed[u]
    BY <1>14 DEF LookingInv
  <2>3. /\ n \in LookStates /\ n.slow = TRUE /\ n.entry = st.entry /\ n.pc = st.pc
        /\ n.left = st.left /\ n.announced = st.announced /\ n.failed = st.failed
    BY <2>1, <2>2 DEF LookStates
  <2>4. LookingInv(n)'
    BY <1>0, <1>3, <1>11, <2>2, <2>3 DEF LookingInv
  <2> QED BY <2>1, <2>4
<1>15. ASSUME NEW st, LookingInv(st), st.pc = "hit" PROVE LookingInv(st)'
  <2>1. /\ st \in LookStates /\ EntryInv(st.entry) /\ (st.pc = "hit" => st.left = {})
        /\ \A u \in Shows : st.announced[u] <= flushed[u]
        /\ ~st.slow /\ ~st.entry.slow =>
             \A u \in Told : TokenOf(u) \notin st.left /\ TokenOf(u) \notin st.failed =>
                st.announced[u] <= st.entry.seen[u]
    BY <1>15 DEF LookingInv
  <2> QED BY <1>0, <1>3, <1>11, <1>15, <2>1 DEF LookingInv
<1>16. ASSUME NEW r \in Readers
       PROVE  ReaderInv(reader[r])' /\ reader'[r] \in ReaderStates
  <2>1. PICK st : st = reader[r]
    OBVIOUS
  <2>2. PICK n : n = reader'[r]
    OBVIOUS
  <2>3. n = IF st.pc \in {"compare", "store"} THEN [st EXCEPT !.slow = TRUE] ELSE st
    BY <1>0, <2>1, <2>2
  <2>4. ReaderInv(st)
    BY <2>1 DEF Inv
  <2>5. ReaderInv(n)' /\ n \in ReaderStates
    <3>1. CASE st = Idle \/ st = Miss
      BY <2>3, <3>1 DEF ReaderInv, ReaderStates, Idle, Miss
    <3>2. CASE StoringInv(st)
      <4>1. st.pc = "store"
        BY <3>2 DEF StoringInv, StoreStates
      <4>2. StoringInv(n)'
        BY <1>13, <2>3, <3>2, <4>1
      <4>3. n \in StoreStates
        BY <1>3, <4>2 DEF StoringInv
      <4> QED BY <4>2, <4>3 DEF ReaderInv, ReaderStates
    <3>3. CASE LookingInv(st)
      <4>1. st.pc = "compare" \/ st.pc = "hit"
        BY <3>3 DEF LookingInv, LookStates
      <4>2. LookingInv(n)'
        BY <1>14, <1>15, <2>3, <3>3, <4>1
      <4>3. n \in LookStates
        BY <1>3, <4>2 DEF LookingInv
      <4> QED BY <4>2, <4>3 DEF ReaderInv, ReaderStates
    <3> QED BY <2>4, <3>1, <3>2, <3>3 DEF ReaderInv
  <2> QED BY <2>2, <2>5
<1>17. TypeInv'
  <2>1. reader' \in [Readers -> ReaderStates]
    <3>1. reader' = [r \in Readers |-> reader'[r]]
      BY <1>0
    <3> QED BY <1>16, <3>1
  <2> QED BY <1>0, <1>1, <1>3, <1>7, <2>1 DEF TypeInv, ReaderStates
<1> QED BY <1>8, <1>9, <1>12, <1>16, <1>17 DEF Inv

-----------------------------------------------------------------------------
\* The theorems

\* Nothing has been changed, announced or cached.
LEMMA InvInit ==
  ASSUME Init
  PROVE  Inv
<1>1. 0 \in ChangeIds /\ NoToken \in Tokens /\ NoToken.id = 0 /\ NoToken.ttl = 0
      /\ Timeout \in Nat
  BY ConstantsAssumption DEF ChangeIds, NoToken, None, Tokens, Forever
<1>2. jobs \in Seq(Job) /\ Len(jobs) = changes /\ 1..changes = {}
  BY DEF Init
<1>3. TypeInv
  BY <1>1, <1>2 DEF Init, TypeInv
<1>4. JobInv /\ StoreInv
  BY <1>2 DEF Init, JobInv, StoreInv
<1>5. TokenInv
  BY <1>1, <1>2 DEF Init, TokenInv
<1>6. CacheInv /\ \A r \in Readers : ReaderInv(reader[r])
  BY DEF Init, CacheInv, ReaderInv
<1> QED BY <1>3, <1>4, <1>5, <1>6 DEF Inv

\* Every step keeps the invariant.
LEMMA InvStep ==
  ASSUME Inv, [Next]_vars
  PROVE  Inv'
<1>1. ASSUME NEW u \in Shows \ Users, Commit(u) PROVE Inv'
  BY <1>1, CommitStep
<1>2. CASE ChangePrincipal(key.user)
  BY <1>2, ChangePrincipalStep
<1>3. ASSUME NEW k \in 1..Len(jobs),
             Changed(k) \/ LoseNotification(k) \/ SkipToken(k) \/ EndPrincipalChange(k)
      PROVE  Inv'
  <2>1. k \in 1..changes
    BY DEF Inv, TypeInv
  <2> QED BY <1>3, <2>1, ChangedStep, SkipTokenStep, JobEndStep
<1>4. ASSUME NEW r \in Readers,
             \/ LookUp(r) \/ Compare(r) \/ Hit(r) \/ Answered(r) \/ NotFound(r)
             \/ Render(r) \/ ReadToken(r) \/ StoreEntry(r)
      PROVE  Inv'
  BY <1>4, LookUpStep, CompareStep, HitStep, AnsweredStep, RenderStep, ReadTokenStep,
     StoreEntryStep
<1>5. CASE Tick
  BY <1>5, TickStep
<1>6. CASE UNCHANGED vars
  <2>1. UNCHANGED <<changes, data, jobs, flushed, token, cache, reader, key>>
    BY <1>6 DEF vars
  <2>2. TypeInv'
    BY <2>1, KeyFixed DEF Inv, TypeInv
  <2>3. JobInv' /\ StoreInv' /\ TokenInv'
    BY <2>1, StoreStill DEF Inv
  <2>4. CacheInv'
    BY <2>1, StoreStill DEF Inv, CacheInv
  <2>5. \A r \in Readers : ReaderInv(reader[r])'
    BY <2>1, StoreStill DEF Inv
  <2> QED BY <2>2, <2>3, <2>4, <2>5 DEF Inv
<1> QED BY <1>1, <1>2, <1>3, <1>4, <1>5, <1>6 DEF Next

\* The inductive invariant holds in every behaviour.
THEOREM InvHolds == Spec => []Inv
<1>1. Init => Inv
  BY InvInit
<1>2. Inv /\ [Next]_vars => Inv'
  BY InvStep
<1> QED BY <1>1, <1>2, PTL DEF Spec

\* The type invariant: every change has its job, and an entry names exactly the
\* tokens that the request it is stored under depends on.
THEOREM TypeCorrect == Spec => []TypeOK
<1>1. Inv => TypeOK
  <2> SUFFICES ASSUME Inv PROVE TypeOK
    OBVIOUS
  <2>1. TypeInv
    BY DEF Inv
  <2>2. DOMAIN jobs = 1..changes
    BY <2>1 DEF TypeInv
  <2>3. ASSUME NEW k \in 1..changes PROVE jobs[k].on \in URIs /\ Len(jobs[k].left) \in 0..2
    <3>1. jobs[k] \in Job
      BY <2>1, Numbers
    <3>2. CASE jobs[k].left = << >>
      <4>1. Len(<< >>) = 0
        OBVIOUS
      <4> QED BY <3>1, <3>2, <4>1 DEF Job
    <3>3. CASE jobs[k].left # << >>
      <4> DEFINE v == jobs[k].on
                 g == OwnerHome[v]
                 left == jobs[k].left
      <4>1. left = <<v>> \/ left = <<v, g>> \/ left = <<g>>
        BY <3>3, JobShape
      <4> HIDE DEF v, g, left
      <4>2. Len(<<v>>) = 1 /\ Len(<<v, g>>) = 2 /\ Len(<<g>>) = 1
        OBVIOUS
      <4>3. Len(left) \in 0..2
        BY <4>1, <4>2
      <4> QED BY <3>1, <4>3 DEF Job, left
    <3> QED BY <3>2, <3>3
  <2>4. cache = << >> \/ (Len(cache) = 1 /\ cache[1] \in Entries)
    <3>1. ASSUME cache # << >> PROVE Len(cache) = 1 /\ cache[1] \in Entries
      <4>1. PICK e : e = cache[1]
        OBVIOUS
      <4>2. cache = <<e>> /\ e \in Entries
        BY <3>1, <4>1 DEF Inv, CacheInv, EntryInv
      <4>3. Len(<<e>>) = 1
        OBVIOUS
      <4> QED BY <4>1, <4>2, <4>3
    <3> QED BY <3>1
  <2>5. ASSUME NEW r \in Readers PROVE ReaderOK(reader[r])
    <3>1. PICK st : st = reader[r]
      OBVIOUS
    <3>2. ReaderInv(st)
      BY <3>1 DEF Inv
    <3>3. CASE st = Idle \/ st = Miss
      BY <3>1, <3>3 DEF ReaderOK, Idle, Miss
    <3>4. CASE StoringInv(st)
      <4>1. st.pc = "store" /\ st.made \in Versions /\ st.tokens \in [DependsOn -> ChangeIds]
        BY <3>4 DEF StoringInv, StoreStates
      <4> QED BY <3>1, <4>1 DEF ReaderOK
    <3>5. CASE LookingInv(st)
      <4>1. /\ st.pc \in {"compare", "hit"} /\ st.entry \in Entries
            /\ st.announced \in Versions /\ st.failed \subseteq DependsOn
        BY <3>5 DEF LookingInv, LookStates
      <4> QED BY <3>1, <4>1 DEF ReaderOK
    <3> QED BY <3>2, <3>3, <3>4, <3>5 DEF ReaderInv
  <2> QED BY <2>1, <2>2, <2>3, <2>4, <2>5 DEF TypeOK, TypeInv
<1> QED BY <1>1, InvHolds, PTL

\* A look-up that begins after a change was announced is never served a response
\* that was cached before the change, as long as it could read the token of that
\* change and neither the look-up nor the caching lasted into the next tick.
THEOREM NotStale == Spec => []StaleOnlyByOverlap
<1>1. Inv => StaleOnlyByOverlap
  <2> SUFFICES ASSUME Inv, NEW r \in Readers, reader[r].pc = "hit",
                      ~reader[r].slow, ~reader[r].entry.slow,
                      NEW u \in Shows \ Untold, TokenOf(u) \notin reader[r].failed
               PROVE  reader[r].announced[u] <= reader[r].entry.seen[u]
    BY DEF StaleOnlyByOverlap
  <2>1. LookingInv(reader[r])
    BY StateOf DEF Inv
  <2>2. reader[r].left = {} /\ u \in Told
    BY <2>1 DEF LookingInv, Told
  <2> QED BY <2>1, <2>2 DEF LookingInv
<1> QED BY <1>1, InvHolds, PTL
=============================================================================
