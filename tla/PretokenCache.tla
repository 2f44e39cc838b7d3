---------------------------- MODULE PretokenCache ---------------------------
(***************************************************************************)
(* The encode caches of one Tokenizer (src/src/bpe/tiktoken.rs): the table *)
(* for short pretokens, seeded with the vocabulary (module PretokenTable   *)
(* is that table), the map for long ones, and the token arena both point   *)
(* into; the memory budget whose overrun wipes all three; the mutators a   *)
(* loader calls, and fork_sized, which gives a worker caches of its own.   *)
(*                                                                         *)
(* A token is a pair: <<p, 0>> and <<p, -1>> are the ids that stand for    *)
(* the whole of p (from the vocabulary, and as a special token that was    *)
(* added), <<p, k>> is a piece of p.                                       *)
(***************************************************************************)
EXTENDS Integers, Sequences, FiniteSetsExt

CONSTANTS
    Short, Long,      \* the pretokens, of up to and of more than 15 bytes
    Vocab,            \* those the vocabulary holds
    Addable,          \* contents an added token may have (a longer one is no pretoken)
    Width,            \* how many tokens the merges leave of a pretoken
    KeyLen,           \* its bytes
    InlineMax,        \* longest encoding a table entry holds itself (4)
    SlotBytes, MinSlots, ArenaSlack, LongFloor, EntryBytes,   \* see Derive
    Budgets,          \* the budgets that are set; Unbounded for None
    Unbounded,
    MaxArena          \* bound: no mutator is called with more in the arena

Pretokens == Short \cup Long

(* from, doubled up to n times. *)
Doublings(from, n) ==
    LET doubled[k \in 0..n] == IF k = 0 THEN from ELSE 2 * doubled[k - 1]
    IN  {doubled[k] : k \in 0..n}

ASSUME PretokensAssumption ==
    /\ IsFiniteSet(Pretokens) /\ Short \cap Long = {} /\ Long # {}
    /\ Vocab \subseteq Pretokens /\ Addable \subseteq Short
    /\ Width \in [Pretokens -> Nat \ {0}] /\ KeyLen \in [Pretokens -> Nat]
    /\ InlineMax \in Nat /\ Unbounded \notin Nat /\ Budgets \subseteq Nat \cup {Unbounded}

(* MinSlots is a power of two, and not the first; the tokens of 15 bytes are fewer
   than the slack (4096). *)
ASSUME SizesAssumption ==
    /\ SlotBytes \in Nat \ {0} /\ MinSlots \in Nat /\ MinSlots \in Doublings(2, MinSlots)
    /\ ArenaSlack \in Nat /\ LongFloor \in Nat /\ EntryBytes \in Nat
    /\ \A p \in Short : Width[p] <= ArenaSlack

VARIABLES
    cfg,      \* [vocab, ignore, added]: the model tables and flags
    cache,    \* [short, cap, arena, long]
    budget,   \* CacheBudget, or Unbounded
    encoded,  \* an encode has run on this tokenizer
    out       \* [pretoken, tokens, wiped] of the last pretoken encoded

vars == <<cfg, cache, budget, encoded, out>>

(* cfg.vocab holds <<p, 0>> for an entry of the vocabulary and <<p, -1>> for one
   that add_special_tokens made; vocab_inv gives the one inserted last. *)
InVocab(c, p) == \E v \in c.vocab : v[1] = p
VocabInv(c, p) == IF <<p, -1>> \in c.vocab THEN <<p, -1>> ELSE <<p, 0>>

Merged(p) == IF Width[p] = 1 THEN <<<<p, 0>>>> ELSE [k \in 1..Width[p] |-> <<p, k>>]

(* seed_symbols, and the long arm of encode_pretoken_miss. *)
SeedSymbols(c, p) == IF c.ignore /\ InVocab(c, p) THEN <<VocabInv(c, p)>> ELSE Merged(p)

(* Entries of the table: an inline encoding, or where it is in the arena. *)
Inline(toks) == [inline |-> toks, at |-> 0, len |-> 0]
Spill(at, len) == [inline |-> <<>>, at |-> at, len |-> len]
Value(ca, e) == IF e.len = 0 THEN e.inline ELSE SubSeq(ca.arena, e.at + 1, e.at + e.len)

(* required_capacity: doubled from cap until one more than n entries are at most 3/4
   of it. *)
Grown(n, cap) == Min({size \in Doublings(cap, n) : (n + 1) * 4 <= size * 3})
RequiredCapacity(n) == Grown(n, MinSlots)

(* replace, or insert when p is absent; pack_val. *)
Put(ca, p, toks) ==
    LET n == Cardinality(DOMAIN ca.short)
        e == IF Len(toks) <= InlineMax THEN Inline(toks) ELSE Spill(Len(ca.arena), Len(toks))
    IN  [ca EXCEPT !.short = [q \in DOMAIN @ \cup {p} |-> IF q = p THEN e ELSE @[q]],
                   !.cap = IF p \in DOMAIN ca.short THEN @ ELSE IF (n + 1) * 4 > @ * 3 THEN 2 * @ ELSE @,
                   !.arena = IF e.len = 0 THEN @ ELSE @ \o toks]

ShortVocab(c) == {p \in Short : InVocab(c, p)}
PutAll(ca, toks) == FoldSet(LAMBDA p, acc : Put(acc, p, toks[p]), ca, DOMAIN toks)

(* apply_added_token_overwrites *)
Overwrite(c, ca) == PutAll(ca, [p \in c.added \cap ShortVocab(c) |-> <<VocabInv(c, p)>>])

(* reseed_cache: the vocabulary, then the added tokens. *)
Reseed(c, ca) == Overwrite(c, PutAll(ca, [p \in ShortVocab(c) |-> SeedSymbols(c, p)]))

Empty(cap) == [short |-> [p \in {} |-> <<>>], cap |-> cap, arena |-> <<>>, long |-> [p \in {} |-> <<>>]]
SeedCount(c) == Cardinality({v \in c.vocab : v[1] \in Short}) + Cardinality(c.added)
Seeded(c) == Reseed(c, Empty(RequiredCapacity(SeedCount(c))))

(* CacheBudget::derive: slots for at most 7/10 of the bytes (a power of two), more
   when the seed fills over 5/8 of them; the rest is halved. *)
Derive(total, c) ==
    LET want == Max({((total \div SlotBytes) * 7) \div 10, MinSlots})
        base == Grown(SeedCount(c), Max({size \in Doublings(1, want) : size <= want}))
        slots == IF SeedCount(c) * 8 > base * 5 THEN 2 * base ELSE base
        rem == Max({total - slots * SlotBytes, 0})
    IN  [total |-> total, slots |-> slots,
         arena |-> Max({(rem \div 2) \div 4, 2 * Len(Seeded(c).arena) + ArenaSlack}),
         long |-> Max({rem \div 2, LongFloor}),
         used |-> 0, giant |-> 0]

NoOut == [pretoken |-> Unbounded, tokens |-> <<>>, wiped |-> FALSE]

Init ==
    /\ cfg = [vocab |-> {<<p, 0>> : p \in Vocab}, ignore |-> FALSE, added |-> {}]
    /\ cache = Seeded(cfg)
    /\ \E total \in Budgets : budget = IF total = Unbounded THEN Unbounded ELSE Derive(total, cfg)
    /\ encoded = FALSE /\ out = NoOut

(* The table is about to outgrow its ceiling. *)
TableFull == cache.cap >= budget.slots /\ (Cardinality(DOMAIN cache.short) + 1) * 4 > cache.cap * 3

(* Bug: the long map is not accounted for. *)
SharesSpentArenaOnly == Len(cache.arena) > budget.arena + budget.giant

(* Bug: no slack for one giant encoding. *)
SharesSpentNoSlack == Len(cache.arena) > budget.arena \/ budget.used > budget.long

(* The arena or the long map has outgrown its share. *)
SharesSpent == Len(cache.arena) > budget.arena + budget.giant \/ budget.used > budget.long

(* wipe_if_over_budget *)
OverBudget == budget # Unbounded /\ (TableFull \/ SharesSpent)

(* Bug: the long map outlives the arena it points into. *)
WipedShortOnly(c) == [Reseed(c, Empty(cache.cap)) EXCEPT !.long = cache.long]

(* Bug: the vocabulary is not seeded again. *)
WipedUnseeded(c) == Empty(cache.cap)

(* wipe_generation: everything but the allocation of the table. *)
Wiped(c) == Reseed(c, Empty(cache.cap))

Emit(p, toks, wiped) ==
    /\ out' = [pretoken |-> p, tokens |-> toks, wiped |-> wiped]
    /\ encoded' = TRUE
    /\ UNCHANGED cfg

(* The probe finds p: its tokens come from the entry or from the arena. *)
Hit(p) ==
    /\ \/ p \in DOMAIN cache.short /\ Emit(p, Value(cache, cache.short[p]), FALSE)
       \/ p \in DOMAIN cache.long /\ Emit(p, Value(cache, cache.long[p]), FALSE)
    /\ UNCHANGED <<cache, budget>>

(* Bug: the check follows the insert, and wipes what was just packed. *)
MissShortCheckedLate(p) ==
    /\ p \in Short \ DOMAIN cache.short
    /\ LET toks == SeedSymbols(cfg, p)
           ca == Put(cache, p, toks)
           kept == [Wiped(cfg) EXCEPT !.short = [q \in DOMAIN @ \cup {p} |-> IF q = p THEN ca.short[p] ELSE @[q]]]
       IN  /\ Emit(p, toks, OverBudget)
           /\ cache' = IF OverBudget THEN kept ELSE ca
           /\ budget' = IF OverBudget THEN [budget EXCEPT !.used = 0] ELSE budget

(* encode_pretoken_miss for a short pretoken: the budget check comes first; after
   a wipe the key is looked up again. *)
MissShort(p) ==
    /\ p \in Short \ DOMAIN cache.short
    /\ LET before == IF OverBudget THEN Wiped(cfg) ELSE cache
           toks == SeedSymbols(cfg, p)
       IN  IF p \in DOMAIN before.short
           THEN Emit(p, Value(before, before.short[p]), OverBudget) /\ cache' = before
           ELSE Emit(p, toks, OverBudget) /\ cache' = Put(before, p, toks)
    /\ budget' = IF OverBudget THEN [budget EXCEPT !.used = 0] ELSE budget

(* ... and for a long one, which always goes to the arena and is accounted for. *)
MissLong(p) ==
    /\ p \in Long \ DOMAIN cache.long
    /\ LET before == IF OverBudget THEN Wiped(cfg) ELSE cache
           toks == SeedSymbols(cfg, p)
       IN  /\ Emit(p, toks, OverBudget)
           /\ cache' = [before EXCEPT
                  !.arena = @ \o toks,
                  !.long = [q \in DOMAIN @ \cup {p} |-> IF q = p THEN Spill(Len(before.arena), Len(toks)) ELSE @[q]]]
           /\ budget' = IF budget = Unbounded THEN budget
                        ELSE [budget EXCEPT !.used = (IF OverBudget THEN 0 ELSE @) + KeyLen[p] + EntryBytes,
                                            !.giant = Max({@, Len(toks)})]

(* set_max_cache_bytes: back to the seed, unless the bound is only taken off. *)
ResetTo(total, c, ca) ==
    IF total = Unbounded THEN budget' = Unbounded /\ cache' = ca
                         ELSE budget' = Derive(total, c) /\ cache' = Seeded(c)
Total == IF budget = Unbounded THEN Unbounded ELSE budget.total

(* rederive_budget_if_set, at the end of the mutators that change the seed. *)
Rederive(c, ca) == ResetTo(Total, c, ca)

MayMutate == Len(cache.arena) <= MaxArena
Mutated(c) == cfg' = c /\ UNCHANGED <<encoded, out>>

SetMaxCacheBytes(total) ==
    /\ ResetTo(total, cfg, cache)
    /\ UNCHANGED <<cfg, encoded, out>>

(* set_ignore_merges: the entries of the vocabulary are rewritten in place, those of
   the long map are left to the reset that a budget brings. *)
SetIgnoreMerges(flag) ==
    /\ MayMutate /\ flag # cfg.ignore
    /\ LET c == [cfg EXCEPT !.ignore = flag]
       IN  Mutated(c) /\ Rederive(c, Reseed(c, cache))

(* set_added_tokens: the entries of the outgoing tokens get their seed back, then
   the incoming ones take theirs over. *)
SetAdded(c) ==
    LET restored == PutAll(cache, [p \in cfg.added \cap ShortVocab(c) |-> SeedSymbols(c, p)])
    IN  Mutated(c) /\ Rederive(c, Overwrite(c, restored))

SetAddedTokens(ps) ==
    /\ MayMutate /\ ps # cfg.added
    /\ SetAdded([cfg EXCEPT !.added = ps])

(* add_special_tokens: the content also enters the vocabulary when the id is free,
   and is what vocab_inv answers from then on. *)
AddSpecialToken(p, free) ==
    /\ MayMutate /\ p \notin cfg.added /\ (free => <<p, -1>> \notin cfg.vocab)
    /\ SetAdded([cfg EXCEPT !.added = @ \cup {p},
                            !.vocab = IF free THEN @ \cup {<<p, -1>>} ELSE @])

(* fork_sized: a worker with the same tables, the same budget and a fresh seed, in a
   table sized for its share of the input but not past the ceiling. *)
Fork(hint) ==
    /\ LET n == Cardinality({v \in cfg.vocab : v[1] \in Short})
           floor == IF budget = Unbounded THEN hint ELSE Min({hint, budget.slots})
       IN  cache' = Reseed(cfg, Empty(Grown(n, floor)))
    /\ budget' = IF budget = Unbounded THEN budget ELSE [budget EXCEPT !.used = 0, !.giant = 0]
    /\ UNCHANGED <<cfg, encoded, out>>

(* When a caller may change the flag: while it loads, before the first encode.  A
   budget, whose reset empties the long map, lifts that. *)
LoaderPhase == ~encoded \/ budget # Unbounded

Next ==
    \/ \E p \in Pretokens : Hit(p) \/ MissShort(p) \/ MissLong(p)
    \/ \E total \in Budgets : SetMaxCacheBytes(total)
    \/ LoaderPhase /\ \E flag \in BOOLEAN : SetIgnoreMerges(flag)
    \/ \E ps \in SUBSET Addable : SetAddedTokens(ps)
    \/ \E p \in Addable, free \in BOOLEAN : AddSpecialToken(p, free)
    \/ \E hint \in {MinSlots, 4 * MinSlots} : Fork(hint)

Spec == Init /\ [][Next]_vars
-----------------------------------------------------------------------------
TypeOK ==
    /\ cfg.added \subseteq Addable /\ {v[1] : v \in cfg.vocab} \subseteq Pretokens
    /\ DOMAIN cache.short \subseteq Short /\ DOMAIN cache.long \subseteq Long
    /\ Cardinality(DOMAIN cache.short) * 4 <= cache.cap * 3
    /\ budget = Unbounded \/ budget.total \in Budgets
    /\ encoded \in BOOLEAN

(* What p encodes to: the id of the added token it equals, or its seed encoding.
   (An added token of more than 15 bytes never comes here as a pretoken.) *)
Expected(c, p) ==
    IF p \in c.added \cap ShortVocab(c) THEN <<VocabInv(c, p)>> ELSE SeedSymbols(c, p)

(***************************************************************************)
(* "Cache contents never affect encode output": every entry stands for     *)
(* what its pretoken encodes to, and the arena it points into still holds  *)
(* it ("the arena only shrinks in a generation wipe, which also clears     *)
(* every cache entry referencing it").                                     *)
(***************************************************************************)
Coherent ==
    LET ok(p, e) == e.at + e.len <= Len(cache.arena) /\ Value(cache, e) = Expected(cfg, p)
    IN  /\ \A p \in DOMAIN cache.short : ok(p, cache.short[p])
        /\ \A p \in DOMAIN cache.long : ok(p, cache.long[p])

(***************************************************************************)
(* The seed is always there, so that a miss never sees a pretoken whose    *)
(* entry was overwritten, and a wipe never brings a key back that missed.  *)
(***************************************************************************)
SeedPresent == ShortVocab(cfg) \subseteq DOMAIN cache.short

(***************************************************************************)
(* Whatever was cached, wiped, reseeded or forked before: the tokens of a  *)
(* pretoken are those of an empty cache.                                   *)
(***************************************************************************)
EmitsExpected ==
    [][out'.pretoken \in Pretokens /\ out'.tokens = Expected(cfg, out'.pretoken)]_out

(***************************************************************************)
(* The bound holds up to one encoding: the table never passes its ceiling, *)
(* the arena passes its share by the slack and one encoding, the long map  *)
(* by one entry.                                                           *)
(***************************************************************************)
Bounded ==
    budget # Unbounded =>
        /\ cache.cap <= budget.slots
        /\ Len(cache.arena) <= budget.arena + budget.giant + Max({Width[p] : p \in Pretokens})
        /\ budget.used <= budget.long + Max({KeyLen[p] : p \in Long}) + EntryBytes

(***************************************************************************)
(* No "wipe per miss".  "One recurring giant pretoken ... cannot force a   *)
(* wipe per occurrence": what a wipe and the insert after it leave in the  *)
(* arena and the long map does not ask for another.  And a seed grown by a *)
(* mutator cannot be left "with no post-wipe headroom": the table has room *)
(* for the seed and one more entry.                                        *)
(***************************************************************************)
NoThrash ==
    budget # Unbounded =>
        /\ out.wiped => ~SharesSpent
        /\ (Cardinality(ShortVocab(cfg)) + 1) * 4 <= budget.slots * 3
=============================================================================
