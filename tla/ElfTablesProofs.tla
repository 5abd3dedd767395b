-------------------------- MODULE ElfTablesProofs --------------------------
(***************************************************************************)
(* What the accessors of the ELF library guarantee of the tables they      *)
(* write, for all files, names, numbers and bounds that satisfy the        *)
(* assumptions of ElfTables.                                               *)
(***************************************************************************)
EXTENDS ElfSections, SequenceTheorems, WellFoundedInduction, TLAPS

-----------------------------------------------------------------------------
(* Induction.                                                              *)

LEMMA LeastNatural ==
    ASSUME NEW T, T \subseteq Nat, T # {}
    PROVE  \E n \in T : \A m \in T : n <= m
<1>1. \E n \in T : \A m \in T : ~(<<m, n>> \in OpToRel(<, Nat))
  BY NatLessThanWellFounded, WFMin
<1>2. PICK n \in T : \A m \in T : ~(<<m, n>> \in OpToRel(<, Nat))
  BY <1>1
<1>3. \A m \in T : ~(m < n)
  <2> SUFFICES ASSUME NEW m \in T, m < n PROVE FALSE
    OBVIOUS
  <2>1. <<m, n>> \in {ss \in Nat \X Nat : ss[1] < ss[2]}
    OBVIOUS
  <2>2. OpToRel(<, Nat) = {ss \in Nat \X Nat : ss[1] < ss[2]}
    BY DEF OpToRel
  <2>3. <<m, n>> \in OpToRel(<, Nat)
    BY <2>1, <2>2
  <2> QED
    BY <1>2, <2>3
<1>4. \A m \in T : n <= m
  BY <1>3
<1> QED
  BY <1>4

LEMMA UpTo ==
    ASSUME NEW T, 0 \in T, \A n \in Nat : n \in T => n + 1 \in T
    PROVE  \A n \in Nat : n \in T
<1>1. CASE Nat \ T # {}
  <2>1. PICK n \in Nat \ T : \A m \in Nat \ T : n <= m
    BY <1>1, LeastNatural
  <2>2. n # 0 /\ n - 1 \in Nat /\ n - 1 \in T
    BY <2>1
  <2>3. n - 1 + 1 \in T
    BY <2>2
  <2> QED
    BY <2>1, <2>3
<1> QED
  BY <1>1

-----------------------------------------------------------------------------
(* Numbers in fields.                                                      *)

LEMMA Limits ==
    /\ ByteBase \in Nat \ {0, 1}
    /\ Limit(1) = ByteBase
    /\ Limit(2) \in Nat \ {0} /\ Limit(2) = Limit(1) * Limit(1)
    /\ Limit(4) \in Nat \ {0} /\ Limit(4) = Limit(2) * Limit(2)
    /\ Limit(8) \in Nat \ {0} /\ Limit(8) = Limit(4) * Limit(4)
<1>1. ByteBase \in Nat \ {0, 1}
  BY ByteAssumption
<1>2. \A a \in Nat \ {0} : a * a \in Nat \ {0}
  OBVIOUS
<1>3. Limit(1) = ByteBase /\ Limit(2) = ByteBase * ByteBase
  BY DEF Limit
<1>4. Limit(4) = Limit(2) * Limit(2) /\ Limit(8) = Limit(4) * Limit(4)
  BY DEF Limit
<1> QED
  BY <1>1, <1>2, <1>3, <1>4

(* A number of two digits and what it is made of. *)
LEMMA TwoDigits ==
    ASSUME NEW n \in Nat \ {0}, NEW v \in 0..(n * n - 1)
    PROVE  /\ v \div n \in 0..(n - 1) /\ v % n \in 0..(n - 1)
           /\ v = (v \div n) * n + (v % n)
OBVIOUS

LEMMA FromDigits ==
    ASSUME NEW n \in Nat \ {0}, NEW a \in 0..(n - 1), NEW b \in 0..(n - 1)
    PROVE  /\ a * n + b \in 0..(n * n - 1)
           /\ (a * n + b) \div n = a /\ (a * n + b) % n = b
OBVIOUS

LEMMA Involution2 ==
    ASSUME NEW v \in Values(2)
    PROVE  Reversed2(v) \in Values(2) /\ Reversed2(Reversed2(v)) = v
<1> DEFINE n == Limit(1)
<1>1. n \in Nat \ {0} /\ Limit(2) = n * n
  BY Limits
<1>2. v \in 0..(n * n - 1)
  BY <1>1 DEF Values
<1> HIDE DEF n
<1>3. v \div n \in 0..(n - 1) /\ v % n \in 0..(n - 1) /\ v = (v \div n) * n + (v % n)
  BY <1>1, <1>2, TwoDigits
<1>4. \A w : Reversed2(w) = (w % n) * n + (w \div n)
  BY DEF Reversed2, n
<1>5. /\ Reversed2(v) \in 0..(n * n - 1)
      /\ Reversed2(v) \div n = v % n /\ Reversed2(v) % n = v \div n
  <2> DEFINE low == v % n
             high == v \div n
  <2>1. low \in 0..(n - 1) /\ high \in 0..(n - 1)
    BY <1>3
  <2>2. Reversed2(v) = low * n + high
    BY <1>4
  <2> HIDE DEF low, high
  <2>3. /\ low * n + high \in 0..(n * n - 1)
        /\ (low * n + high) \div n = low /\ (low * n + high) % n = high
    BY <1>1, <2>1, FromDigits, Zenon
  <2>4. /\ Reversed2(v) \in 0..(n * n - 1)
        /\ Reversed2(v) \div n = low /\ Reversed2(v) % n = high
    BY <2>2, <2>3, Zenon
  <2> QED
    BY <2>4 DEF low, high
<1>6. Reversed2(Reversed2(v)) = (v \div n) * n + (v % n)
  BY <1>4, <1>5
<1> QED
  BY <1>1, <1>3, <1>5, <1>6 DEF Values

LEMMA Involution4 ==
    ASSUME NEW v \in Values(4)
    PROVE  Reversed4(v) \in Values(4) /\ Reversed4(Reversed4(v)) = v
<1> DEFINE n == Limit(2)
<1>1. n \in Nat \ {0} /\ Limit(4) = n * n
  BY Limits
<1>2. v \in 0..(n * n - 1) /\ Values(2) = 0..(n - 1)
  BY <1>1 DEF Values
<1> HIDE DEF n
<1>3. v \div n \in 0..(n - 1) /\ v % n \in 0..(n - 1) /\ v = (v \div n) * n + (v % n)
  BY <1>1, <1>2, TwoDigits
<1>4. \A w : Reversed4(w) = Reversed2(w % n) * n + Reversed2(w \div n)
  BY DEF Reversed4, n
<1>5. /\ Reversed2(v % n) \in 0..(n - 1) /\ Reversed2(v \div n) \in 0..(n - 1)
      /\ Reversed2(Reversed2(v % n)) = v % n
      /\ Reversed2(Reversed2(v \div n)) = v \div n
  BY <1>2, <1>3, Involution2
<1>6. /\ Reversed4(v) \in 0..(n * n - 1)
      /\ Reversed4(v) \div n = Reversed2(v % n)
      /\ Reversed4(v) % n = Reversed2(v \div n)
  <2> DEFINE low == Reversed2(v % n)
             high == Reversed2(v \div n)
  <2>1. low \in 0..(n - 1) /\ high \in 0..(n - 1)
    BY <1>5
  <2>2. Reversed4(v) = low * n + high
    BY <1>4
  <2> HIDE DEF low, high
  <2>3. /\ low * n + high \in 0..(n * n - 1)
        /\ (low * n + high) \div n = low /\ (low * n + high) % n = high
    BY <1>1, <2>1, FromDigits, Zenon
  <2>4. /\ Reversed4(v) \in 0..(n * n - 1)
        /\ Reversed4(v) \div n = low /\ Reversed4(v) % n = high
    BY <2>2, <2>3, Zenon
  <2> QED
    BY <2>4 DEF low, high
<1>7. Reversed4(Reversed4(v)) = (v \div n) * n + (v % n)
  BY <1>4, <1>5, <1>6
<1> QED
  BY <1>1, <1>3, <1>6, <1>7 DEF Values

LEMMA Involution8 ==
    ASSUME NEW v \in Values(8)
    PROVE  Reversed8(v) \in Values(8) /\ Reversed8(Reversed8(v)) = v
<1> DEFINE n == Limit(4)
<1>1. n \in Nat \ {0} /\ Limit(8) = n * n
  BY Limits
<1>2. v \in 0..(n * n - 1) /\ Values(4) = 0..(n - 1)
  BY <1>1 DEF Values
<1> HIDE DEF n
<1>3. v \div n \in 0..(n - 1) /\ v % n \in 0..(n - 1) /\ v = (v \div n) * n + (v % n)
  BY <1>1, <1>2, TwoDigits
<1>4. \A w : Reversed8(w) = Reversed4(w % n) * n + Reversed4(w \div n)
  BY DEF Reversed8, n
<1>5. /\ Reversed4(v % n) \in 0..(n - 1) /\ Reversed4(v \div n) \in 0..(n - 1)
      /\ Reversed4(Reversed4(v % n)) = v % n
      /\ Reversed4(Reversed4(v \div n)) = v \div n
  BY <1>2, <1>3, Involution4
<1>6. /\ Reversed8(v) \in 0..(n * n - 1)
      /\ Reversed8(v) \div n = Reversed4(v % n)
      /\ Reversed8(v) % n = Reversed4(v \div n)
  <2> DEFINE low == Reversed4(v % n)
             high == Reversed4(v \div n)
  <2>1. low \in 0..(n - 1) /\ high \in 0..(n - 1)
    BY <1>5
  <2>2. Reversed8(v) = low * n + high
    BY <1>4
  <2> HIDE DEF low, high
  <2>3. /\ low * n + high \in 0..(n * n - 1)
        /\ (low * n + high) \div n = low /\ (low * n + high) % n = high
    BY <1>1, <2>1, FromDigits, Zenon
  <2>4. /\ Reversed8(v) \in 0..(n * n - 1)
        /\ Reversed8(v) \div n = low /\ Reversed8(v) % n = high
    BY <2>2, <2>3, Zenon
  <2> QED
    BY <2>4 DEF low, high
<1>7. Reversed8(Reversed8(v)) = (v \div n) * n + (v % n)
  BY <1>4, <1>5, <1>6
<1> QED
  BY <1>1, <1>3, <1>6, <1>7 DEF Values

Widths == {1, 2, 4, 8}

LEMMA Conversion ==
    ASSUME NEW w \in Widths, NEW need \in BOOLEAN, NEW v \in Values(w)
    PROVE  /\ Convert(need, v, w) \in Values(w)
           /\ Convert(need, Convert(need, v, w), w) = v
<1>1. CASE w = 1
  BY <1>1 DEF Convert, Reversed
<1>2. CASE w = 2
  BY <1>2, Involution2 DEF Convert, Reversed
<1>3. CASE w = 4
  BY <1>3, Involution4 DEF Convert, Reversed
<1>4. CASE w = 8
  BY <1>4, Involution8 DEF Convert, Reversed
<1> QED
  BY <1>1, <1>2, <1>3, <1>4 DEF Widths

LEMMA Narrowing ==
    ASSUME NEW w \in Widths, NEW v \in Int
    PROVE  Narrow(v, w) \in Values(w) /\ (v \in Values(w) => Narrow(v, w) = v)
<1>1. Limit(w) \in Nat \ {0}
  BY Limits DEF Widths
<1>2. \A n \in Nat \ {0} : v % n \in 0..(n - 1) /\ (v \in 0..(n - 1) => v % n = v)
  OBVIOUS
<1> QED
  BY <1>1, <1>2 DEF Narrow, Values

-----------------------------------------------------------------------------
(* Sizes of entries.                                                       *)

LEMMA WidthIsSmall ==
    ASSUME NEW type, NEW c \in Classes
    PROVE  /\ Width(type, c) \in Nat \ {0}
           /\ type # "ident" => Width(type, c) \in Widths
           /\ Width("Word", c) = 4 /\ Width("Half", c) = 2
           /\ Width("Addr", c) = c \div 8 /\ Width("Native", c) = c \div 8
           /\ c \div 8 \in {4, 8}
<1>1. c = 32 \/ c = 64
  BY DEF Classes
<1>2. 32 \div 8 = 4 /\ 64 \div 8 = 8
  OBVIOUS
<1> QED
  BY <1>1, <1>2 DEF Width, Widths, EI_NIDENT

LEMMA EntryHasSize ==
    ASSUME NEW struct, Len(struct) \in Nat \ {0}, NEW c \in Classes
    PROVE  SizeOf(struct, c) \in Nat \ {0}
<1> DEFINE N == Len(struct)
           W(k) == Width(struct[k], c)
           Rec(f, n) == f = [k \in 0..n |-> IF k = 0 THEN 0 ELSE f[k - 1] + W(k)]
           F == CHOOSE f : Rec(f, N)
           T == {n \in Nat : \E f : Rec(f, n)}
           U == {n \in Nat : n <= N => F[n] \in Nat /\ n <= F[n]}
<1>1. N \in Nat /\ N # 0 /\ \A k : W(k) \in Nat \ {0}
  BY WidthIsSmall
<1>2. SizeOf(struct, c) = F[N]
  BY DEF SizeOf
<1> HIDE DEF N, W
<1>3. 0 \in T
  <2> DEFINE g == [k \in 0..0 |-> 0]
  <2>1. Rec(g, 0)
    OBVIOUS
  <2> QED
    BY <2>1
<1>4. ASSUME NEW n \in Nat, n \in T PROVE n + 1 \in T
  <2>1. PICK f : Rec(f, n)
    BY <1>4
  <2> DEFINE g == [k \in 0..(n + 1) |-> IF k = n + 1 THEN f[n] + W(n + 1) ELSE f[k]]
  <2>2. Rec(g, n + 1)
    <3> HIDE DEF W
    <3>1. \A k \in 0..n : f[k] = IF k = 0 THEN 0 ELSE f[k - 1] + W(k)
      BY <2>1
    <3>2. \A k \in 0..(n + 1) : g[k] = IF k = 0 THEN 0 ELSE g[k - 1] + W(k)
      BY <3>1
    <3> QED
      BY <3>2
  <2> HIDE DEF g
  <2> QED
    BY <2>2
<1>5. N \in T
  <2> HIDE DEF T
  <2> QED
    BY <1>1, <1>3, <1>4, UpTo
<1>6. Rec(F, N)
  <2>1. \E f : Rec(f, N)
    BY <1>5
  <2> QED
    BY <2>1
<1> HIDE DEF F
<1>7. 0 \in U
  BY <1>1, <1>6
<1>8. ASSUME NEW n \in Nat, n \in U PROVE n + 1 \in U
  <2>1. n + 1 <= N => F[n + 1] = F[n] + W(n + 1)
    BY <1>1, <1>6
  <2> QED
    BY <1>1, <1>8, <2>1
<1>9. N \in U
  <2> HIDE DEF U
  <2> QED
    BY <1>1, <1>7, <1>8, UpTo
<1> QED
  BY <1>1, <1>2, <1>9

LEMMA EntrySizes ==
    ASSUME NEW c \in Classes
    PROVE  /\ SizeOf(Sym, c) \in Nat \ {0} /\ SizeOf(Dyn, c) \in Nat \ {0}
           /\ SizeOf(Rel, c) \in Nat \ {0} /\ SizeOf(Rela, c) \in Nat \ {0}
<1>1. Len(Sym) \in Nat \ {0}
  BY DEF Sym
<1>2. Len(Dyn) \in Nat \ {0}
  BY DEF Dyn
<1>3. Len(Rel) \in Nat \ {0}
  BY DEF Rel
<1>4. Len(Rela) \in Nat \ {0}
  BY DEF Rela
<1> QED
  BY <1>1, <1>2, <1>3, <1>4, EntryHasSize

-----------------------------------------------------------------------------
(* The data of a section.                                                  *)

Section(Items) == [entry_size : Nat, size : Nat, items : Seq(Items)]

Data(s, Items) == s \in Section(Items)

LEMMA Appended ==
    ASSUME NEW Items, NEW s, Data(s, Items), NEW item \in Items, NEW n \in Nat,
           NEW t, t = append_data(s, item, n)
    PROVE  /\ Data(t, Items)
           /\ t.entry_size = s.entry_size /\ t.size = s.size + n
           /\ t.items = Append(s.items, item)
           /\ Len(t.items) = Len(s.items) + 1
           /\ \A k \in 1..Len(s.items) : t.items[k] = s.items[k]
           /\ t.items[Len(s.items) + 1] = item
<1>1. s \in Section(Items)
  BY DEF Data
<1>2. t = [s EXCEPT !.size = @ + n, !.items = Append(@, item)]
  BY DEF append_data
<1>3. s.items \in Seq(Items) /\ s.size \in Nat
  BY <1>1 DEF Section
<1>4. /\ Append(s.items, item) \in Seq(Items)
      /\ Len(Append(s.items, item)) = Len(s.items) + 1
      /\ \A k \in 1..Len(s.items) : Append(s.items, item)[k] = s.items[k]
      /\ Append(s.items, item)[Len(s.items) + 1] = item
  BY <1>3, AppendProperties
<1>5. /\ t.size = s.size + n /\ t.items = Append(s.items, item)
      /\ t.entry_size = s.entry_size
  BY <1>1, <1>2 DEF Section
<1>6. t \in Section(Items)
  <2>1. s.size + n \in Nat
    BY <1>3
  <2> QED
    BY <1>1, <1>2, <1>4, <2>1 DEF Section
<1> QED
  BY <1>4, <1>5, <1>6 DEF Data

(* The section t is the section s with one more item of n bytes.           *)
Longer(t, s, item, n, Items) ==
    /\ Data(t, Items)
    /\ t.entry_size = s.entry_size /\ t.size = s.size + n
    /\ Len(t.items) = Len(s.items) + 1
    /\ \A k \in 1..Len(s.items) : t.items[k] = s.items[k]
    /\ t.items[Len(s.items) + 1] = item

LEMMA AppendedLonger ==
    ASSUME NEW Items, NEW s, Data(s, Items), NEW item \in Items, NEW n \in Nat
    PROVE  Longer(append_data(s, item, n), s, item, n, Items)
BY Appended DEF Longer

LEMMA Fresh ==
    ASSUME NEW Items, NEW n \in Nat, NEW t, t = Empty(n)
    PROVE  /\ Data(t, Items) /\ t.entry_size = n /\ t.size = 0
           /\ t.items = <<>> /\ Len(t.items) = 0
BY DEF Empty, Data, Section

-----------------------------------------------------------------------------
(* Strings.                                                                *)

Texts == Names \cup Strings \cup {NoName}
StrItems == [at : Nat, str : Texts]

Holds(s, at, str) ==
    /\ at \in Nat /\ at < s.size
    /\ \E k \in DOMAIN s.items : s.items[k] = [at |-> at, str |-> str]

StringTable(s) ==
    /\ Data(s, StrItems)
    /\ \A k \in DOMAIN s.items : s.items[k].at < s.size
    /\ \A k, l \in DOMAIN s.items : s.items[k].at = s.items[l].at => k = l
    /\ s.size > 0 => Holds(s, 0, NoName)

LEMMA StringIsRead ==
    ASSUME NEW s, StringTable(s), NEW at, NEW str, Holds(s, at, str)
    PROVE  get_string(s, at) = str
<1> DEFINE there == {e \in {s.items[k] : k \in DOMAIN s.items} : e.at = at}
<1>1. PICK k \in DOMAIN s.items : s.items[k] = [at |-> at, str |-> str]
  BY DEF Holds
<1>2. \A l \in DOMAIN s.items : s.items[l].at = at => l = k
  BY <1>1 DEF StringTable
<1>3. there = {s.items[k]}
  BY <1>1, <1>2
<1>4. at < s.size
  BY DEF Holds
<1>5. get_string(s, at) = (CHOOSE e \in there : TRUE).str
  BY <1>3, <1>4 DEF get_string
<1>6. (CHOOSE e \in there : TRUE) = s.items[k]
  BY <1>3
<1> HIDE DEF there
<1>7. s.items[k].str = str
  BY <1>1
<1> QED
  BY <1>5, <1>6, <1>7

LEMMA StringAppended ==
    ASSUME NEW s, StringTable(s), NEW str \in Texts, NEW n \in Nat \ {0},
           s.size = 0 => str = NoName,
           NEW t, t = append_data(s, [at |-> s.size, str |-> str], n)
    PROVE  /\ StringTable(t) /\ t.size = s.size + n
           /\ Holds(t, s.size, str)
           /\ \A at, old : Holds(s, at, old) => Holds(t, at, old)
<1> DEFINE item == [at |-> s.size, str |-> str]
           L == Len(s.items)
<1>1. Data(s, StrItems) /\ s.size \in Nat /\ s.items \in Seq(StrItems)
  BY DEF StringTable, Data, Section
<1>2. item \in StrItems
  BY <1>1 DEF StrItems
<1>3. /\ Data(t, StrItems) /\ t.size = s.size + n
      /\ Len(t.items) = L + 1
      /\ \A k \in 1..L : t.items[k] = s.items[k]
      /\ t.items[L + 1] = item
  BY <1>1, <1>2, Appended
<1>4. t.items \in Seq(StrItems) /\ DOMAIN t.items = 1..(L + 1)
      /\ DOMAIN s.items = 1..L /\ L \in Nat
  BY <1>1, <1>3, LenProperties DEF Data, Section
<1> HIDE DEF L
<1>5. ASSUME NEW at, NEW old, Holds(s, at, old) PROVE Holds(t, at, old)
  <2>1. PICK k \in 1..L : s.items[k] = [at |-> at, str |-> old]
    BY <1>4, <1>5, Zenon DEF Holds
  <2>2. k \in 1..(L + 1) /\ t.items[k] = [at |-> at, str |-> old]
    BY <1>3, <1>4, <2>1
  <2>3. at \in Nat /\ at < t.size
    BY <1>1, <1>3, <1>5 DEF Holds
  <2> QED
    BY <1>4, <2>2, <2>3, Zenon DEF Holds
<1>6. Holds(t, s.size, str)
  <2>1. s.size \in Nat /\ s.size < t.size
    BY <1>1, <1>3
  <2>2. L + 1 \in 1..(L + 1)
    BY <1>4
  <2> QED
    BY <1>3, <1>4, <2>1, <2>2, Zenon DEF Holds
<1>7. \A k \in 1..L : s.items[k].at < s.size /\ s.items[k].at \in Nat
  <2>1. \A k \in 1..L : s.items[k] \in StrItems
    BY <1>1, <1>4, ElementOfSeq
  <2>2. \A e \in StrItems : e.at \in Nat
    BY DEF StrItems
  <2> QED
    BY <1>4, <2>1, <2>2 DEF StringTable
<1>8. \A k \in DOMAIN t.items : t.items[k].at < t.size
  <2>1. ASSUME NEW k \in 1..L PROVE t.items[k].at < t.size
    <3>1. s.items[k].at < s.size /\ s.items[k].at \in Nat
      BY <1>7
    <3>2. t.items[k].at = s.items[k].at /\ t.size = s.size + n
      BY <1>3
    <3>3. s.size \in Nat /\ n \in Nat
      BY <1>1
    <3> QED
      BY <3>1, <3>2, <3>3
  <2>2. t.items[L + 1].at < t.size
    BY <1>1, <1>3
  <2> QED
    BY <1>4, <2>1, <2>2
<1>9. \A k, l \in DOMAIN t.items : t.items[k].at = t.items[l].at => k = l
  <2>1. \A k, l \in 1..L : s.items[k].at = s.items[l].at => k = l
    BY <1>4 DEF StringTable
  <2>2. ASSUME NEW k \in 1..L PROVE t.items[k].at # t.items[L + 1].at
    <3>1. s.items[k].at < s.size /\ s.items[k].at \in Nat
      BY <1>7
    <3>2. t.items[k].at = s.items[k].at /\ t.items[L + 1].at = s.size
      BY <1>3
    <3> QED
      BY <1>1, <3>1, <3>2
  <2> QED
    BY <1>3, <1>4, <2>1, <2>2
<1>10. Holds(t, 0, NoName)
  BY <1>1, <1>5, <1>6 DEF StringTable
<1> QED
  BY <1>3, <1>5, <1>6, <1>8, <1>9, <1>10 DEF StringTable

LEMMA StringAdded ==
    ASSUME NEW s, StringTable(s), NEW str \in Texts, StringSize(str) \in Nat,
           NEW t, t = add_string(s, str)
    PROVE  /\ StringTable(t) /\ t.entry_size = s.entry_size
           /\ t.size > 0 /\ t.size <= StringPosition(s) + StringSize(str) + 1
           /\ Holds(t, StringPosition(s), str)
           /\ \A at, old : Holds(s, at, old) => Holds(t, at, old)
<1> DEFINE first == [at |-> 0, str |-> NoName]
           u == IF s.size = 0 THEN append_data(s, first, 1) ELSE s
<1>1. s.size \in Nat
  BY DEF StringTable, Data, Section
<1>2. t = append_data(u, [at |-> u.size, str |-> str], StringSize(str) + 1)
  BY DEF add_string
<1>3. StringTable(u) /\ u.size = StringPosition(s) /\ u.size # 0
      /\ \A at, old : Holds(s, at, old) => Holds(u, at, old)
  <2>1. CASE s.size = 0
    <3>1. u = append_data(s, [at |-> s.size, str |-> NoName], 1)
      BY <2>1
    <3>2. NoName \in Texts /\ 1 \in Nat \ {0}
      BY DEF Texts
    <3> HIDE DEF u
    <3> QED
      BY <2>1, <3>1, <3>2, StringAppended DEF StringPosition
  <2>2. CASE s.size # 0
    BY <2>2 DEF StringPosition
  <2> QED
    BY <2>1, <2>2
<1>4. u.entry_size = s.entry_size
  BY DEF append_data
<1>5. t.entry_size = u.entry_size
  BY <1>2 DEF append_data
<1>6. u.size \in Nat
  BY <1>3 DEF StringTable, Data, Section
<1> HIDE DEF u
<1>7. /\ StringTable(t) /\ t.size = u.size + (StringSize(str) + 1)
      /\ Holds(t, u.size, str)
      /\ \A at, old : Holds(u, at, old) => Holds(t, at, old)
  BY <1>2, <1>3, <1>6, StringAppended
<1> QED
  BY <1>3, <1>4, <1>5, <1>6, <1>7
-----------------------------------------------------------------------------
(* What is stored in a field and fetched from it.                          *)

Kept(v, w, need) == Convert(need, Narrow(v, w), w)

Opened == class \in Classes /\ need_conversion \in BOOLEAN

LEMMA KeptIsRead ==
    ASSUME NEW w \in Widths, NEW need \in BOOLEAN, NEW v \in Int
    PROVE  /\ Kept(v, w, need) \in Values(w) /\ Kept(v, w, need) \in Nat
           /\ Convert(need, Kept(v, w, need), w) = Narrow(v, w)
<1>1. Narrow(v, w) \in Values(w)
  BY Narrowing
<1>2. Values(w) \subseteq Nat
  BY DEF Values
<1> QED
  BY <1>1, <1>2, Conversion DEF Kept

LEMMA StoredIsKept ==
    ASSUME Opened, NEW v \in Int
    PROVE  /\ Stored(v, "Word") = Kept(v, 4, need_conversion)
           /\ Stored(v, "Half") = Kept(v, 2, need_conversion)
           /\ Stored(v, "Addr") = Kept(v, class \div 8, need_conversion)
           /\ Stored(v, "Native") = Kept(v, class \div 8, need_conversion)
BY WidthIsSmall DEF Stored, Kept, Opened

LEMMA KeptIsFetched ==
    ASSUME Opened, NEW v \in Int
    PROVE  /\ Fetched(Kept(v, 4, need_conversion), "Word") = Narrow(v, 4)
           /\ Fetched(Kept(v, 2, need_conversion), "Half") = Narrow(v, 2)
           /\ Fetched(Kept(v, class \div 8, need_conversion), "Addr")
                = Narrow(v, class \div 8)
           /\ Fetched(Kept(v, class \div 8, need_conversion), "Native")
                = Narrow(v, class \div 8)
<1>1. class \div 8 \in Widths /\ 4 \in Widths /\ 2 \in Widths
  BY WidthIsSmall DEF Widths, Opened
<1>2. /\ Width("Word", class) = 4 /\ Width("Half", class) = 2
      /\ Width("Addr", class) = class \div 8
      /\ Width("Native", class) = class \div 8
  BY WidthIsSmall DEF Opened
<1> QED
  BY <1>1, <1>2, KeptIsRead DEF Fetched, Opened

LEMMA StoredIsNatural ==
    ASSUME Opened, NEW v \in Int
    PROVE  /\ Stored(v, "Word") \in Nat /\ Stored(v, "Half") \in Nat
           /\ Stored(v, "Addr") \in Nat /\ Stored(v, "Native") \in Nat
<1>1. class \div 8 \in Widths /\ 4 \in Widths /\ 2 \in Widths
  BY WidthIsSmall DEF Widths, Opened
<1> QED
  BY <1>1, StoredIsKept, KeptIsRead DEF Opened

-----------------------------------------------------------------------------
(* Symbols.                                                                *)

SymItems ==
    [st_name : Nat, st_value : Nat, st_size : Nat, st_info : Nat,
     st_other : Nat, st_shndx : Nat]

Requests == [name : Texts, value : Nat, size : Nat, info : Nat]

(* The null symbol, then the symbols that were asked for, in that order.   *)
SymbolTable(strtab, symtab, asked, c, need) ==
    /\ StringTable(strtab) /\ strtab.size > 0
    /\ Data(symtab, SymItems)
    /\ asked \in Seq(Requests) /\ asked # <<>>
    /\ symtab.entry_size = SizeOf(Sym, c)
    /\ symtab.size = (Len(asked) + 1) * SizeOf(Sym, c)
    /\ Len(symtab.items) = Len(asked) + 1
    /\ symtab.items[1].st_name = Kept(0, 4, need)
    /\ \A k \in 1..Len(asked) :
         LET e == symtab.items[k + 1]
         IN  /\ e.st_value = Kept(asked[k].value, c \div 8, need)
             /\ \E at \in Nat : /\ Holds(strtab, at, asked[k].name)
                                /\ e.st_name = Kept(at, 4, need)

NoSymbols(strtab, symtab, asked, c) ==
    /\ strtab = Empty(0) /\ symtab = Empty(SizeOf(Sym, c)) /\ asked = <<>>

IsEntry(e, name, value, c, need) ==
    /\ e \in SymItems
    /\ e.st_name = Kept(name, 4, need)
    /\ e.st_value = Kept(value, c \div 8, need)

LEMMA SymbolEntryHolds ==
    ASSUME Opened, NEW name \in Nat, NEW value \in Nat, NEW size \in Nat,
           NEW info \in Nat, NEW other \in Nat, NEW shndx \in Nat
    PROVE  IsEntry(SymbolEntry(name, value, size, info, other, shndx),
                   name, value, class, need_conversion)
<1> DEFINE e == SymbolEntry(name, value, size, info, other, shndx)
<1>1. /\ Stored(name, "Word") \in Nat /\ Stored(value, "Addr") \in Nat
      /\ Stored(size, "Native") \in Nat /\ Stored(shndx, "Half") \in Nat
  BY StoredIsNatural
<1>2. Narrow(info, 1) \in Nat /\ Narrow(other, 1) \in Nat
  BY Narrowing DEF Widths, Values
<1>3. e \in SymItems
  BY <1>1, <1>2 DEF SymbolEntry, SymItems
<1>4. /\ e.st_name = Stored(name, "Word") /\ e.st_value = Stored(value, "Addr")
  BY DEF SymbolEntry
<1> QED
  BY <1>3, <1>4, StoredIsKept DEF IsEntry

LEMMA SymbolEntered ==
    ASSUME Opened, NEW s, Data(s, SymItems), NEW e \in SymItems,
           NEW t, t = add_symbol(s, e)
    PROVE  /\ Data(t, SymItems) /\ t.entry_size = s.entry_size
           /\ s.size = 0 /\ Len(s.items) = 0 =>
                 /\ t.size = 2 * SizeOf(Sym, class) /\ Len(t.items) = 2
                 /\ t.items[1].st_name = Kept(0, 4, need_conversion)
                 /\ t.items[2] = e
           /\ s.size # 0 =>
                 /\ t.size = s.size + SizeOf(Sym, class)
                 /\ Len(t.items) = Len(s.items) + 1
                 /\ \A k \in 1..Len(s.items) : t.items[k] = s.items[k]
                 /\ t.items[Len(s.items) + 1] = e
<1> DEFINE z == SizeOf(Sym, class)
           null == SymbolEntry(0, 0, 0, 0, 0, 0)
           n == IF s.size = 0 THEN Len(s.items) + 1 ELSE Len(s.items)
           u == IF s.size = 0 THEN append_data(s, null, z) ELSE s
<1>1. z \in Nat \ {0}
  BY EntrySizes DEF Opened
<1>2. null \in SymItems /\ null.st_name = Kept(0, 4, need_conversion)
  BY SymbolEntryHolds DEF IsEntry
<1>3. t = append_data(u, e, z)
  BY DEF add_symbol, generic_add_symbol
<1>4. s.size \in Nat /\ s.items \in Seq(SymItems) /\ Len(s.items) \in Nat
  BY LenProperties DEF Data, Section
<1> HIDE DEF z, null
<1>5. /\ Data(u, SymItems) /\ u.entry_size = s.entry_size
      /\ u.size = IF s.size = 0 THEN z ELSE s.size
      /\ Len(u.items) = n
      /\ \A k \in 1..Len(s.items) : u.items[k] = s.items[k]
      /\ s.size = 0 => u.items[n] = null
  <2>1. CASE s.size = 0
    <3>1. u = append_data(s, null, z) /\ n = Len(s.items) + 1
      BY <2>1
    <3> HIDE DEF u, n
    <3> QED
      BY <1>1, <1>2, <2>1, <3>1, Appended
  <2>2. CASE s.size # 0
    BY <2>2
  <2> QED
    BY <2>1, <2>2
<1> HIDE DEF u
<1>6. /\ Data(t, SymItems) /\ t.entry_size = u.entry_size
      /\ t.size = u.size + z
      /\ Len(t.items) = n + 1
      /\ \A k \in 1..n : t.items[k] = u.items[k]
      /\ t.items[n + 1] = e
  <2>1. Data(u, SymItems) /\ z \in Nat /\ Len(u.items) = n
    BY <1>1, <1>5
  <2> HIDE DEF n
  <2>2. /\ Data(t, SymItems) /\ t.entry_size = u.entry_size
        /\ t.size = u.size + z
        /\ Len(t.items) = Len(u.items) + 1
        /\ \A k \in 1..Len(u.items) : t.items[k] = u.items[k]
        /\ t.items[Len(u.items) + 1] = e
    BY <1>3, <2>1, Appended
  <2> QED
    BY <2>1, <2>2, Zenon
<1>7. n \in Nat /\ Len(s.items) <= n /\ (s.size = 0 => n \in 1..n)
  BY <1>4
<1> HIDE DEF n
<1>8. /\ \A k \in 1..Len(s.items) : t.items[k] = s.items[k]
      /\ s.size = 0 => t.items[n] = null
  BY <1>4, <1>5, <1>6, <1>7
<1>9. s.size = 0 => z + z = t.size /\ n = Len(s.items) + 1
  BY <1>5, <1>6 DEF n
<1>10. s.size # 0 => s.size + z = t.size /\ n = Len(s.items)
  BY <1>5, <1>6 DEF n
<1>11. z + z = 2 * z
  BY <1>1
<1> QED
  BY <1>2, <1>5, <1>6, <1>8, <1>9, <1>10, <1>11 DEF z

(* The symbol is in t, and everything that was in s still is.              *)
WithOneMore(t, now, s, asked, str, value, size, info) ==
    /\ SymbolTable(t.strtab, t.symtab, now, class, need_conversion)
    /\ Len(now) = Len(asked) + 1
    /\ \A k \in 1..Len(asked) : now[k] = asked[k]
    /\ now[Len(asked) + 1] = Asked(str, value, size, info)
    /\ t.strtab.entry_size = s.strtab.entry_size
    /\ t.strtab.size <= StringPosition(s.strtab) + StringSize(str) + 1
    /\ \A at, old : Holds(s.strtab, at, old) => Holds(t.strtab, at, old)
    /\ DOMAIN t = DOMAIN s
    /\ \A name \in DOMAIN s \ {"strtab", "symtab"} : t[name] = s[name]

(* The table of s holds what was asked for, or nothing yet.                *)
Symbols(s, asked) ==
    \/ NoSymbols(s.strtab, s.symtab, asked, class)
    \/ SymbolTable(s.strtab, s.symtab, asked, class, need_conversion)

LEMMA SymbolAdded ==
    ASSUME Opened, NEW s, {"strtab", "symtab"} \subseteq DOMAIN s, NEW asked,
           Symbols(s, asked), NEW str \in Names \cup Strings,
           NEW value \in Nat, NEW size \in Nat, NEW info \in Nat,
           NEW t, t = WithSymbol(s, str, value, size, info),
           NEW now, now = Append(asked, Asked(str, value, size, info))
    PROVE  WithOneMore(t, now, s, asked, str, value, size, info)
<1> DEFINE at == StringPosition(s.strtab)
           e == SymbolEntry(at, value, size, info, 0, SHN)
           z == SizeOf(Sym, class)
           L == Len(asked)
<1>1. /\ t.strtab = add_string(s.strtab, str)
      /\ t.symtab = add_symbol(s.symtab, e)
      /\ DOMAIN t = DOMAIN s
      /\ \A name \in DOMAIN s \ {"strtab", "symtab"} : t[name] = s[name]
  BY DEF WithSymbol
<1>2. z \in Nat \ {0}
  BY EntrySizes DEF Opened
<1>3. /\ StringTable(s.strtab) /\ Data(s.symtab, SymItems)
      /\ asked \in Seq(Requests) /\ s.symtab.entry_size = z
      /\ s.symtab.size = IF L = 0 THEN 0 ELSE (L + 1) * z
      /\ Len(s.symtab.items) = IF L = 0 THEN 0 ELSE L + 1
  <2>1. CASE NoSymbols(s.strtab, s.symtab, asked, class)
    <3>1. s.strtab = Empty(0) /\ s.symtab = Empty(z) /\ asked = <<>>
      BY <2>1 DEF NoSymbols
    <3>2. /\ Data(s.strtab, StrItems) /\ s.strtab.size = 0
          /\ s.strtab.items = <<>>
      BY <3>1, Fresh
    <3>3. StringTable(s.strtab)
      BY <3>2 DEF StringTable
    <3> HIDE DEF z
    <3>4. /\ Data(s.symtab, SymItems) /\ s.symtab.entry_size = z
          /\ s.symtab.size = 0 /\ Len(s.symtab.items) = 0
      BY <1>2, <3>1, Fresh
    <3>5. L = 0 /\ asked \in Seq(Requests)
      BY <3>1
    <3> QED
      BY <3>3, <3>4, <3>5
  <2>2. CASE SymbolTable(s.strtab, s.symtab, asked, class, need_conversion)
    <3>1. L # 0
      BY <2>2 DEF SymbolTable
    <3> QED
      BY <2>2, <3>1 DEF SymbolTable
  <2> QED
    BY <2>1, <2>2 DEF Symbols
<1>4. at \in Nat
  BY <1>3 DEF StringPosition, StringTable, Data, Section
<1>5. /\ e \in SymItems /\ e.st_name = Kept(at, 4, need_conversion)
      /\ e.st_value = Kept(value, class \div 8, need_conversion)
  <2>1. SHN \in Nat
    BY DEF SHN
  <2>2. 0 \in Nat
    OBVIOUS
  <2>3. IsEntry(e, at, value, class, need_conversion)
    <3> HIDE DEF at
    <3> QED
      BY <1>4, <2>1, <2>2, SymbolEntryHolds, Zenon
  <2> QED
    BY <2>3 DEF IsEntry
<1>6. /\ StringTable(t.strtab) /\ t.strtab.size > 0
      /\ t.strtab.entry_size = s.strtab.entry_size
      /\ t.strtab.size <= at + StringSize(str) + 1
      /\ Holds(t.strtab, at, str)
      /\ \A p, old : Holds(s.strtab, p, old) => Holds(t.strtab, p, old)
  <2>1. str \in Texts /\ StringSize(str) \in Nat
    BY StringsAssumption DEF Texts
  <2> QED
    BY <1>1, <1>3, <2>1, StringAdded
<1>7. /\ now \in Seq(Requests) /\ Len(now) = L + 1 /\ L \in Nat
      /\ \A k \in 1..L : now[k] = asked[k]
      /\ now[L + 1] = Asked(str, value, size, info)
  <2>1. Asked(str, value, size, info) \in Requests
    BY DEF Asked, Requests, Texts
  <2> QED
    BY <1>3, <2>1, AppendProperties, LenProperties
<1> HIDE DEF at, e, z, L
<1>8. (L + 1) * z # 0 /\ (L + 1) * z + z = (L + 2) * z /\ z + z = 2 * z
      /\ (L + 1) * z \in Nat
  <2>1. \A l \in Nat, y \in Nat \ {0} :
          /\ (l + 1) * y # 0 /\ (l + 1) * y + y = (l + 2) * y /\ y + y = 2 * y
          /\ (l + 1) * y \in Nat
    OBVIOUS
  <2> QED
    BY <1>2, <1>7, <2>1
<1>9. /\ Data(t.symtab, SymItems) /\ t.symtab.entry_size = z
      /\ t.symtab.size = (L + 2) * z
      /\ Len(t.symtab.items) = L + 2
      /\ L # 0 => \A k \in 1..(L + 1) :
                      t.symtab.items[k] = s.symtab.items[k]
      /\ L = 0 => t.symtab.items[1].st_name = Kept(0, 4, need_conversion)
      /\ t.symtab.items[L + 2] = e
  <2>1. CASE L = 0
    BY <1>1, <1>3, <1>5, <1>8, <2>1, SymbolEntered DEF z
  <2>2. CASE L # 0
    <3>1. s.symtab.size # 0
      BY <1>3, <1>8, <2>2
    <3> QED
      <4>1. /\ Data(t.symtab, SymItems)
            /\ t.symtab.entry_size = s.symtab.entry_size
            /\ t.symtab.size = s.symtab.size + z
            /\ Len(t.symtab.items) = Len(s.symtab.items) + 1
            /\ \A k \in 1..Len(s.symtab.items) :
                  t.symtab.items[k] = s.symtab.items[k]
            /\ t.symtab.items[Len(s.symtab.items) + 1] = e
        <5>1. /\ Data(s.symtab, SymItems) /\ e \in SymItems
              /\ t.symtab = add_symbol(s.symtab, e)
          BY <1>1, <1>3, <1>5
        <5> QED
          BY <3>1, <5>1, SymbolEntered DEF z
      <4> QED
        BY <1>3, <1>7, <1>8, <2>2, <4>1
  <2> QED
    BY <2>1, <2>2
<1>10. t.symtab.items[1].st_name = Kept(0, 4, need_conversion)
  <2>1. CASE L = 0
    BY <1>9, <2>1
  <2>2. CASE L # 0
    <3>1. SymbolTable(s.strtab, s.symtab, asked, class, need_conversion)
      BY <2>2 DEF Symbols, NoSymbols, L
    <3> QED
      <4>1. s.symtab.items[1].st_name = Kept(0, 4, need_conversion)
        BY <3>1 DEF SymbolTable
      <4>2. 1 \in 1..(L + 1)
        BY <1>7
      <4> QED
        BY <1>9, <2>2, <4>1, <4>2
  <2> QED
    BY <2>1, <2>2
<1>11. \A k \in 1..(L + 1) :
          LET x == t.symtab.items[k + 1]
          IN  /\ x.st_value = Kept(now[k].value, class \div 8, need_conversion)
              /\ \E p \in Nat : /\ Holds(t.strtab, p, now[k].name)
                                /\ x.st_name = Kept(p, 4, need_conversion)
  <2>1. ASSUME NEW k \in 1..L
        PROVE  /\ t.symtab.items[k + 1].st_value
                    = Kept(now[k].value, class \div 8, need_conversion)
               /\ \E p \in Nat : /\ Holds(t.strtab, p, now[k].name)
                                 /\ t.symtab.items[k + 1].st_name
                                      = Kept(p, 4, need_conversion)
    <3>1. SymbolTable(s.strtab, s.symtab, asked, class, need_conversion)
      BY <1>7 DEF Symbols, NoSymbols, L
    <3>2. t.symtab.items[k + 1] = s.symtab.items[k + 1] /\ now[k] = asked[k]
      <4>1. L # 0 /\ k + 1 \in 1..(L + 1)
        BY <1>7
      <4> QED
        BY <1>7, <1>9, <4>1
    <3>3. /\ s.symtab.items[k + 1].st_value
               = Kept(asked[k].value, class \div 8, need_conversion)
          /\ \E p \in Nat : /\ Holds(s.strtab, p, asked[k].name)
                            /\ s.symtab.items[k + 1].st_name
                                 = Kept(p, 4, need_conversion)
      BY <3>1 DEF SymbolTable, L
    <3> QED
      BY <1>6, <3>2, <3>3
  <2>2. /\ t.symtab.items[L + 2].st_value
             = Kept(now[L + 1].value, class \div 8, need_conversion)
        /\ \E p \in Nat : /\ Holds(t.strtab, p, now[L + 1].name)
                          /\ t.symtab.items[L + 2].st_name
                               = Kept(p, 4, need_conversion)
    <3>1. now[L + 1].value = value /\ now[L + 1].name = str
      BY <1>7 DEF Asked
    <3> QED
      BY <1>4, <1>5, <1>6, <1>9, <3>1
  <2>3. \A k \in 1..(L + 1) : k \in 1..L \/ (k = L + 1 /\ k + 1 = L + 2)
    BY <1>7
  <2> QED
    BY <2>1, <2>2, <2>3
<1>12. now # <<>>
  BY <1>7
<1>13. Len(t.symtab.items) = Len(now) + 1
       /\ t.symtab.size = (Len(now) + 1) * z
  BY <1>7, <1>9
<1>14. SymbolTable(t.strtab, t.symtab, now, class, need_conversion)
  BY <1>6, <1>7, <1>9, <1>10, <1>11, <1>12, <1>13 DEF SymbolTable, z
<1> QED
  BY <1>1, <1>6, <1>7, <1>14 DEF at, L, WithOneMore
LEMMA SymbolRead ==
    ASSUME Opened, NEW asked,
           SymbolTable(sec.strtab, sec.symtab, asked, class, need_conversion),
           sec.strtab.size <= Limit(4), NEW k \in 1..Len(asked)
    PROVE  /\ get_symbol(k).name = asked[k].name
           /\ get_symbol(k).value = Narrow(asked[k].value, class \div 8)
<1> DEFINE e == sec.symtab.items[k + 1]
<1>1. /\ StringTable(sec.strtab) /\ asked \in Seq(Requests)
      /\ e.st_value = Kept(asked[k].value, class \div 8, need_conversion)
  BY DEF SymbolTable
<1>2. PICK at \in Nat : /\ Holds(sec.strtab, at, asked[k].name)
                        /\ e.st_name = Kept(at, 4, need_conversion)
  BY DEF SymbolTable
<1>3. sec.strtab.size \in Nat
  BY <1>1 DEF StringTable, Data, Section
<1>4. at \in Values(4)
  <2>1. at < sec.strtab.size
    BY <1>2 DEF Holds
  <2>2. Limit(4) \in Nat
    BY Limits
  <2> QED
    BY <1>3, <2>1, <2>2 DEF Values
<1>5. asked[k].value \in Int /\ at \in Int
  <2>1. asked[k] \in Requests
    BY <1>1, ElementOfSeq
  <2> QED
    BY <2>1 DEF Requests
<1>6. Fetched(e.st_name, "Word") = at
  <2>1. Narrow(at, 4) = at
    BY <1>4, <1>5, Narrowing DEF Widths
  <2> QED
    BY <1>2, <1>5, <2>1, KeptIsFetched
<1>7. Fetched(e.st_value, "Addr") = Narrow(asked[k].value, class \div 8)
  BY <1>1, <1>5, KeptIsFetched
<1>8. get_string(sec.strtab, at) = asked[k].name
  BY <1>1, <1>2, StringIsRead
<1>9. get_symbol(k) = generic_get_symbol(e)
  BY DEF get_symbol
<1> HIDE DEF e
<1> QED
  BY <1>6, <1>7, <1>8, <1>9 DEF generic_get_symbol

LEMMA NullRead ==
    ASSUME Opened, NEW asked,
           SymbolTable(sec.strtab, sec.symtab, asked, class, need_conversion)
    PROVE  get_symbol(0).name = NoName
<1> DEFINE e == sec.symtab.items[1]
<1>1. /\ StringTable(sec.strtab) /\ sec.strtab.size > 0
      /\ e.st_name = Kept(0, 4, need_conversion)
  BY DEF SymbolTable
<1>2. 0 \in Values(4)
  BY Limits DEF Values
<1>3. Fetched(e.st_name, "Word") = 0
  BY <1>1, <1>2, KeptIsFetched, Narrowing DEF Widths
<1>4. Holds(sec.strtab, 0, NoName)
  BY <1>1 DEF StringTable
<1>5. get_string(sec.strtab, 0) = NoName
  BY <1>1, <1>4, StringIsRead
<1>6. get_symbol(0) = generic_get_symbol(e)
  BY DEF get_symbol
<1> HIDE DEF e
<1> QED
  BY <1>3, <1>5, <1>6 DEF generic_get_symbol

-----------------------------------------------------------------------------
(* Relocations.                                                            *)

RelItems == [r_offset : Nat, r_info : Nat]
RelaItems == [r_offset : Nat, r_info : Nat, r_addend : Nat]
Wanted == [symbol : Nat, offset : Nat, type : Nat, addend : Int]

(* What relocation r is to n symbols, and where it is stored.              *)
Stores(e, r, n, c, need) ==
    /\ r.symbol \in 1..n /\ r.type \in Values(1)
    /\ e.r_offset = Kept(r.offset, c \div 8, need)
    /\ e.r_info = Kept(ELF_R_INFO(r.symbol, r.type, c), c \div 8, need)

RelTable(s, asked, n, c, need) ==
    /\ Data(s, RelItems) /\ asked \in Seq(Wanted)
    /\ s.entry_size = SizeOf(Rel, c) /\ s.size = Len(asked) * SizeOf(Rel, c)
    /\ Len(s.items) = Len(asked)
    /\ \A k \in 1..Len(asked) :
         Stores(s.items[k], asked[k], n, c, need) /\ asked[k].addend = 0

RelaTable(s, asked, n, c, need) ==
    /\ Data(s, RelaItems) /\ asked \in Seq(Wanted)
    /\ s.entry_size = SizeOf(Rela, c) /\ s.size = Len(asked) * SizeOf(Rela, c)
    /\ Len(s.items) = Len(asked)
    /\ \A k \in 1..Len(asked) :
         /\ Stores(s.items[k], asked[k], n, c, need)
         /\ s.items[k].r_addend = Kept(asked[k].addend, c \div 8, need)

(* The index of n symbols fits into r_info.                                *)
Indexed(n, c) == n \in Nat /\ (n + 1) * TypeBase(c) <= Limit(c \div 8)

LEMMA TypeBases ==
    ASSUME NEW c \in Classes
    PROVE  /\ TypeBase(c) \in Nat \ {0} /\ Limit(1) <= TypeBase(c)
           /\ Limit(c \div 8) \in Nat \ {0}
<1>1. c = 32 \/ c = 64
  BY DEF Classes
<1>2. 32 \div 8 = 4 /\ 64 \div 8 = 8
  OBVIOUS
<1>3. Limit(1) \in Nat \ {0, 1}
  BY Limits
<1>4. \A n \in Nat \ {0} : n <= n * n
  OBVIOUS
<1>5. Limit(1) <= Limit(2) /\ Limit(2) <= Limit(4)
  BY Limits, <1>4
<1> QED
  BY <1>1, <1>2, <1>3, <1>5, Limits DEF TypeBase

LEMMA InfoParts ==
    ASSUME NEW c \in Classes, NEW n, Indexed(n, c),
           NEW s \in 1..n, NEW t \in Values(1)
    PROVE  /\ ELF_R_INFO(s, t, c) \in Values(c \div 8)
           /\ ELF_R_SYM(ELF_R_INFO(s, t, c), c) = s
           /\ ELF_R_TYPE(ELF_R_INFO(s, t, c), c) = t
<1> DEFINE b == TypeBase(c)
           m == Limit(c \div 8)
<1>1. b \in Nat \ {0} /\ Limit(1) <= b /\ m \in Nat \ {0}
  BY TypeBases
<1>2. n \in Nat /\ (n + 1) * b <= m
  BY DEF Indexed
<1>3. t \in 0..(b - 1)
  BY <1>1, Limits DEF Values
<1>4. ELF_R_INFO(s, t, c) = (s * b + (t % b)) % m
  BY DEF ELF_R_INFO, Narrow
<1>5. \A v : ELF_R_SYM(v, c) = v \div b /\ ELF_R_TYPE(v, c) = v % b
  BY DEF ELF_R_SYM, ELF_R_TYPE
<1>6. Values(c \div 8) = 0..(m - 1)
  BY DEF Values
<1> HIDE DEF b, m
<1>7. t % b = t
  BY <1>1, <1>3
<1>8. s * b + t \in 0..(m - 1)
  <2>1. s * b <= n * b /\ (n + 1) * b = n * b + b /\ s * b \in Nat
    BY <1>1, <1>2
  <2> QED
    BY <1>1, <1>2, <1>3, <2>1
<1>9. ELF_R_INFO(s, t, c) = s * b + t
  BY <1>1, <1>4, <1>7, <1>8
<1>10. (s * b + t) \div b = s /\ (s * b + t) % b = t
  <2>1. \A a \in Nat, d \in 0..(b - 1) :
          (a * b + d) \div b = a /\ (a * b + d) % b = d
    BY <1>1
  <2> QED
    BY <1>2, <1>3, <2>1
<1> QED
  BY <1>5, <1>6, <1>8, <1>9, <1>10

(* A relocation leads to its symbol again.                                 *)
LEMMA RelocationRead ==
    ASSUME Opened, NEW n, Indexed(n, class), NEW r \in Wanted,
           NEW e, Stores(e, r, n, class, need_conversion)
    PROVE  LET x == generic_get_entry(e)
           IN  /\ x.symbol = r.symbol /\ x.type = r.type
               /\ x.offset = Narrow(r.offset, class \div 8)
               /\ "r_addend" \notin DOMAIN e => x.addend = 0
               /\ "r_addend" \in DOMAIN e
                    /\ e.r_addend = Kept(r.addend, class \div 8, need_conversion)
                    => x.addend = FitsAddend(r.addend)
<1> DEFINE info == ELF_R_INFO(r.symbol, r.type, class)
           w == class \div 8
<1>1. r.offset \in Int /\ r.addend \in Int
  BY DEF Wanted
<1>2. /\ info \in Values(w) /\ ELF_R_SYM(info, class) = r.symbol
      /\ ELF_R_TYPE(info, class) = r.type
  BY InfoParts DEF Stores, Opened
<1>3. info \in Int /\ w \in Widths
  BY <1>2, WidthIsSmall DEF Values, Widths, Opened
<1>4. Fetched(e.r_info, "Native") = info
  <2>1. Narrow(info, w) = info
    BY <1>2, <1>3, Narrowing
  <2>2. e.r_info = Kept(info, w, need_conversion)
    BY DEF Stores
  <2> HIDE DEF info
  <2> QED
    BY <1>3, <2>1, <2>2, KeptIsFetched
<1>5. Fetched(e.r_offset, "Addr") = Narrow(r.offset, w)
  BY <1>1, KeptIsFetched DEF Stores
<1>6. e.r_addend = Kept(r.addend, w, need_conversion) =>
        Signed(Fetched(e.r_addend, "Native"), Width("Native", class))
          = FitsAddend(r.addend)
  <2>1. Width("Native", class) = w
    BY WidthIsSmall DEF Opened
  <2> QED
    BY <1>1, <2>1, KeptIsFetched DEF FitsAddend
<1> HIDE DEF info, w
<1> QED
  BY <1>2, <1>4, <1>5, <1>6 DEF generic_get_entry, w
-----------------------------------------------------------------------------
(* Dynamic entries.                                                        *)

DynItems == [d_tag : Nat, d_un : Nat]
DynRequests == [tag : Values(4), value : Values(8), str : Texts]

Trimmed(v, c, need) == Narrow(Convert(need, Narrow(v, 8), 8), c \div 8)
Swapped(c, need) == c = 32 /\ need
Valued(tag, v) == IF tag \in ValuelessTags THEN 0 ELSE v

(* What is read of an entry that was asked for as r.                       *)
ReadAs(r, c, need) ==
    IF Swapped(c, need) THEN [tag |-> DT_NULL, value |-> 0, str |-> NoName]
    ELSE [tag |-> r.tag, value |-> Valued(r.tag, Narrow(r.value, c \div 8)),
          str |-> r.str]

DynTable(s, strings, asked, c, need) ==
    /\ Data(s, DynItems) /\ StringTable(strings) /\ asked \in Seq(DynRequests)
    /\ s.entry_size = SizeOf(Dyn, c) /\ s.size = Len(asked) * SizeOf(Dyn, c)
    /\ Len(s.items) = Len(asked)
    /\ \A k \in 1..Len(asked) :
         LET e == s.items[k]
             r == asked[k]
         IN  /\ e.d_tag = Trimmed(r.tag, c, need)
             /\ e.d_un = Trimmed(Valued(r.tag, r.value), c, need)
             /\ IF r.tag \in StringTags
                THEN Holds(strings, r.value, r.str) /\ r.str \in Strings
                ELSE r.str = NoName

(* The first entries as they were read and added again.                    *)
CopyTable(s, strings, asked, c, need) ==
    /\ Data(s, DynItems) /\ StringTable(strings)
    /\ s.entry_size = SizeOf(Dyn, c)
    /\ s.size = Len(s.items) * SizeOf(Dyn, c)
    /\ Len(s.items) <= Len(asked)
    /\ \A k \in 1..Len(s.items) :
         LET e == s.items[k]
             r == ReadAs(asked[k], c, need)
         IN  /\ e.d_tag = Trimmed(r.tag, c, need)
             /\ IF r.tag \in StringTags
                THEN \E at \in Nat : /\ Holds(strings, at, r.str)
                                     /\ e.d_un = Trimmed(at, c, need)
                ELSE e.d_un = Trimmed(r.value, c, need)

LEMMA ValuesGrow ==
    ASSUME NEW c \in Classes
    PROVE  /\ Values(1) \subseteq Values(4) /\ Values(4) \subseteq Values(8)
           /\ Values(4) \subseteq Values(c \div 8)
           /\ Values(c \div 8) \subseteq Values(8)
           /\ Values(8) \subseteq Nat /\ 0 \in Values(4)
<1>1. c = 32 \/ c = 64
  BY DEF Classes
<1>2. 32 \div 8 = 4 /\ 64 \div 8 = 8
  OBVIOUS
<1>3. Limit(1) \in Nat \ {0, 1}
  BY Limits
<1>4. \A n \in Nat \ {0} : n <= n * n
  OBVIOUS
<1>5. Limit(1) <= Limit(2) /\ Limit(2) <= Limit(4) /\ Limit(4) <= Limit(8)
  BY Limits, <1>4
<1> QED
  BY <1>1, <1>2, <1>3, <1>5, Limits DEF Values

LEMMA TrimmedIsNatural ==
    ASSUME NEW c \in Classes, NEW need \in BOOLEAN, NEW v \in Values(8)
    PROVE  Trimmed(v, c, need) \in Nat
<1>1. c \div 8 \in Widths /\ 8 \in Widths
  BY WidthIsSmall DEF Widths
<1>2. v \in Int /\ Narrow(v, 8) \in Values(8)
  BY <1>1, Narrowing DEF Values
<1>3. Convert(need, Narrow(v, 8), 8) \in Values(8)
  BY <1>1, <1>2, Conversion
<1>4. Convert(need, Narrow(v, 8), 8) \in Int
  BY <1>3 DEF Values
<1>5. Trimmed(v, c, need) \in Values(c \div 8)
  BY <1>1, <1>4, Narrowing DEF Trimmed
<1> QED
  BY <1>5, ValuesGrow

(* Unless the entry is cut in the wrong place it is read as it was.        *)
LEMMA TrimmedIsRead ==
    ASSUME NEW c \in Classes, NEW need \in BOOLEAN, ~Swapped(c, need),
           NEW v \in Values(8)
    PROVE  Convert(need, Trimmed(v, c, need), c \div 8) = Narrow(v, c \div 8)
<1>1. Narrow(v, 8) = v
  BY Narrowing, ValuesGrow DEF Widths, Values
<1>2. CASE need
  <2>1. c \div 8 = 8
    BY <1>2 DEF Swapped, Classes
  <2>2. /\ Convert(need, v, 8) \in Values(8)
        /\ Convert(need, Convert(need, v, 8), 8) = v
    BY Conversion DEF Widths
  <2>3. Convert(need, v, 8) \in Int
    BY <2>2 DEF Values
  <2>4. Narrow(Convert(need, v, 8), 8) = Convert(need, v, 8)
    BY <2>2, <2>3, Narrowing DEF Widths
  <2> QED
    BY <1>1, <2>1, <2>2, <2>4 DEF Trimmed
<1>3. CASE ~need
  BY <1>1, <1>3 DEF Trimmed, Convert
<1> QED
  BY <1>2, <1>3

(* A 32-bit file of the other byte order keeps nothing of a short number.  *)
LEMMA TrimmedIsLost ==
    ASSUME NEW c \in Classes, NEW need \in BOOLEAN, Swapped(c, need),
           NEW v \in Values(4)
    PROVE  /\ Trimmed(v, c, need) = 0
           /\ Convert(need, Trimmed(v, c, need), c \div 8) = 0
<1> DEFINE n == Limit(4)
<1>1. n \in Nat \ {0} /\ v \in 0..(n - 1) /\ c \div 8 = 4 /\ need = TRUE
  BY Limits DEF Swapped, Values
<1>2. Narrow(v, 8) = v
  BY Narrowing, ValuesGrow DEF Widths, Values
<1>3. Reversed2(0) = 0
  <2>1. \A m \in Nat \ {0} : (0 % m) * m + (0 \div m) = 0
    OBVIOUS
  <2> QED
    BY <2>1, Limits DEF Reversed2
<1>4. Reversed4(0) = 0
  <2>1. \A m \in Nat \ {0} : 0 % m = 0 /\ 0 \div m = 0 /\ 0 * m + 0 = 0
    OBVIOUS
  <2> QED
    BY <1>3, <2>1, Limits DEF Reversed4
<1>5. Reversed4(v) \in Nat
  BY Involution4 DEF Values
<1>6. Convert(need, v, 8) = Reversed4(v % n) * n + Reversed4(v \div n)
  BY <1>1 DEF Convert, Reversed, Reversed8
<1>7. Trimmed(v, c, need) = Convert(need, v, 8) % n
  BY <1>1, <1>2 DEF Trimmed, Narrow
<1>8. Convert(need, 0, c \div 8) = 0
  BY <1>1, <1>4 DEF Convert, Reversed
<1> HIDE DEF n
<1>9. v % n = v /\ v \div n = 0
  BY <1>1
<1>10. \A a \in Nat : (a * n + 0) % n = 0
  BY <1>1
<1>11. Convert(need, v, 8) % n = 0
  BY <1>4, <1>5, <1>6, <1>9, <1>10
<1> QED
  BY <1>7, <1>8, <1>11

LEMMA EntryIsRead ==
    ASSUME Opened, NEW tag \in Values(4), NEW v \in Values(8),
           NEW e, e.d_tag = Trimmed(tag, class, need_conversion),
           tag \notin ValuelessTags =>
                e.d_un = Trimmed(v, class, need_conversion)
    PROVE  LET x == generic_get_entry_dyn(e)
           IN  /\ Swapped(class, need_conversion) => x.tag = DT_NULL /\ x.value = 0
               /\ ~Swapped(class, need_conversion) =>
                     x.tag = tag /\ x.value = Valued(tag, Narrow(v, class \div 8))
<1>1. /\ \A x : Fetched(x, "Native") = Convert(need_conversion, x, class \div 8)
      /\ class \in Classes /\ need_conversion \in BOOLEAN
  BY WidthIsSmall DEF Fetched, Opened
<1>2. tag \in Values(8) /\ tag \in Values(class \div 8) /\ tag \in Int
  BY <1>1, ValuesGrow DEF Values
<1>3. Narrow(tag, class \div 8) = tag
  BY <1>1, <1>2, WidthIsSmall, Narrowing DEF Widths
<1>4. CASE Swapped(class, need_conversion)
  <2>1. Fetched(e.d_tag, "Native") = 0
    BY <1>1, <1>4, TrimmedIsLost
  <2> QED
    BY <1>4, <2>1 DEF generic_get_entry_dyn, DT_NULL, ValuelessTags
<1>5. CASE ~Swapped(class, need_conversion)
  <2>1. Fetched(e.d_tag, "Native") = tag
    BY <1>1, <1>2, <1>3, <1>5, TrimmedIsRead
  <2>2. tag \notin ValuelessTags =>
            Fetched(e.d_un, "Native") = Narrow(v, class \div 8)
    BY <1>1, <1>5, TrimmedIsRead
  <2> QED
    BY <1>5, <2>1, <2>2 DEF generic_get_entry_dyn, Valued
<1> QED
  BY <1>4, <1>5

LEMMA DynamicRead ==
    ASSUME Opened, NEW s, NEW strings, NEW asked,
           DynTable(s, strings, asked, class, need_conversion),
           strings.size <= Limit(4), NEW k \in 1..Len(asked)
    PROVE  get_dynamic(s, strings, k - 1)
             = ReadAs(asked[k], class, need_conversion)
<1> DEFINE e == s.items[k]
           r == asked[k]
           x == generic_get_entry_dyn(e)
<1>1. /\ StringTable(strings) /\ asked \in Seq(DynRequests)
      /\ e.d_tag = Trimmed(r.tag, class, need_conversion)
      /\ e.d_un = Trimmed(Valued(r.tag, r.value), class, need_conversion)
      /\ r.tag \in StringTags => Holds(strings, r.value, r.str)
      /\ r.tag \notin StringTags => r.str = NoName
  BY DEF DynTable
<1>2. r.tag \in Values(4) /\ r.value \in Values(8)
  <2>1. r \in DynRequests
    BY <1>1, ElementOfSeq
  <2> QED
    BY <2>1 DEF DynRequests
<1>3. k - 1 + 1 = k
  OBVIOUS
<1>4. get_dynamic(s, strings, k - 1) =
        [tag |-> x.tag, value |-> x.value,
         str |-> IF x.tag \in StringTags THEN get_string(strings, x.value)
                 ELSE NoName]
  BY <1>3 DEF get_dynamic
<1>5. /\ Swapped(class, need_conversion) => x.tag = DT_NULL /\ x.value = 0
      /\ ~Swapped(class, need_conversion) =>
            /\ x.tag = r.tag
            /\ x.value = Valued(r.tag, Narrow(r.value, class \div 8))
  <2>1. r.tag \notin ValuelessTags =>
            e.d_un = Trimmed(r.value, class, need_conversion)
    BY <1>1 DEF Valued
  <2> HIDE DEF e, r
  <2> QED
    BY <1>1, <1>2, <2>1, EntryIsRead
<1> HIDE DEF e, x
<1>6. CASE Swapped(class, need_conversion)
  BY <1>4, <1>5, <1>6 DEF ReadAs, DT_NULL, StringTags
<1>7. CASE ~Swapped(class, need_conversion)
  <2>1. CASE r.tag \in StringTags
    <3>1. r.tag \notin ValuelessTags
      BY <2>1 DEF StringTags, ValuelessTags
    <3>2. r.value < strings.size /\ strings.size \in Nat /\ r.value \in Nat
      BY <1>1, <2>1 DEF Holds, StringTable, Data, Section
    <3>3. r.value \in Values(4)
      <4>1. Limit(4) \in Nat
        BY Limits
      <4> HIDE DEF r
      <4> QED
        BY <3>2, <4>1 DEF Values
    <3>4. Narrow(r.value, class \div 8) = r.value
      <4>1. class \div 8 \in Widths /\ r.value \in Values(class \div 8)
        BY <3>3, ValuesGrow, WidthIsSmall DEF Opened, Widths
      <4> QED
        BY <3>2, <4>1, Narrowing
    <3>5. x.value = r.value
      BY <1>5, <1>7, <3>1, <3>4 DEF Valued
    <3>6. get_string(strings, r.value) = r.str
      BY <1>1, <2>1, StringIsRead
    <3> QED
      BY <1>4, <1>5, <1>7, <2>1, <3>5, <3>6 DEF ReadAs
  <2>2. CASE r.tag \notin StringTags
    BY <1>1, <1>4, <1>5, <1>7, <2>2 DEF ReadAs
  <2> QED
    BY <2>1, <2>2
<1> QED
  BY <1>6, <1>7
LEMMA DynamicAdded ==
    ASSUME Opened, NEW s, NEW strings, NEW asked,
           DynTable(s, strings, asked, class, need_conversion),
           NEW tag \in Values(4), NEW value \in Values(8), NEW str \in Texts,
           IF tag \in StringTags
           THEN Holds(strings, value, str) /\ str \in Strings
           ELSE str = NoName,
           NEW r, r = [tag |-> tag, value |-> value, str |-> str]
    PROVE  DynTable(add_dynamic(s, tag, value), strings, Append(asked, r),
                    class, need_conversion)
<1> DEFINE t == add_dynamic(s, tag, value)
           now == Append(asked, r)
           z == SizeOf(Dyn, class)
           item == [d_tag |-> Cut(tag),
                    d_un |-> Cut(IF tag \in ValuelessTags THEN 0 ELSE value)]
           L == Len(asked)
<1>1. /\ Data(s, DynItems) /\ StringTable(strings)
      /\ asked \in Seq(DynRequests) /\ s.entry_size = z
      /\ s.size = L * z /\ Len(s.items) = L /\ L \in Nat
      /\ z \in Nat \ {0}
  BY EntrySizes, LenProperties DEF DynTable, Opened
<1>2. /\ class \in Classes /\ need_conversion \in BOOLEAN
      /\ \A v : Cut(v) = Trimmed(v, class, need_conversion)
  BY WidthIsSmall DEF Cut, Trimmed, Opened
<1>3. /\ item.d_tag = Trimmed(tag, class, need_conversion)
      /\ item.d_un = Trimmed(Valued(tag, value), class, need_conversion)
  BY <1>2 DEF Valued
<1>4. item \in DynItems
  <2>1. tag \in Values(8) /\ Valued(tag, value) \in Values(8)
    BY <1>2, ValuesGrow DEF Valued
  <2>2. /\ Trimmed(tag, class, need_conversion) \in Nat
        /\ Trimmed(Valued(tag, value), class, need_conversion) \in Nat
    BY <1>2, <2>1, TrimmedIsNatural
  <2> QED
    BY <1>3, <2>2 DEF DynItems
<1>5. t = append_data(s, item, z)
  BY DEF add_dynamic
<1>6. r \in DynRequests
  BY DEF DynRequests
<1>7. /\ now \in Seq(DynRequests) /\ Len(now) = L + 1
      /\ \A k \in 1..L : now[k] = asked[k]
      /\ now[L + 1] = r
  BY <1>1, <1>6, AppendProperties
<1> HIDE DEF z, item, L, t, now
<1>8. /\ Data(t, DynItems) /\ t.entry_size = z /\ t.size = s.size + z
      /\ Len(t.items) = L + 1
      /\ \A k \in 1..L : t.items[k] = s.items[k]
      /\ t.items[L + 1] = item
  <2>1. z \in Nat
    BY <1>1
  <2>2. Longer(t, s, item, z, DynItems)
    BY <1>1, <1>4, <1>5, <2>1, AppendedLonger, Zenon
  <2> QED
    BY <1>1, <2>2 DEF Longer
<1>9. t.size = (L + 1) * z
  BY <1>1, <1>8
<1>10. ASSUME NEW k \in 1..(L + 1)
       PROVE  /\ t.items[k].d_tag = Trimmed(now[k].tag, class, need_conversion)
              /\ t.items[k].d_un = Trimmed(Valued(now[k].tag, now[k].value),
                                           class, need_conversion)
              /\ IF now[k].tag \in StringTags
                 THEN /\ Holds(strings, now[k].value, now[k].str)
                      /\ now[k].str \in Strings
                 ELSE now[k].str = NoName
  <2>1. CASE k = L + 1
    BY <1>3, <1>7, <1>8, <2>1
  <2>2. CASE k \in 1..L
    <3>1. t.items[k] = s.items[k] /\ now[k] = asked[k]
      BY <1>7, <1>8, <2>2
    <3> QED
      BY <2>2, <3>1 DEF DynTable, L
  <2>3. k = L + 1 \/ k \in 1..L
    BY <1>1
  <2> QED
    BY <2>1, <2>2, <2>3
<1>11. DynTable(t, strings, now, class, need_conversion)
  BY <1>1, <1>7, <1>8, <1>9, <1>10 DEF DynTable, z, L
<1> QED
  BY <1>11 DEF t, now

(* More strings do not disturb what refers to the ones there were.         *)
LEMMA StringsGrow ==
    ASSUME NEW strings, NEW grown, StringTable(grown), strings.size > 0 => grown.size > 0,
           \A at, old : Holds(strings, at, old) => Holds(grown, at, old),
           NEW s, NEW asked, NEW c, NEW need
    PROVE  /\ SymbolTable(strings, s, asked, c, need) =>
                  SymbolTable(grown, s, asked, c, need)
           /\ DynTable(s, strings, asked, c, need) =>
                  DynTable(s, grown, asked, c, need)
<1>1. ASSUME SymbolTable(strings, s, asked, c, need)
      PROVE  SymbolTable(grown, s, asked, c, need)
  BY <1>1 DEF SymbolTable
<1>2. ASSUME DynTable(s, strings, asked, c, need)
      PROVE  DynTable(s, grown, asked, c, need)
  BY <1>2 DEF DynTable
<1> QED
  BY <1>1, <1>2

LEMMA NoDynamics ==
    ASSUME Opened, NEW strings, StringTable(strings),
           NEW s, s = Empty(SizeOf(Dyn, class))
    PROVE  DynTable(s, strings, <<>>, class, need_conversion)
<1>1. SizeOf(Dyn, class) \in Nat \ {0}
  BY EntrySizes DEF Opened
<1>2. /\ Data(s, DynItems) /\ s.entry_size = SizeOf(Dyn, class)
      /\ s.size = 0 /\ Len(s.items) = 0
  BY <1>1, Fresh
<1>3. Len(<<>>) = 0 /\ <<>> \in Seq(DynRequests)
  OBVIOUS
<1>4. 0 * SizeOf(Dyn, class) = 0
  BY <1>1
<1> QED
  BY <1>2, <1>3, <1>4 DEF DynTable

LEMMA NoStrings ==
    ASSUME NEW s, s = Empty(0)
    PROVE  StringTable(s) /\ s.size = 0
<1>1. Data(s, StrItems) /\ s.size = 0 /\ s.items = <<>>
  BY Fresh
<1> QED
  BY <1>1 DEF StringTable

LEMMA NoCopies ==
    ASSUME Opened, NEW asked \in Seq(DynRequests), NEW strings, strings = Empty(0),
           NEW s, s = Empty(SizeOf(Dyn, class))
    PROVE  CopyTable(s, strings, asked, class, need_conversion)
<1>1. SizeOf(Dyn, class) \in Nat \ {0}
  BY EntrySizes DEF Opened
<1>2. /\ Data(s, DynItems) /\ s.entry_size = SizeOf(Dyn, class)
      /\ s.size = 0 /\ Len(s.items) = 0
  BY <1>1, Fresh
<1>3. 0 <= Len(asked) /\ 0 * SizeOf(Dyn, class) = 0
  BY <1>1, LenProperties
<1> QED
  BY <1>2, <1>3, NoStrings DEF CopyTable

(* What is read has a tag and a value that can be added again.             *)
LEMMA ReadAsTyped ==
    ASSUME Opened, NEW s, NEW strings, NEW asked,
           DynTable(s, strings, asked, class, need_conversion),
           NEW k \in 1..Len(asked),
           NEW r, r = ReadAs(asked[k], class, need_conversion)
    PROVE  /\ r.tag \in Values(4) /\ r.value \in Values(8)
           /\ r.value \in Values(class \div 8)
           /\ IF r.tag \in StringTags THEN r.str \in Strings ELSE r.str = NoName
           /\ r.tag \in ValuelessTags => r.value = 0
<1>0. class \in Classes /\ need_conversion \in BOOLEAN
  BY DEF Opened
<1>1. asked[k] \in DynRequests
  BY ElementOfSeq DEF DynTable
<1>2. asked[k].tag \in Values(4) /\ asked[k].value \in Values(8)
  BY <1>1 DEF DynRequests
<1>3. IF asked[k].tag \in StringTags THEN asked[k].str \in Strings
      ELSE asked[k].str = NoName
  BY DEF DynTable
<1>4. /\ Narrow(asked[k].value, class \div 8) \in Values(8)
      /\ Narrow(asked[k].value, class \div 8) \in Values(class \div 8)
  <2>1. class \div 8 \in Widths /\ Values(8) \subseteq Nat
    BY <1>0, WidthIsSmall, ValuesGrow DEF Widths
  <2>2. asked[k].value \in Int
    BY <1>2, <2>1
  <2>3. Narrow(asked[k].value, class \div 8) \in Values(class \div 8)
    BY <2>1, <2>2, Narrowing
  <2> QED
    BY <1>0, <2>3, ValuesGrow
<1>5. /\ 0 \in Values(4) /\ 0 \in Values(8)
      /\ 0 \in Values(class \div 8)
  BY <1>0, ValuesGrow
<1>6. CASE Swapped(class, need_conversion)
  <2>1. r.tag = DT_NULL /\ r.value = 0 /\ r.str = NoName
    BY <1>6 DEF ReadAs
  <2> QED
    BY <1>5, <2>1 DEF DT_NULL, StringTags
<1>7. CASE ~Swapped(class, need_conversion)
  <2>1. /\ r.tag = asked[k].tag /\ r.str = asked[k].str
        /\ r.value = Valued(asked[k].tag, Narrow(asked[k].value, class \div 8))
    BY <1>7 DEF ReadAs
  <2> QED
    BY <1>2, <1>3, <1>4, <1>5, <2>1 DEF Valued
<1> QED
  BY <1>6, <1>7

(* One more entry is copied.                                               *)
LEMMA Copied ==
    ASSUME Opened, NEW s, {"dynstr", "dynamic1"} \subseteq DOMAIN s, NEW asked,
           NEW dyn, NEW strings,
           DynTable(dyn, strings, asked, class, need_conversion),
           CopyTable(s.dynamic1, s.dynstr, asked, class, need_conversion),
           s.dynstr.size < Limit(8),
           NEW n \in 1..Len(asked), Len(s.dynamic1.items) = n - 1,
           NEW t, t = WithCopy(s, ReadAs(asked[n], class, need_conversion))
    PROVE  /\ CopyTable(t.dynamic1, t.dynstr, asked, class, need_conversion)
           /\ Len(t.dynamic1.items) = n
           /\ t.dynamic1.entry_size = s.dynamic1.entry_size
           /\ \/ t.dynstr = s.dynstr
              \/ /\ t.dynstr.entry_size = s.dynstr.entry_size
                 /\ t.dynstr.size <= StringPosition(s.dynstr) + MaxString + 1
           /\ DOMAIN t = DOMAIN s
           /\ \A name \in DOMAIN s \ {"dynstr", "dynamic1"} : t[name] = s[name]
<1> DEFINE r == ReadAs(asked[n], class, need_conversion)
           z == SizeOf(Dyn, class)
           at == StringPosition(s.dynstr)
           v == IF r.tag \in StringTags THEN at ELSE r.value
           u == IF r.tag \in StringTags THEN add_string(s.dynstr, r.str)
                ELSE s.dynstr
           item == [d_tag |-> Cut(r.tag),
                    d_un |-> Cut(IF r.tag \in ValuelessTags THEN 0 ELSE v)]
<1>1. /\ Data(s.dynamic1, DynItems) /\ StringTable(s.dynstr)
      /\ s.dynamic1.entry_size = z
      /\ s.dynamic1.size = (n - 1) * z /\ z \in Nat \ {0}
      /\ class \in Classes /\ need_conversion \in BOOLEAN
  BY EntrySizes DEF CopyTable, Opened
<1>2. \A x : Cut(x) = Trimmed(x, class, need_conversion)
  BY WidthIsSmall DEF Cut, Trimmed, Opened
<1>3. /\ r.tag \in Values(4) /\ r.value \in Values(8)
      /\ r.tag \in StringTags => r.str \in Strings
      /\ r.tag \in ValuelessTags => r.value = 0
  BY ReadAsTyped
<1>4. /\ t.dynstr = u /\ t.dynamic1 = append_data(s.dynamic1, item, z)
      /\ DOMAIN t = DOMAIN s
      /\ \A name \in DOMAIN s \ {"dynstr", "dynamic1"} : t[name] = s[name]
  <2> HIDE DEF r
  <2>1. CASE r.tag \in StringTags
    BY <2>1 DEF WithCopy, add_dynamic, r
  <2>2. CASE r.tag \notin StringTags
    BY <2>2 DEF WithCopy, add_dynamic, r
  <2> QED
    BY <2>1, <2>2
<1> HIDE DEF r
<1>5. at \in Nat /\ at \in Values(8)
  <2>1. s.dynstr.size \in Nat
    BY <1>1 DEF StringTable, Data, Section
  <2>2. Limit(8) \in Nat \ {0} /\ 1 < Limit(8)
    <3>1. \A m \in Nat \ {0, 1} : m * m \in Nat \ {0, 1}
      OBVIOUS
    <3>2. Limit(1) \in Nat \ {0, 1}
      BY Limits
    <3>3. Limit(2) \in Nat \ {0, 1}
      BY <3>1, <3>2, Limits
    <3>4. Limit(4) \in Nat \ {0, 1}
      BY <3>1, <3>3, Limits
    <3>5. Limit(8) \in Nat \ {0, 1}
      BY <3>1, <3>4, Limits
    <3> QED
      BY <3>5
  <2> QED
    BY <2>1, <2>2 DEF StringPosition, Values
<1>6. /\ StringTable(u)
      /\ \A p, old : Holds(s.dynstr, p, old) => Holds(u, p, old)
      /\ r.tag \in StringTags => Holds(u, at, r.str)
      /\ \/ u = s.dynstr
         \/ u.entry_size = s.dynstr.entry_size /\ u.size <= at + MaxString + 1
  <2>1. CASE r.tag \in StringTags
    <3>1. r.str \in Texts /\ StringSize(r.str) \in 0..MaxString /\ MaxString \in Nat
      BY <1>3, <2>1, StringsAssumption, BoundsAssumption DEF Texts
    <3>2. u = add_string(s.dynstr, r.str)
      BY <2>1
    <3> HIDE DEF u, at
    <3>3. StringSize(r.str) \in Nat
      BY <3>1
    <3>4. /\ StringTable(u) /\ u.entry_size = s.dynstr.entry_size
          /\ u.size <= at + StringSize(r.str) + 1
          /\ Holds(u, at, r.str)
          /\ \A p, old : Holds(s.dynstr, p, old) => Holds(u, p, old)
      BY <1>1, <3>1, <3>2, <3>3, StringAdded DEF at
    <3>5. u.size \in Nat
      BY <3>4 DEF StringTable, Data, Section
    <3>6. u.size <= at + MaxString + 1
      BY <1>5, <3>1, <3>4, <3>5
    <3> QED
      BY <3>4, <3>6
  <2>2. CASE r.tag \notin StringTags
    BY <1>1, <2>2
  <2> QED
    BY <2>1, <2>2
<1>7. v \in Values(8) /\ (r.tag \in ValuelessTags => v = 0)
  BY <1>3, <1>5 DEF StringTags, ValuelessTags
<1> HIDE DEF u, at, v
<1>8. /\ item.d_tag = Trimmed(r.tag, class, need_conversion)
      /\ item.d_un = Trimmed(v, class, need_conversion)
  BY <1>2, <1>7
<1>9. item \in DynItems
  <2>1. r.tag \in Values(8)
    BY <1>1, <1>3, ValuesGrow
  <2>2. /\ Trimmed(r.tag, class, need_conversion) \in Nat
        /\ Trimmed(v, class, need_conversion) \in Nat
    BY <1>1, <1>7, <2>1, TrimmedIsNatural
  <2> QED
    BY <1>8, <2>2 DEF DynItems
<1> HIDE DEF item, z
<1>10. /\ Data(t.dynamic1, DynItems) /\ t.dynamic1.entry_size = z
       /\ t.dynamic1.size = (n - 1) * z + z
       /\ Len(t.dynamic1.items) = n - 1 + 1
       /\ \A k \in 1..(n - 1) : t.dynamic1.items[k] = s.dynamic1.items[k]
       /\ t.dynamic1.items[n - 1 + 1] = item
  BY <1>1, <1>4, <1>9, Appended
<1>11. n - 1 + 1 = n /\ (n - 1) * z + z = n * z /\ n \in Nat /\ n <= Len(asked)
  <2>1. asked \in Seq(DynRequests)
    BY DEF DynTable
  <2>2. Len(asked) \in Nat
    BY <2>1, LenProperties
  <2> QED
    BY <1>1, <2>2
<1>12. ASSUME NEW k \in 1..n
       PROVE  LET e == t.dynamic1.items[k]
                  x == ReadAs(asked[k], class, need_conversion)
              IN  /\ e.d_tag = Trimmed(x.tag, class, need_conversion)
                  /\ IF x.tag \in StringTags
                     THEN \E p \in Nat :
                            /\ Holds(t.dynstr, p, x.str)
                            /\ e.d_un = Trimmed(p, class, need_conversion)
                     ELSE e.d_un = Trimmed(x.value, class, need_conversion)
  <2>1. CASE k = n
    <3>1. t.dynamic1.items[k] = item /\ r = ReadAs(asked[k], class, need_conversion)
      BY <1>10, <1>11, <2>1 DEF r
    <3> QED
      BY <1>4, <1>5, <1>6, <1>8, <3>1 DEF v
  <2>2. CASE k \in 1..(n - 1)
    <3>1. t.dynamic1.items[k] = s.dynamic1.items[k]
      BY <1>10, <2>2
    <3> QED
      BY <1>4, <1>6, <2>2, <3>1 DEF CopyTable
  <2> QED
    BY <1>11, <2>1, <2>2
<1>13. CopyTable(t.dynamic1, t.dynstr, asked, class, need_conversion)
  BY <1>4, <1>6, <1>10, <1>11, <1>12 DEF CopyTable, z
<1> QED
  BY <1>1, <1>4, <1>6, <1>10, <1>11, <1>13 DEF at

LEMMA CopyRead ==
    ASSUME Opened, NEW d, NEW texts, NEW asked,
           DynTable(d, texts, asked, class, need_conversion),
           NEW s, NEW strings,
           CopyTable(s, strings, asked, class, need_conversion),
           strings.size <= Limit(4), NEW k \in 1..Len(s.items),
           NEW r, r = ReadAs(asked[k], class, need_conversion)
    PROVE  /\ k \in 1..Len(asked)
           /\ get_dynamic(s, strings, k - 1).tag = r.tag
           /\ get_dynamic(s, strings, k - 1).str = r.str
           /\ r.tag \notin StringTags =>
                  get_dynamic(s, strings, k - 1).value = r.value
<1> DEFINE e == s.items[k]
           x == generic_get_entry_dyn(e)
           w == class \div 8
<1>1. /\ k \in 1..Len(asked) /\ StringTable(strings)
      /\ e.d_tag = Trimmed(r.tag, class, need_conversion)
      /\ IF r.tag \in StringTags
         THEN \E at \in Nat : /\ Holds(strings, at, r.str)
                              /\ e.d_un = Trimmed(at, class, need_conversion)
         ELSE e.d_un = Trimmed(r.value, class, need_conversion)
  <2>1. asked \in Seq(DynRequests) /\ s.items \in Seq(DynItems)
        /\ Len(s.items) <= Len(asked)
    BY DEF DynTable, CopyTable, Data, Section
  <2>2. k \in 1..Len(asked)
    BY <2>1, LenProperties
  <2> QED
    BY <2>2 DEF CopyTable
<1>2. /\ r.tag \in Values(4) /\ r.value \in Values(8) /\ r.value \in Values(w)
      /\ IF r.tag \in StringTags THEN r.str \in Strings ELSE r.str = NoName
      /\ r.tag \in ValuelessTags => r.value = 0
  BY <1>1, ReadAsTyped
<1>3. get_dynamic(s, strings, k - 1) =
        [tag |-> x.tag, value |-> x.value,
         str |-> IF x.tag \in StringTags THEN get_string(strings, x.value)
                 ELSE NoName]
  <2>1. k - 1 + 1 = k
    OBVIOUS
  <2> QED
    BY <2>1 DEF get_dynamic
<1>4. w \in Widths /\ Values(8) \subseteq Nat
      /\ Values(4) \subseteq Values(8) /\ Values(4) \subseteq Values(w)
  BY WidthIsSmall, ValuesGrow DEF Widths, Opened
<1> HIDE DEF e
<1>5. CASE r.tag \in StringTags
  <2>1. PICK at \in Nat : /\ Holds(strings, at, r.str)
                          /\ e.d_un = Trimmed(at, class, need_conversion)
    BY <1>1, <1>5
  <2>2. at < strings.size /\ strings.size \in Nat
    BY <1>1, <2>1 DEF Holds, StringTable, Data, Section
  <2>3. at \in Values(4)
    <3>1. Limit(4) \in Nat
      BY Limits
    <3> QED
      BY <2>2, <3>1 DEF Values
  <2>4. at \in Values(8) /\ Narrow(at, w) = at
    BY <1>4, <2>3, Narrowing
  <2>5. r.tag \notin ValuelessTags /\ r.tag # DT_NULL
    BY <1>5 DEF StringTags, ValuelessTags, DT_NULL
  <2>6. ~Swapped(class, need_conversion)
    BY <2>5 DEF ReadAs
  <2>7. x.tag = r.tag /\ x.value = Valued(r.tag, Narrow(at, w))
    <3>1. /\ r.tag \in Values(4) /\ at \in Values(8)
          /\ e.d_tag = Trimmed(r.tag, class, need_conversion)
          /\ e.d_un = Trimmed(at, class, need_conversion)
      BY <1>1, <1>2, <2>1, <2>4, Zenon
    <3> HIDE DEF x, w
    <3>2. ~Swapped(class, need_conversion) =>
             /\ generic_get_entry_dyn(e).tag = r.tag
             /\ generic_get_entry_dyn(e).value
                  = Valued(r.tag, Narrow(at, class \div 8))
      BY <3>1, EntryIsRead, Zenon
    <3> QED
      BY <2>6, <3>2, Zenon DEF x, w
  <2>8. x.value = at
    BY <2>4, <2>5, <2>7 DEF Valued
  <2>9. get_string(strings, at) = r.str
    BY <1>1, <2>1, StringIsRead
  <2> HIDE DEF x
  <2> QED
    BY <1>1, <1>3, <1>5, <2>7, <2>8, <2>9
<1>6. CASE r.tag \notin StringTags
  <2>1. Narrow(r.value, w) = r.value
    BY <1>2, <1>4, Narrowing
  <2>2. x.tag = r.tag /\ x.value = r.value
    <3>1. CASE Swapped(class, need_conversion)
      <4>1. r.tag = DT_NULL /\ r.value = 0
        BY <3>1 DEF ReadAs
      <4> QED
        BY <1>1, <1>2, <1>6, <3>1, <4>1, EntryIsRead
    <3>2. CASE ~Swapped(class, need_conversion)
      <4>1. x.tag = r.tag /\ x.value = Valued(r.tag, Narrow(r.value, w))
        BY <1>1, <1>2, <1>6, <3>2, EntryIsRead
      <4> QED
        BY <1>2, <2>1, <4>1 DEF Valued
    <3> QED
      BY <3>1, <3>2
  <2> HIDE DEF x
  <2> QED
    BY <1>1, <1>2, <1>3, <1>6, <2>2
<1> QED
  BY <1>5, <1>6
-----------------------------------------------------------------------------
(* Relocations are added.                                                  *)

LEMMA InfoIsStored ==
    ASSUME Opened, NEW n, Indexed(n, class), NEW offset \in Nat,
           NEW symbol \in 1..n, NEW type \in Values(1)
    PROVE  /\ Stored(offset, "Addr") \in Nat
           /\ Stored(offset, "Addr") = Kept(offset, class \div 8, need_conversion)
           /\ Stored(ELF_R_INFO(symbol, type, class), "Native") \in Nat
           /\ Stored(ELF_R_INFO(symbol, type, class), "Native")
                = Kept(ELF_R_INFO(symbol, type, class), class \div 8,
                       need_conversion)
<1> DEFINE info == ELF_R_INFO(symbol, type, class)
<1>1. info \in Values(class \div 8)
  BY InfoParts DEF Opened
<1>2. info \in Int
  BY <1>1 DEF Values
<1> HIDE DEF info
<1> QED
  BY <1>2, StoredIsNatural, StoredIsKept DEF info

(* What the entries there were hold for, the one that follows them too.    *)
Follows(t, now, s, asked, item, r, z, Items, Asks) ==
    /\ now \in Seq(Asks) /\ Len(now) = Len(asked) + 1
    /\ Data(t, Items) /\ t.entry_size = s.entry_size
    /\ t.size = Len(now) * z /\ Len(t.items) = Len(now)
    /\ \A k \in 1..Len(now) :
         \/ /\ k \in 1..Len(asked)
            /\ t.items[k] = s.items[k] /\ now[k] = asked[k]
         \/ k = Len(now) /\ t.items[k] = item /\ now[k] = r

LEMMA OneMore ==
    ASSUME NEW Items, NEW Asks, NEW z \in Nat, NEW s, NEW t,
           NEW item, NEW asked \in Seq(Asks), NEW r \in Asks,
           Longer(t, s, item, z, Items),
           s.size = Len(asked) * z, Len(s.items) = Len(asked)
    PROVE  Follows(t, Append(asked, r), s, asked, item, r, z, Items, Asks)
<1> DEFINE L == Len(asked)
           now == Append(asked, r)
<1>1. /\ now \in Seq(Asks) /\ Len(now) = L + 1 /\ L \in Nat
      /\ \A k \in 1..L : now[k] = asked[k]
      /\ now[L + 1] = r
  BY AppendProperties, LenProperties
<1>2. /\ Data(t, Items) /\ t.entry_size = s.entry_size /\ t.size = s.size + z
      /\ Len(t.items) = L + 1
      /\ \A k \in 1..L : t.items[k] = s.items[k]
      /\ t.items[L + 1] = item
  BY DEF Longer
<1> HIDE DEF L, now
<1>3. L * z + z = (L + 1) * z
  BY <1>1
<1>4. \A k \in 1..(L + 1) : k \in 1..L \/ k = L + 1
  BY <1>1
<1>5. t.size = (L + 1) * z
  BY <1>2, <1>3 DEF L
<1>6. ASSUME NEW k \in 1..(L + 1)
      PROVE  \/ /\ k \in 1..L
                /\ t.items[k] = s.items[k] /\ now[k] = asked[k]
             \/ k = L + 1 /\ t.items[k] = item /\ now[k] = r
  <2>1. CASE k \in 1..L
    BY <1>1, <1>2, <2>1
  <2>2. CASE k = L + 1
    BY <1>1, <1>2, <2>2
  <2> QED
    BY <1>4, <2>1, <2>2
<1> QED
  BY <1>1, <1>2, <1>5, <1>6 DEF L, now, Follows

LEMMA RelAdded ==
    ASSUME Opened, NEW s, NEW asked, NEW n, Indexed(n, class),
           RelTable(s, asked, n, class, need_conversion),
           NEW offset \in Nat, NEW symbol \in 1..n, NEW type \in Values(1),
           NEW r, r = [symbol |-> symbol, offset |-> offset, type |-> type,
                       addend |-> 0]
    PROVE  RelTable(add_rel(s, offset, symbol, type), Append(asked, r), n,
                    class, need_conversion)
<1> DEFINE item == RelEntry(offset, ELF_R_INFO(symbol, type, class))
           z == SizeOf(Rel, class)
           t == add_rel(s, offset, symbol, type)
           now == Append(asked, r)
<1>1. item \in RelItems
  BY InfoIsStored DEF RelEntry, RelItems
<1>2. Stores(item, r, n, class, need_conversion)
  BY InfoIsStored DEF RelEntry, Stores
<1>3. r \in Wanted
  BY ValuesGrow DEF Wanted, Values
<1>4. z \in Nat /\ Data(s, RelItems) /\ asked \in Seq(Wanted)
      /\ s.size = Len(asked) * z /\ Len(s.items) = Len(asked)
      /\ s.entry_size = z
  BY EntrySizes DEF RelTable, Opened
<1>5. t = append_data(s, item, z)
  BY DEF add_rel
<1> HIDE DEF item, z, t
<1>6. Longer(t, s, item, z, RelItems)
  BY <1>1, <1>4, <1>5, AppendedLonger, Zenon
<1>7. Follows(t, now, s, asked, item, r, z, RelItems, Wanted)
  BY <1>3, <1>4, <1>6, OneMore, Zenon
<1> HIDE DEF now
<1>8. /\ now \in Seq(Wanted) /\ Data(t, RelItems)
      /\ t.entry_size = s.entry_size
      /\ t.size = Len(now) * z /\ Len(t.items) = Len(now)
      /\ \A k \in 1..Len(now) :
            \/ /\ k \in 1..Len(asked)
               /\ t.items[k] = s.items[k] /\ now[k] = asked[k]
            \/ k = Len(now) /\ t.items[k] = item /\ now[k] = r
  BY <1>7 DEF Follows
<1>9. ASSUME NEW k \in 1..Len(now)
      PROVE  Stores(t.items[k], now[k], n, class, need_conversion)
             /\ now[k].addend = 0
  <2>1. CASE k \in 1..Len(asked) /\ t.items[k] = s.items[k] /\ now[k] = asked[k]
    BY <2>1 DEF RelTable
  <2>2. CASE t.items[k] = item /\ now[k] = r
    BY <1>2, <2>2
  <2> QED
    BY <1>8, <2>1, <2>2
<1> QED
  BY <1>4, <1>8, <1>9 DEF RelTable, t, now, z

LEMMA RelaAdded ==
    ASSUME Opened, NEW s, NEW asked, NEW n, Indexed(n, class),
           RelaTable(s, asked, n, class, need_conversion),
           NEW offset \in Nat, NEW symbol \in 1..n, NEW type \in Values(1),
           NEW addend \in Int,
           NEW r, r = [symbol |-> symbol, offset |-> offset, type |-> type,
                       addend |-> addend]
    PROVE  RelaTable(add_rela(s, offset, symbol, type, addend),
                     Append(asked, r), n, class, need_conversion)
<1> DEFINE item == RelaEntry(offset, ELF_R_INFO(symbol, type, class), addend)
           z == SizeOf(Rela, class)
           t == add_rela(s, offset, symbol, type, addend)
           now == Append(asked, r)
<1>1. item \in RelaItems
  BY InfoIsStored, StoredIsNatural DEF RelaEntry, RelaItems
<1>2. /\ Stores(item, r, n, class, need_conversion)
      /\ item.r_addend = Kept(addend, class \div 8, need_conversion)
      /\ r.addend = addend
  BY InfoIsStored, StoredIsKept DEF RelaEntry, Stores
<1>3. r \in Wanted
  BY ValuesGrow DEF Wanted, Values
<1>4. z \in Nat /\ Data(s, RelaItems) /\ asked \in Seq(Wanted)
      /\ s.size = Len(asked) * z /\ Len(s.items) = Len(asked)
      /\ s.entry_size = z
  BY EntrySizes DEF RelaTable, Opened
<1>5. t = append_data(s, item, z)
  BY DEF add_rela
<1> HIDE DEF item, z, t
<1>6. Longer(t, s, item, z, RelaItems)
  BY <1>1, <1>4, <1>5, AppendedLonger, Zenon
<1>7. Follows(t, now, s, asked, item, r, z, RelaItems, Wanted)
  BY <1>3, <1>4, <1>6, OneMore, Zenon
<1> HIDE DEF now
<1>8. /\ now \in Seq(Wanted) /\ Data(t, RelaItems)
      /\ t.entry_size = s.entry_size
      /\ t.size = Len(now) * z /\ Len(t.items) = Len(now)
      /\ \A k \in 1..Len(now) :
            \/ /\ k \in 1..Len(asked)
               /\ t.items[k] = s.items[k] /\ now[k] = asked[k]
            \/ k = Len(now) /\ t.items[k] = item /\ now[k] = r
  BY <1>7 DEF Follows
<1>9. ASSUME NEW k \in 1..Len(now)
      PROVE  /\ Stores(t.items[k], now[k], n, class, need_conversion)
             /\ t.items[k].r_addend
                  = Kept(now[k].addend, class \div 8, need_conversion)
  <2>1. CASE k \in 1..Len(asked) /\ t.items[k] = s.items[k] /\ now[k] = asked[k]
    BY <2>1 DEF RelaTable
  <2>2. CASE t.items[k] = item /\ now[k] = r
    BY <1>2, <2>2
  <2> QED
    BY <1>8, <2>1, <2>2
<1> QED
  BY <1>4, <1>8, <1>9 DEF RelaTable, t, now, z

LEMMA NoRelocations ==
    ASSUME Opened, NEW n
    PROVE  /\ RelTable(Empty(SizeOf(Rel, class)), <<>>, n, class,
                       need_conversion)
           /\ RelaTable(Empty(SizeOf(Rela, class)), <<>>, n, class,
                        need_conversion)
<1>1. /\ SizeOf(Rel, class) \in Nat \ {0} /\ SizeOf(Rela, class) \in Nat \ {0}
  BY EntrySizes DEF Opened
<1>2. <<>> \in Seq(Wanted) /\ Len(<<>>) = 0
  OBVIOUS
<1>3. \A y \in Nat : 0 * y = 0
  OBVIOUS
<1>4. \A y \in Nat : \A Items :
        LET s == Empty(y)
        IN  /\ Data(s, Items) /\ s.entry_size = y /\ s.size = 0
            /\ Len(s.items) = 0
  BY Fresh
<1> QED
  BY <1>1, <1>2, <1>3, <1>4 DEF RelTable, RelaTable

(* More symbols do not disturb the relocations there were, nor does it     *)
(* matter to a table that it was loaded.                                   *)
LEMMA RelocationsStay ==
    ASSUME NEW s, NEW asked, NEW n \in Nat, NEW m \in Nat, n <= m, NEW c, NEW need
    PROVE  /\ RelTable(s, asked, n, c, need) => RelTable(s, asked, m, c, need)
           /\ RelaTable(s, asked, n, c, need) => RelaTable(s, asked, m, c, need)
<1>1. 1..n \subseteq 1..m
  OBVIOUS
<1>2. \A e, r : Stores(e, r, n, c, need) => Stores(e, r, m, c, need)
  BY <1>1 DEF Stores
<1> QED
  BY <1>2 DEF RelTable, RelaTable
-----------------------------------------------------------------------------
(* Bounds of the string tables.                                            *)

(* n strings and the empty one.                                            *)
Strung(s, n) == s.size <= 1 + n * (MaxString + 1)

LEMMA StringsBounded ==
    ASSUME NEW f \in Files, NEW n \in Nat, n <= Len(f.symbols) + MaxAdded
    PROVE  /\ 1 + n * (MaxString + 1) <= Limit(4) - 1
           /\ Indexed(n, f.class)
<1> DEFINE most == Len(f.symbols) + MaxAdded + 1
           m == MaxString + 1
           b == TypeBase(f.class)
<1>1. f \in File
  BY FilesAssumption
<1>2. Len(f.symbols) \in Nat /\ f.class \in Classes
  BY <1>1, LenProperties DEF File
<1>3. MaxAdded \in Nat /\ MaxString \in Nat
      /\ most * m < Limit(4) /\ most * b <= Limit(f.class \div 8)
  BY BoundsAssumption
<1>4. Limit(4) \in Nat /\ Limit(f.class \div 8) \in Nat
  BY <1>2, Limits, TypeBases
<1>5. m \in Nat \ {0} /\ b \in Nat \ {0} /\ most \in Nat /\ n + 1 <= most
  BY <1>2, <1>3, TypeBases
<1> HIDE DEF most, m, b
<1>6. \A k \in Nat, l \in Nat, y \in Nat : k <= l => k * y <= l * y
  OBVIOUS
<1>7. (n + 1) * m <= most * m /\ (n + 1) * b <= most * b
  BY <1>5, <1>6
<1>8. (n + 1) * m = n * m + m /\ n * m \in Nat /\ (n + 1) * b \in Nat
      /\ most * m \in Nat /\ most * b \in Nat
  BY <1>5
<1>9. 1 + n * m <= Limit(4) - 1
  <2> DEFINE a == n * m
             c == most * m
             d == Limit(4)
  <2>1. /\ a \in Nat /\ c \in Nat /\ d \in Nat /\ m \in Nat \ {0}
        /\ a + m <= c /\ c < d
    BY <1>3, <1>4, <1>5, <1>7, <1>8
  <2> HIDE DEF a, c, d
  <2>2. 1 + a <= d - 1
    BY <2>1
  <2> QED
    BY <2>2 DEF a, d
<1>10. (n + 1) * b <= Limit(f.class \div 8)
  BY <1>3, <1>4, <1>7, <1>8
<1> QED
  BY <1>9, <1>10 DEF m, b, Indexed

LEMMA StringsStrung ==
    ASSUME NEW s, StringTable(s), NEW n \in Nat, Strung(s, n)
    PROVE  /\ \A k \in Nat : n <= k => Strung(s, k)
           /\ \A t : t.size \in Nat
                  /\ t.size <= StringPosition(s) + MaxString + 1 =>
                     Strung(t, n + 1)
           /\ s.size \in Nat /\ StringPosition(s) <= 1 + n * (MaxString + 1)
<1> DEFINE m == MaxString + 1
           at == StringPosition(s)
<1>1. m \in Nat /\ s.size \in Nat /\ s.size <= 1 + n * m
  BY BoundsAssumption DEF StringTable, Data, Section, Strung
<1>2. \A x : Strung(x, n + 1) <=> x.size <= 1 + (n + 1) * m
  BY DEF Strung
<1>3. \A x, k : Strung(x, k) <=> x.size <= 1 + k * m
  BY DEF Strung
<1>4. MaxString + 1 = m /\ MaxString \in Nat
  BY BoundsAssumption
<1>5. n * m \in Nat /\ (n + 1) * m = n * m + m
  BY <1>1
<1>6. at \in Nat /\ at <= 1 + n * m
  BY <1>1, <1>5 DEF StringPosition
<1> HIDE DEF m, at
<1>7. \A k \in Nat : n <= k => n * m <= k * m /\ k * m \in Nat
  <2>1. \A a \in Nat, b \in Nat, y \in Nat : a <= b => a * y <= b * y /\ b * y \in Nat
    OBVIOUS
  <2> QED
    BY <1>1, <2>1
<1>8. ASSUME NEW t, t.size \in Nat, t.size <= at + MaxString + 1
      PROVE  t.size <= 1 + (n + 1) * m
  BY <1>4, <1>5, <1>6, <1>8
<1>9. \A k \in Nat : n <= k => s.size <= 1 + k * m
  BY <1>1, <1>5, <1>7
<1> QED
  BY <1>1, <1>2, <1>3, <1>4, <1>6, <1>8, <1>9 DEF at

-----------------------------------------------------------------------------
(* A linked file's symbols.                                                *)

AskedSymbols(names) == [k \in DOMAIN names |-> Asked(names[k], 0, 0, 0)]

LEMMA OneMoreSymbol ==
    ASSUME Opened, NEW s, {"strtab", "symtab"} \subseteq DOMAIN s, NEW asked,
           Symbols(s, asked),
           NEW n \in Nat, Strung(s.strtab, n),
           NEW str \in Names \cup Strings,
           NEW value \in Nat, NEW size \in Nat, NEW info \in Nat,
           NEW t, t = WithSymbol(s, str, value, size, info),
           NEW now, now = Append(asked, Asked(str, value, size, info))
    PROVE  /\ WithOneMore(t, now, s, asked, str, value, size, info)
           /\ Strung(t.strtab, n + 1)
<1>1. WithOneMore(t, now, s, asked, str, value, size, info)
  BY SymbolAdded, Zenon
<1>2. /\ SymbolTable(t.strtab, t.symtab, now, class, need_conversion)
      /\ t.strtab.size <= StringPosition(s.strtab) + StringSize(str) + 1
  BY <1>1 DEF WithOneMore
<1>3. StringTable(s.strtab)
  BY NoStrings DEF Symbols, NoSymbols, SymbolTable
<1>4. StringTable(t.strtab)
  BY <1>2 DEF SymbolTable
<1>5. StringSize(str) \in 0..MaxString /\ MaxString \in Nat
  BY StringsAssumption, BoundsAssumption
<1>6. t.strtab.size \in Nat /\ StringPosition(s.strtab) \in Nat
  BY <1>3, <1>4 DEF StringTable, Data, Section, StringPosition
<1>7. t.strtab.size <= StringPosition(s.strtab) + MaxString + 1
  BY <1>2, <1>5, <1>6
<1>8. Strung(t.strtab, n + 1)
  BY <1>3, <1>6, <1>7, StringsStrung
<1> QED
  BY <1>1, <1>8

LEMMA Linked ==
    ASSUME Opened, NEW names \in Seq(Names), names # <<>>,
           NEW s, s = LinkedSymbols(names)
    PROVE  /\ SymbolTable(s.strtab, s.symtab, AskedSymbols(names), class,
                          need_conversion)
           /\ Strung(s.strtab, Len(names)) /\ s.strtab.entry_size = 0
<1> DEFINE N == Len(names)
           base == [strtab |-> Empty(0), symtab |-> Empty(SizeOf(Sym, class))]
           With(x, k) == WithSymbol(x, names[k], 0, 0, 0)
           Rec(f, n) == f = [k \in 0..n |->
                               IF k = 0 THEN base ELSE With(f[k - 1], k)]
           F == CHOOSE f : Rec(f, N)
           T == {n \in Nat : \E f : Rec(f, n)}
           Good(n, asked) ==
              /\ Len(asked) = n
              /\ \A k \in 1..n : asked[k] = Asked(names[k], 0, 0, 0)
              /\ {"strtab", "symtab"} \subseteq DOMAIN F[n]
              /\ Symbols(F[n], asked)
              /\ Strung(F[n].strtab, n) /\ F[n].strtab.entry_size = 0
           U == {n \in Nat : n <= N => \E asked : Good(n, asked)}
<1>1. N \in Nat /\ N # 0
  BY EmptySeq, LenProperties
<1>2. s = F[N]
  BY DEF LinkedSymbols
<1> HIDE DEF N, base, With
<1>3. 0 \in T
  <2> DEFINE g == [k \in 0..0 |-> base]
  <2>1. Rec(g, 0)
    OBVIOUS
  <2> QED
    BY <2>1
<1>4. ASSUME NEW n \in Nat, n \in T PROVE n + 1 \in T
  <2>1. PICK f : Rec(f, n)
    BY <1>4
  <2> DEFINE g == [k \in 0..(n + 1) |->
                     IF k = n + 1 THEN With(f[n], n + 1) ELSE f[k]]
  <2>2. Rec(g, n + 1)
    <3>1. \A k \in 0..n : f[k] = IF k = 0 THEN base ELSE With(f[k - 1], k)
      BY <2>1
    <3>2. \A k \in 0..(n + 1) : g[k] = IF k = 0 THEN base ELSE With(g[k - 1], k)
      BY <3>1
    <3> QED
      BY <3>2
  <2> HIDE DEF g
  <2> QED
    BY <2>2
<1>5. N \in T
  <2> HIDE DEF T
  <2> QED
    BY <1>1, <1>3, <1>4, UpTo
<1>6. Rec(F, N)
  <2>1. \E f : Rec(f, N)
    BY <1>5
  <2> QED
    BY <2>1
<1> HIDE DEF F
<1>7. 0 \in U
  <2>1. F[0] = base
    BY <1>1, <1>6
  <2>2. NoSymbols(base.strtab, base.symtab, <<>>, class)
    BY DEF base, NoSymbols
  <2>3. base.strtab.size = 0 /\ base.strtab.entry_size = 0
    BY DEF base, Empty
  <2>4. 0 <= 1 + 0 * (MaxString + 1)
    BY BoundsAssumption
  <2>5. {"strtab", "symtab"} \subseteq DOMAIN base
    BY DEF base
  <2>6. Good(0, <<>>)
    BY <2>1, <2>2, <2>3, <2>4, <2>5 DEF Symbols, Strung
  <2> QED
    BY <2>6
<1>8. ASSUME NEW n \in Nat, n \in U PROVE n + 1 \in U
  <2> SUFFICES ASSUME n + 1 <= N
               PROVE  \E asked : Good(n + 1, asked)
    OBVIOUS
  <2>1. PICK asked : Good(n, asked)
    BY <1>1, <1>8
  <2>2. F[n + 1] = WithSymbol(F[n], names[n + 1], 0, 0, 0)
    BY <1>1, <1>6 DEF With
  <2>3. names[n + 1] \in Names
    BY <1>1, ElementOfSeq DEF N
  <2> DEFINE now == Append(asked, Asked(names[n + 1], 0, 0, 0))
  <2> HIDE DEF N, F
  <2>9. now = Append(asked, Asked(names[n + 1], 0, 0, 0))
    OBVIOUS
  <2> HIDE DEF now
  <2>10. /\ WithOneMore(F[n + 1], now, F[n], asked, names[n + 1], 0, 0, 0)
         /\ Strung(F[n + 1].strtab, n + 1)
    <3>1. names[n + 1] \in Names \cup Strings /\ 0 \in Nat
      BY <2>3
    <3>2. /\ {"strtab", "symtab"} \subseteq DOMAIN F[n]
          /\ Symbols(F[n], asked) /\ Strung(F[n].strtab, n)
      BY <2>1
    <3> QED
      BY <2>2, <2>9, <3>1, <3>2, OneMoreSymbol, Zenon
  <2>4. /\ SymbolTable(F[n + 1].strtab, F[n + 1].symtab, now, class, need_conversion)
        /\ Len(now) = Len(asked) + 1
        /\ \A k \in 1..Len(asked) : now[k] = asked[k]
        /\ now[Len(asked) + 1] = Asked(names[n + 1], 0, 0, 0)
        /\ Strung(F[n + 1].strtab, n + 1)
        /\ F[n + 1].strtab.entry_size = F[n].strtab.entry_size
        /\ DOMAIN F[n + 1] = DOMAIN F[n]
    BY <2>10 DEF WithOneMore
  <2>5. \A k \in 1..(n + 1) : now[k] = Asked(names[k], 0, 0, 0)
    <3>1. \A k \in 1..(n + 1) : k \in 1..n \/ k = n + 1
      OBVIOUS
    <3> QED
      BY <2>1, <2>4, <3>1
  <2>6. Good(n + 1, now)
    BY <2>1, <2>4, <2>5 DEF Symbols
  <2> QED
    BY <2>6
<1>9. N \in U
  <2> HIDE DEF U
  <2> QED
    BY <1>1, <1>7, <1>8, UpTo
<1>10. PICK asked : Good(N, asked)
  BY <1>1, <1>9
<1>11. SymbolTable(s.strtab, s.symtab, asked, class, need_conversion)
  <2>1. asked # <<>>
    BY <1>1, <1>10
  <2> QED
    BY <1>2, <1>10, <2>1 DEF Symbols, NoSymbols
<1>12. asked = AskedSymbols(names)
  <2>1. asked \in Seq(Requests)
    BY <1>11 DEF SymbolTable
  <2>2. DOMAIN asked = 1..N /\ DOMAIN names = 1..N
    BY <1>10, <2>1, LenProperties DEF N
  <2>3. asked = [k \in 1..N |-> asked[k]]
    BY <2>1, <2>2
  <2> QED
    BY <1>10, <2>2, <2>3 DEF AskedSymbols
<1> QED
  BY <1>2, <1>10, <1>11, <1>12 DEF N
-----------------------------------------------------------------------------
(* Copying a dynamic section.                                              *)

Others(s, t) ==
    /\ DOMAIN t = DOMAIN s
    /\ \A name \in DOMAIN s \ {"dynstr", "dynamic1"} : t[name] = s[name]

(* The first n entries are copied.                                         *)
CopiedUpto(s, n, asked) ==
    /\ CopyTable(s.dynamic1, s.dynstr, asked, class, need_conversion)
    /\ Len(s.dynamic1.items) = n
    /\ Strung(s.dynstr, n) /\ s.dynstr.entry_size = 0
    /\ Others(sec, s)

LEMMA OneMoreCopied ==
    ASSUME Opened, NEW asked,
           DynTable(sec.dynamic, sec.strtab, asked, class, need_conversion),
           Len(asked) * (MaxString + 1) < Limit(4) - 1,
           {"dynstr", "dynamic1"} \subseteq DOMAIN sec,
           NEW n \in Nat, n + 1 <= Len(asked),
           NEW s, CopiedUpto(s, n, asked),
           NEW t, t = WithCopy(s, ReadAs(asked[n + 1], class, need_conversion))
    PROVE  CopiedUpto(t, n + 1, asked)
<1>1. /\ CopyTable(s.dynamic1, s.dynstr, asked, class, need_conversion)
      /\ Len(s.dynamic1.items) = n + 1 - 1
      /\ Strung(s.dynstr, n) /\ s.dynstr.entry_size = 0
      /\ Others(sec, s)
  BY DEF CopiedUpto
<1>2. StringTable(s.dynstr)
  BY <1>1 DEF CopyTable
<1>3. s.dynstr.size \in Nat /\ s.dynstr.size <= 1 + n * (MaxString + 1)
  BY <1>1, <1>2 DEF Strung, StringTable, Data, Section
<1>4. Len(asked) \in Nat
  BY LenProperties DEF DynTable
<1>5. s.dynstr.size < Limit(8)
  <2> DEFINE m == MaxString + 1
             L == Len(asked)
             x == Limit(4)
  <2>1. m \in Nat /\ x \in Nat \ {0} /\ L \in Nat
    BY <1>4, BoundsAssumption, Limits
  <2>2. Limit(8) = x * x
    BY Limits
  <2>3. L * m < x - 1 /\ s.dynstr.size <= 1 + n * m
    BY <1>3
  <2> HIDE DEF m, L, x
  <2>4. \A a \in Nat, b \in Nat, y \in Nat : a + 1 <= b => a * y <= b * y
    OBVIOUS
  <2>5. n * m <= L * m /\ n * m \in Nat /\ L * m \in Nat
    <3>1. n * m <= L * m
      BY <2>1, <2>4 DEF L
    <3> QED
      BY <2>1, <3>1
  <2>6. x <= x * x /\ x * x \in Nat
    BY <2>1
  <2> DEFINE a == n * m
             b == L * m
             y == x * x
             z == s.dynstr.size
  <2>7. /\ a \in Nat /\ b \in Nat /\ y \in Nat /\ z \in Nat /\ x \in Nat
        /\ z <= 1 + a /\ a <= b /\ b < x - 1 /\ x <= y
    BY <1>3, <2>1, <2>3, <2>5, <2>6
  <2> HIDE DEF a, b, y, z
  <2>8. z < y
    BY <2>7
  <2> QED
    BY <2>2, <2>8 DEF y, z
<1>6. n + 1 \in 1..Len(asked)
  BY <1>4
<1>7. {"dynstr", "dynamic1"} \subseteq DOMAIN s
  BY <1>1 DEF Others
<1>8. /\ CopyTable(t.dynamic1, t.dynstr, asked, class, need_conversion)
      /\ Len(t.dynamic1.items) = n + 1
      /\ t.dynamic1.entry_size = s.dynamic1.entry_size
      /\ \/ t.dynstr = s.dynstr
         \/ /\ t.dynstr.entry_size = s.dynstr.entry_size
            /\ t.dynstr.size <= StringPosition(s.dynstr) + MaxString + 1
      /\ DOMAIN t = DOMAIN s
      /\ \A name \in DOMAIN s \ {"dynstr", "dynamic1"} : t[name] = s[name]
  BY <1>1, <1>5, <1>6, <1>7, Copied
<1>9. t.dynstr.size \in Nat
  BY <1>8 DEF CopyTable, StringTable, Data, Section
<1>10. Strung(t.dynstr, n + 1)
  <2>1. CASE t.dynstr = s.dynstr
    BY <1>1, <1>2, <2>1, StringsStrung
  <2>2. CASE t.dynstr.size <= StringPosition(s.dynstr) + MaxString + 1
    BY <1>1, <1>2, <1>9, <2>2, StringsStrung
  <2> QED
    BY <1>8, <2>1, <2>2
<1>11. Others(sec, t)
  BY <1>1, <1>8 DEF Others
<1> QED
  BY <1>1, <1>8, <1>10, <1>11 DEF CopiedUpto

LEMMA AllCopied ==
    ASSUME Opened, NEW asked,
           DynTable(sec.dynamic, sec.strtab, asked, class, need_conversion),
           sec.strtab.size <= Limit(4),
           Len(asked) * (MaxString + 1) < Limit(4) - 1,
           {"dynstr", "dynamic1"} \subseteq DOMAIN sec,
           CopiedUpto(sec, 0, asked)
    PROVE  CopiedUpto(WithCopies, Len(asked), asked)
<1> DEFINE N == get_entries_num(sec.dynamic)
           With(x, n) == WithCopy(x, get_dynamic(sec.dynamic, sec.strtab, n - 1))
           Rec(f, n) == f = [k \in 0..n |-> IF k = 0 THEN sec
                                            ELSE With(f[k - 1], k)]
           F == CHOOSE f : Rec(f, N)
           T == {n \in Nat : \E f : Rec(f, n)}
           U == {n \in Nat : n <= N => CopiedUpto(F[n], n, asked)}
<1>1. N = Len(asked) /\ N \in Nat
  <2>1. /\ sec.dynamic.entry_size = SizeOf(Dyn, class)
        /\ sec.dynamic.size = Len(asked) * SizeOf(Dyn, class)
        /\ asked \in Seq(DynRequests)
    BY DEF DynTable
  <2>2. Len(asked) \in Nat
    BY <2>1, LenProperties
  <2>3. SizeOf(Dyn, class) \in Nat \ {0}
    BY EntrySizes DEF Opened
  <2>4. \A a \in Nat, z \in Nat \ {0} : (a * z) \div z = a
    OBVIOUS
  <2>5. (Len(asked) * SizeOf(Dyn, class)) \div SizeOf(Dyn, class) = Len(asked)
    BY <2>2, <2>3, <2>4, Zenon
  <2>6. N = sec.dynamic.size \div sec.dynamic.entry_size
    <3>1. sec.dynamic.entry_size # 0
      BY <2>1, <2>3
    <3> QED
      BY <3>1, Zenon DEF get_entries_num
  <2>7. N = Len(asked)
    BY <2>1, <2>5, <2>6, Zenon
  <2> QED
    BY <2>2, <2>7, Zenon
<1>2. WithCopies = F[N]
  BY DEF WithCopies
<1> HIDE DEF N, With
<1>3. 0 \in T
  <2> DEFINE g == [k \in 0..0 |-> sec]
  <2>1. Rec(g, 0)
    OBVIOUS
  <2> QED
    BY <2>1
<1>4. ASSUME NEW n \in Nat, n \in T PROVE n + 1 \in T
  <2>1. PICK f : Rec(f, n)
    BY <1>4
  <2> DEFINE g == [k \in 0..(n + 1) |->
                     IF k = n + 1 THEN With(f[n], n + 1) ELSE f[k]]
  <2>2. Rec(g, n + 1)
    <3>1. \A k \in 0..n : f[k] = IF k = 0 THEN sec ELSE With(f[k - 1], k)
      BY <2>1
    <3>2. \A k \in 0..(n + 1) : g[k] = IF k = 0 THEN sec ELSE With(g[k - 1], k)
      BY <3>1
    <3> QED
      BY <3>2
  <2> HIDE DEF g
  <2> QED
    BY <2>2
<1>5. N \in T
  <2> HIDE DEF T
  <2> QED
    BY <1>1, <1>3, <1>4, UpTo
<1>6. Rec(F, N)
  <2>1. \E f : Rec(f, N)
    BY <1>5
  <2> QED
    BY <2>1
<1> HIDE DEF F
<1>7. 0 \in U
  BY <1>1, <1>6
<1>8. ASSUME NEW n \in Nat, n \in U PROVE n + 1 \in U
  <2> SUFFICES ASSUME n + 1 <= N PROVE CopiedUpto(F[n + 1], n + 1, asked)
    OBVIOUS
  <2>1. CopiedUpto(F[n], n, asked)
    BY <1>1, <1>8
  <2>2. F[n + 1] = With(F[n], n + 1)
    BY <1>1, <1>6
  <2>3. get_dynamic(sec.dynamic, sec.strtab, n + 1 - 1)
          = ReadAs(asked[n + 1], class, need_conversion)
    <3>1. n + 1 \in 1..Len(asked)
      BY <1>1
    <3> QED
      BY <3>1, DynamicRead
  <2>4. F[n + 1] = WithCopy(F[n], ReadAs(asked[n + 1], class, need_conversion))
    BY <2>2, <2>3 DEF With
  <2>5. n + 1 <= Len(asked)
    BY <1>1
  <2> QED
    BY <2>1, <2>4, <2>5, OneMoreCopied, Zenon
<1>9. N \in U
  <2> HIDE DEF U
  <2> QED
    BY <1>1, <1>7, <1>8, UpTo
<1> QED
  BY <1>1, <1>2, <1>9
-----------------------------------------------------------------------------
(* Notes.                                                                  *)

NoteItems ==
    [at : Nat, note : [namesz : Nat, descsz : Nat, type : Nat,
                       name : Strings, bytes : BOOLEAN]]
NoteRequests ==
    [type : {1}, name : Strings, descSize : {0, 6}, bytes : BOOLEAN]

(* What note r occupies, and what a reader who goes by its sizes expects.  *)
Bytes(r) == NoteSize(r.name, r.descSize, r.bytes)
Full(r) == 12 + Padded(StringSize(r.name) + 1) + Padded(r.descSize)

IsNote(e, r, need) ==
    /\ e.note.namesz = Kept(StringSize(r.name) + 1, 4, need)
    /\ e.note.descsz = Kept(r.descSize, 4, need)
    /\ e.note.type = Kept(r.type, 4, need) /\ e.note.name = r.name

(* One note follows the other.                                             *)
NoteTable(s, asked, need) ==
    /\ Data(s, NoteItems) /\ asked \in Seq(NoteRequests)
    /\ s.entry_size = 0 /\ Len(s.items) = Len(asked)
    /\ \A k \in 1..Len(asked) :
         /\ IsNote(s.items[k], asked[k], need)
         /\ s.items[k].at + Bytes(asked[k]) <= s.size
         /\ \A l \in 1..Len(asked) :
              k < l => s.items[k].at + Bytes(asked[k]) <= s.items[l].at
    /\ \A k \in 1..(Len(asked) - 1) :
         s.items[k + 1].at = s.items[k].at + Bytes(asked[k])
    /\ IF asked = <<>> THEN s.size = 0
       ELSE /\ s.items[1].at = 0
            /\ s.size = s.items[Len(asked)].at + Bytes(asked[Len(asked)])

LEMMA Paddings ==
    ASSUME NEW n \in Nat
    PROVE  /\ Padded(n) \in Nat /\ n <= Padded(n)
           /\ Padded(0) = 0 /\ Padded(6) = 8
<1>1. ((n + 3) \div 4) * 4 \in Nat /\ n <= ((n + 3) \div 4) * 4
  OBVIOUS
<1>2. ((0 + 3) \div 4) * 4 = 0 /\ ((6 + 3) \div 4) * 4 = 8
  OBVIOUS
<1> QED
  BY <1>1, <1>2 DEF Padded

LEMMA NoteBytes ==
    ASSUME NEW r \in NoteRequests
    PROVE  /\ Bytes(r) \in Nat /\ Full(r) \in Nat
           /\ 12 < Bytes(r) /\ 12 < Full(r)
           /\ Full(r) = IF Whole(r) THEN Bytes(r) ELSE Bytes(r) + 8
           /\ Whole(r) => StringSize(r.name) + 1 + r.descSize <= Bytes(r)
           /\ StringSize(r.name) \in Nat
<1> DEFINE n == StringSize(r.name) + 1
<1>1. StringSize(r.name) \in Nat /\ r.descSize \in {0, 6} /\ r.bytes \in BOOLEAN
  BY StringsAssumption, BoundsAssumption DEF NoteRequests
<1>2. n \in Nat \ {0}
  BY <1>1
<1> HIDE DEF n
<1>3. Padded(n) \in Nat /\ n <= Padded(n) /\ Padded(0) = 0 /\ Padded(6) = 8
  BY <1>2, Paddings
<1>4. Bytes(r) = 12 + Padded(n) + (IF r.bytes THEN Padded(r.descSize) ELSE 0)
  BY DEF Bytes, NoteSize, n
<1>5. Full(r) = 12 + Padded(n) + Padded(r.descSize)
  BY DEF Full, n
<1>6. Whole(r) <=> r.bytes \/ r.descSize = 0
  BY DEF Whole
<1>7. CASE r.descSize = 0
  BY <1>1, <1>2, <1>3, <1>4, <1>5, <1>6, <1>7 DEF n
<1>8. CASE r.descSize = 6
  BY <1>1, <1>2, <1>3, <1>4, <1>5, <1>6, <1>8 DEF n
<1> QED
  BY <1>1, <1>7, <1>8

(* The sizes of a note fit into a word.                                    *)
LEMMA NoteFits ==
    ASSUME NEW f \in Files, NEW r \in NoteRequests
    PROVE  /\ StringSize(r.name) + 1 \in Values(4)
           /\ r.descSize \in Values(4) /\ 1 \in Values(4)
<1> DEFINE most == Len(f.symbols) + MaxAdded + 1
           m == MaxString + 1
<1>1. f \in File
  BY FilesAssumption
<1>2. Len(f.symbols) \in Nat
  BY <1>1, LenProperties DEF File
<1>3. MaxAdded \in Nat /\ MaxString \in Nat /\ most * m < Limit(4)
  BY BoundsAssumption
<1>4. most \in Nat \ {0} /\ m \in Nat
  BY <1>2, <1>3
<1>5. StringSize(r.name) + 1 \in 0..m /\ r.descSize \in {0, 6}
  BY <1>3, StringsAssumption DEF NoteRequests
<1> HIDE DEF most, m
<1>6. m <= most * m /\ most * m \in Nat
  BY <1>4
<1>7. \A n \in Nat \ {0, 1} : n * n >= 4 /\ n * n \in Nat
  <2>1. \A n \in Nat \ {0, 1} : n * n >= 2 * n /\ n * n \in Nat
    OBVIOUS
  <2> QED
    BY <2>1
<1>8. \A n \in Nat : n >= 4 => n * n >= 16
  <2>1. \A n \in Nat : n >= 4 => n * n >= 4 * n
    OBVIOUS
  <2> QED
    BY <2>1
<1>9. Limit(2) >= 4 /\ Limit(2) \in Nat
  BY <1>7, Limits
<1>10. Limit(4) >= 16 /\ Limit(4) \in Nat
  BY <1>8, <1>9, Limits
<1> QED
  BY <1>3, <1>4, <1>5, <1>6, <1>10 DEF Values

LEMMA NoteSizesRead ==
    ASSUME Opened, NEW f \in Files, NEW r \in NoteRequests,
           NEW e, IsNote(e, r, need_conversion)
    PROVE  /\ Fetched(e.note.namesz, "Word") = StringSize(r.name) + 1
           /\ Fetched(e.note.descsz, "Word") = r.descSize
           /\ Fetched(e.note.type, "Word") = 1
<1>1. /\ StringSize(r.name) + 1 \in Values(4)
      /\ r.descSize \in Values(4) /\ 1 \in Values(4)
  BY NoteFits
<1>2. \A v \in Values(4) : v \in Int /\ Narrow(v, 4) = v
  BY Narrowing DEF Widths, Values
<1>3. \A v \in Values(4) : Fetched(Kept(v, 4, need_conversion), "Word") = v
  BY <1>2, KeptIsFetched
<1>4. r.type = 1
  BY DEF NoteRequests
<1> QED
  BY <1>1, <1>3, <1>4 DEF IsNote

LEMMA NoteAdded ==
    ASSUME Opened, NEW s, NEW asked, NoteTable(s, asked, need_conversion),
           NEW name \in Strings, NEW n \in {0, 6}, NEW bytes \in BOOLEAN,
           NEW r, r = [type |-> 1, name |-> name, descSize |-> n,
                       bytes |-> bytes]
    PROVE  NoteTable(add_note(s, 1, name, n, bytes), Append(asked, r),
                     need_conversion)
<1> DEFINE item == [at |-> s.size, note |-> Note(1, name, n, bytes)]
           z == NoteSize(name, n, bytes)
           t == add_note(s, 1, name, n, bytes)
           now == Append(asked, r)
           L == Len(asked)
<1>1. /\ Data(s, NoteItems) /\ asked \in Seq(NoteRequests)
      /\ s.entry_size = 0 /\ Len(s.items) = L /\ L \in Nat /\ s.size \in Nat
  BY LenProperties DEF NoteTable, Data, Section
<1>2. r \in NoteRequests
  BY DEF NoteRequests
<1>3. z = Bytes(r) /\ z \in Nat
  BY <1>2, NoteBytes DEF Bytes
<1>4. StringSize(name) + 1 \in Int /\ n \in Int /\ 1 \in Int
  BY StringsAssumption, BoundsAssumption
<1>5. /\ item.note.namesz = Kept(StringSize(name) + 1, 4, need_conversion)
      /\ item.note.descsz = Kept(n, 4, need_conversion)
      /\ item.note.type = Kept(1, 4, need_conversion)
      /\ item.note.name = name /\ item.at = s.size
  BY <1>4, StoredIsKept DEF Note
<1>6. IsNote(item, r, need_conversion)
  BY <1>5 DEF IsNote
<1>7. item \in NoteItems
  BY <1>1, <1>4, StoredIsNatural DEF NoteItems, Note
<1>8. t = append_data(s, item, z)
  BY DEF add_note
<1>9. /\ now \in Seq(NoteRequests) /\ Len(now) = L + 1
      /\ \A k \in 1..L : now[k] = asked[k]
      /\ now[L + 1] = r
  BY <1>1, <1>2, AppendProperties
<1> HIDE DEF item, z, t, now, L
<1>10. Longer(t, s, item, z, NoteItems)
  BY <1>1, <1>3, <1>7, <1>8, AppendedLonger, Zenon
<1>11. /\ Data(t, NoteItems) /\ t.entry_size = 0 /\ t.size = s.size + z
       /\ Len(t.items) = L + 1
       /\ \A k \in 1..L : t.items[k] = s.items[k]
       /\ t.items[L + 1] = item
  BY <1>1, <1>10 DEF Longer
<1>12. /\ \A k \in 1..L : asked[k] \in NoteRequests /\ s.items[k] \in NoteItems
       /\ \A k \in 1..L : Bytes(asked[k]) \in Nat /\ s.items[k].at \in Nat
  <2>1. \A k \in 1..L : asked[k] \in NoteRequests /\ s.items[k] \in NoteItems
    BY <1>1, ElementOfSeq DEF Data, Section, L
  <2>2. \A e \in NoteItems : e.at \in Nat
    BY DEF NoteItems
  <2> QED
    BY <2>1, <2>2, NoteBytes
<1>13. /\ \A k \in 1..L :
            /\ IsNote(s.items[k], asked[k], need_conversion)
            /\ s.items[k].at + Bytes(asked[k]) <= s.size
            /\ \A l \in 1..L :
                 k < l => s.items[k].at + Bytes(asked[k]) <= s.items[l].at
       /\ \A k \in 1..(L - 1) :
            s.items[k + 1].at = s.items[k].at + Bytes(asked[k])
       /\ IF L = 0 THEN s.size = 0
          ELSE /\ s.items[1].at = 0
               /\ s.size = s.items[L].at + Bytes(asked[L])
  BY <1>1, EmptySeq DEF NoteTable, L
<1>14. \A k \in 1..(L + 1) : k \in 1..L \/ k = L + 1
  BY <1>1
<1>15. ASSUME NEW k \in 1..(L + 1)
       PROVE  /\ IsNote(t.items[k], now[k], need_conversion)
              /\ t.items[k].at + Bytes(now[k]) <= t.size
              /\ \A l \in 1..(L + 1) :
                   k < l => t.items[k].at + Bytes(now[k]) <= t.items[l].at
  <2>1. CASE k = L + 1
    <3>1. t.items[k] = item /\ now[k] = r /\ \A l \in 1..(L + 1) : ~(k < l)
      BY <1>1, <1>9, <1>11, <2>1
    <3>2. t.items[k].at + Bytes(now[k]) <= t.size
      BY <1>1, <1>3, <1>5, <1>11, <3>1
    <3> QED
      BY <1>6, <3>1, <3>2
  <2>2. CASE k \in 1..L
    <3>1. t.items[k] = s.items[k] /\ now[k] = asked[k]
      BY <1>9, <1>11, <2>2
    <3>2. t.items[k].at + Bytes(now[k]) <= s.size
      BY <1>13, <2>2, <3>1
    <3>3. t.items[k].at + Bytes(now[k]) <= t.size
      <4>1. t.items[k].at \in Nat /\ Bytes(now[k]) \in Nat
        BY <1>12, <2>2, <3>1
      <4>2. s.size \in Nat /\ z \in Nat /\ t.size = s.size + z
        BY <1>1, <1>3, <1>11
      <4>3. \A a, b, c, d \in Nat : a + b <= c => a + b <= c + d
        OBVIOUS
      <4> QED
        BY <3>2, <4>1, <4>2, <4>3
    <3>4. ASSUME NEW l \in 1..(L + 1), k < l
          PROVE  t.items[k].at + Bytes(now[k]) <= t.items[l].at
      <4>1. CASE l \in 1..L
        BY <1>11, <1>13, <2>2, <3>1, <3>4, <4>1
      <4>2. CASE l = L + 1
        BY <1>5, <1>11, <3>2, <4>2
      <4> QED
        BY <1>14, <4>1, <4>2
    <3> QED
      BY <1>13, <2>2, <3>1, <3>3, <3>4
  <2> QED
    BY <1>14, <2>1, <2>2
<1>16. ASSUME NEW k \in 1..L
       PROVE  t.items[k + 1].at = t.items[k].at + Bytes(now[k])
  <2>1. t.items[k] = s.items[k] /\ now[k] = asked[k]
    BY <1>9, <1>11
  <2>2. CASE k = L
    BY <1>5, <1>1, <1>11, <1>13, <2>1, <2>2
  <2>3. CASE k # L
    <3>1. k \in 1..(L - 1) /\ k + 1 \in 1..L
      BY <1>1, <2>3
    <3> QED
      BY <1>11, <1>13, <2>1, <3>1
  <2> QED
    BY <2>2, <2>3
<1>17. t.items[1].at = 0
  <2>1. CASE L = 0
    BY <1>5, <1>11, <1>13, <2>1
  <2>2. CASE L # 0
    <3>1. 1 \in 1..L
      BY <1>1, <2>2
    <3> QED
      BY <1>11, <1>13, <2>2, <3>1
  <2> QED
    BY <2>1, <2>2
<1>18. t.size = t.items[L + 1].at + Bytes(now[L + 1])
  BY <1>3, <1>5, <1>9, <1>11
<1>19. now # <<>> /\ L + 1 - 1 = L
  BY <1>1, <1>9
<1>20. Len(t.items) = Len(now) /\ Len(now) = L + 1
  BY <1>9, <1>11
<1>21. NoteTable(t, now, need_conversion)
  <2>1. \A k \in 1..Len(now) :
          /\ IsNote(t.items[k], now[k], need_conversion)
          /\ t.items[k].at + Bytes(now[k]) <= t.size
          /\ \A l \in 1..Len(now) :
               k < l => t.items[k].at + Bytes(now[k]) <= t.items[l].at
    BY <1>15, <1>20, Zenon
  <2>2. \A k \in 1..(Len(now) - 1) :
          t.items[k + 1].at = t.items[k].at + Bytes(now[k])
    <3>1. Len(now) - 1 = L
      <4>1. L \in Nat /\ Len(now) = L + 1
        BY <1>1, <1>20
      <4> QED
        BY <4>1
    <3> QED
      BY <1>16, <3>1, Zenon
  <2>3. t.size = t.items[Len(now)].at + Bytes(now[Len(now)])
    BY <1>18, <1>20, Zenon
  <2> QED
    BY <1>9, <1>11, <1>17, <1>19, <1>20, <2>1, <2>2, <2>3, Zenon DEF NoteTable
<1> QED
  BY <1>21 DEF t, now

LEMMA NoNotes ==
    ASSUME NEW s, s = Empty(0), NEW need
    PROVE  NoteTable(s, <<>>, need)
<1>1. Data(s, NoteItems) /\ s.entry_size = 0 /\ s.size = 0 /\ Len(s.items) = 0
  BY Fresh
<1>2. Len(<<>>) = 0 /\ <<>> \in Seq(NoteRequests)
  OBVIOUS
<1> QED
  BY <1>1, <1>2 DEF NoteTable
-----------------------------------------------------------------------------
(* Finding the notes.                                                      *)

LEMMA OneBefore ==
    ASSUME NEW x \in Int, NEW t \in Seq(Int)
    PROVE  /\ <<x>> \o t \in Seq(Int) /\ Len(<<x>> \o t) = Len(t) + 1
           /\ (<<x>> \o t)[1] = x
           /\ \A j \in 1..Len(t) : (<<x>> \o t)[j + 1] = t[j]
<1> DEFINE s == <<x>>
<1>1. s \in Seq(Int) /\ Len(s) = 1 /\ s[1] = x
  OBVIOUS
<1>2. Len(t) \in Nat
  BY LenProperties
<1> HIDE DEF s
<1>3. /\ s \o t \in Seq(Int) /\ Len(s \o t) = Len(s) + Len(t)
      /\ \A k \in 1..(Len(s) + Len(t)) :
           (s \o t)[k] = IF k <= Len(s) THEN s[k] ELSE t[k - Len(s)]
  BY <1>1, ConcatProperties
<1>4. (s \o t)[1] = x
  BY <1>1, <1>2, <1>3
<1>5. ASSUME NEW j \in 1..Len(t) PROVE (s \o t)[j + 1] = t[j]
  <2>1. j + 1 \in 1..(Len(s) + Len(t)) /\ ~(j + 1 <= Len(s))
        /\ j + 1 - Len(s) = j
    BY <1>1, <1>2
  <2> QED
    BY <1>3, <2>1
<1> QED
  BY <1>1, <1>2, <1>3, <1>4, <1>5 DEF s

(* The notes that are found, from the last one back to the first.          *)
LEMMA NotesFound ==
    ASSUME Opened, NEW f \in Files, NEW s, NEW asked,
           NoteTable(s, asked, need_conversion)
    PROVE  process_section(s) = StartsOf(s)
             <=> \A k \in 1..(Len(asked) - 1) : Whole(asked[k])
<1> DEFINE N == s.size
           L == Len(asked)
           Place(k) == s.items[k].at
           At(p) == {e \in {s.items[k] : k \in DOMAIN s.items} : e.at = p}
           Beyond(e) == e.at + 12 + Padded(Fetched(e.note.namesz, "Word"))
                                  + Padded(Fetched(e.note.descsz, "Word"))
           Q(p) == Beyond(CHOOSE e \in At(p) : TRUE)
           Body(p, x) == IF p + 12 > N THEN <<>>
                         ELSE IF At(p) = {} THEN <<Wild>>
                         ELSE <<p>> \o IF Q(p) + 12 > N THEN <<>> ELSE x
           F == CHOOSE g : g = [p \in 0..N |-> Body(p, g[Q(p)])]
<1>1. process_section(s) = F[0]
  BY DEF process_section
<1>2. /\ Data(s, NoteItems) /\ asked \in Seq(NoteRequests)
      /\ N \in Nat /\ L \in Nat /\ s.items \in Seq(NoteItems)
      /\ DOMAIN s.items = 1..L /\ Len(s.items) = L
  BY LenProperties DEF NoteTable, Data, Section
<1>3. /\ \A k \in 1..L :
           /\ IsNote(s.items[k], asked[k], need_conversion)
           /\ Place(k) + Bytes(asked[k]) <= N
           /\ \A l \in 1..L : k < l => Place(k) + Bytes(asked[k]) <= Place(l)
      /\ \A k \in 1..(L - 1) : Place(k + 1) = Place(k) + Bytes(asked[k])
      /\ L = 0 => N = 0
      /\ L # 0 => Place(1) = 0 /\ N = Place(L) + Bytes(asked[L])
  BY EmptySeq DEF NoteTable
<1>4. \A k \in 1..L :
         /\ asked[k] \in NoteRequests /\ Place(k) \in Nat
         /\ Bytes(asked[k]) \in Nat /\ Full(asked[k]) \in Nat
         /\ 12 < Bytes(asked[k]) /\ 12 < Full(asked[k])
         /\ Full(asked[k]) = IF Whole(asked[k]) THEN Bytes(asked[k])
                             ELSE Bytes(asked[k]) + 8
  <2>1. \A k \in 1..L : asked[k] \in NoteRequests /\ s.items[k] \in NoteItems
    BY <1>2, ElementOfSeq
  <2>2. \A e \in NoteItems : e.at \in Nat
    BY DEF NoteItems
  <2> QED
    BY <2>1, <2>2, NoteBytes
<1>5. \A k \in 1..L : Beyond(s.items[k]) = Place(k) + Full(asked[k])
  <2> TAKE k \in 1..L
  <2>1. /\ Fetched(s.items[k].note.namesz, "Word")
             = StringSize(asked[k].name) + 1
        /\ Fetched(s.items[k].note.descsz, "Word") = asked[k].descSize
    BY <1>3, <1>4, NoteSizesRead
  <2>2. /\ StringSize(asked[k].name) + 1 \in Nat /\ asked[k].descSize \in Nat
    BY <1>4, StringsAssumption, BoundsAssumption DEF NoteRequests
  <2>3. /\ Padded(StringSize(asked[k].name) + 1) \in Nat
        /\ Padded(asked[k].descSize) \in Nat
    BY <2>2, Paddings
  <2>4. Beyond(s.items[k]) = Place(k) + 12
                              + Padded(StringSize(asked[k].name) + 1)
                              + Padded(asked[k].descSize)
    BY <2>1
  <2> HIDE DEF Beyond, Place
  <2>5. \A a, b, c, d \in Nat : a + d + b + c = a + (d + b + c)
    OBVIOUS
  <2>6. Place(k) \in Nat /\ 12 \in Nat
    BY <1>4
  <2>7. Place(k) + 12 + Padded(StringSize(asked[k].name) + 1)
          + Padded(asked[k].descSize) = Place(k) + Full(asked[k])
    BY <2>3, <2>5, <2>6 DEF Full
  <2> QED
    BY <2>4, <2>7
<1>6. \A p : At(p) # {} =>
         \E k \in 1..L : p = Place(k) /\ Q(p) = Place(k) + Full(asked[k])
  <2> TAKE p
  <2> HAVE At(p) # {}
  <2>1. (CHOOSE e \in At(p) : TRUE) \in At(p)
    OBVIOUS
  <2>2. PICK k \in 1..L : /\ (CHOOSE e \in At(p) : TRUE) = s.items[k]
                          /\ s.items[k].at = p
    BY <1>2, <2>1
  <2> HIDE DEF Beyond, At
  <2>3. Q(p) = Place(k) + Full(asked[k])
    BY <1>5, <2>2
  <2> QED
    BY <2>2, <2>3
<1>7. \A k \in 1..L : At(Place(k)) # {}
  BY <1>2
<1> HIDE DEF N, L, Place, At, Q
<1>8. \A k \in 1..L : Q(Place(k)) = Place(k) + Full(asked[k])
  <2> TAKE k \in 1..L
  <2>1. PICK l \in 1..L : /\ Place(k) = Place(l)
                          /\ Q(Place(k)) = Place(l) + Full(asked[l])
    BY <1>6, <1>7
  <2>2. \A a, b \in 1..L : a < b => Place(a) < Place(b)
    BY <1>3, <1>4
  <2>3. ~(k < l) /\ ~(l < k)
    BY <1>4, <2>1, <2>2
  <2>4. k = l
    BY <1>2, <2>3
  <2> QED
    BY <2>1, <2>4
(* The walk goes on behind p, or it does not go on.                        *)
<1>9. \A p \in 0..N : \/ \A x, y : Body(p, x) = Body(p, y)
                      \/ Q(p) \in (p + 1)..N
  <2> TAKE p \in 0..N
  <2>1. CASE At(p) # {} /\ ~(Q(p) + 12 > N)
    <3>1. PICK k \in 1..L : p = Place(k) /\ Q(p) = Place(k) + Full(asked[k])
      BY <1>6, <2>1
    <3>2. p \in Nat /\ Full(asked[k]) \in Nat /\ 12 < Full(asked[k]) /\ N \in Nat
      BY <1>2, <1>4, <3>1
    <3>3. Q(p) = p + Full(asked[k])
      BY <3>1
    <3>4. Q(p) \in (p + 1)..N
      BY <2>1, <3>2, <3>3
    <3> QED
      BY <3>4
  <2>2. CASE At(p) = {} \/ Q(p) + 12 > N
    BY <2>2
  <2> QED
    BY <2>1, <2>2
<1>10. \A p \in 0..N, x \in Seq(Int) : Body(p, x) \in Seq(Int)
  <2> TAKE p \in 0..N, x \in Seq(Int)
  <2>1. <<>> \in Seq(Int) /\ <<Wild>> \in Seq(Int)
    BY DEF Wild
  <2>2. <<p>> \o x \in Seq(Int) /\ <<p>> \o <<>> \in Seq(Int)
    BY <1>2, <2>1, OneBefore
  <2> QED
    BY <2>1, <2>2
<1> HIDE DEF Body
<1> DEFINE T == {n \in Nat : \E g : /\ DOMAIN g = 0..N
                                    /\ \A p \in 0..N : N - p < n =>
                                         g[p] = Body(p, g[Q(p)])}
<1>11. 0 \in T
  <2> DEFINE g == [p \in 0..N |-> <<>>]
  <2>1. DOMAIN g = 0..N /\ \A p \in 0..N : ~(N - p < 0)
    BY <1>2
  <2> HIDE DEF g
  <2> QED
    BY <2>1
<1>12. ASSUME NEW n \in Nat, n \in T PROVE n + 1 \in T
  <2>1. PICK g : /\ DOMAIN g = 0..N
                 /\ \A p \in 0..N : N - p < n => g[p] = Body(p, g[Q(p)])
    BY <1>12
  <2> DEFINE h == [p \in 0..N |-> IF p = N - n THEN Body(p, g[Q(p)]) ELSE g[p]]
  <2>2. ASSUME NEW p \in 0..N, N - p < n + 1
        PROVE  h[p] = Body(p, h[Q(p)])
    <3>1. h[p] = Body(p, g[Q(p)])
      <4>1. CASE p = N - n
        BY <4>1
      <4>2. CASE p # N - n
        <5>1. N - p < n
          BY <1>2, <2>2, <4>2
        <5> QED
          BY <2>1, <4>2, <5>1
      <4> QED
        BY <4>1, <4>2
    <3>2. CASE Q(p) \in (p + 1)..N
      <4>1. Q(p) \in 0..N /\ Q(p) # N - n
        BY <1>2, <2>2, <3>2
      <4>2. h[Q(p)] = g[Q(p)]
        BY <4>1
      <4> QED
        BY <3>1, <4>2
    <3>3. CASE \A x, y : Body(p, x) = Body(p, y)
      <4> HIDE DEF h
      <4> QED
        BY <3>1, <3>3
    <3> QED
      BY <1>9, <3>2, <3>3
  <2>3. DOMAIN h = 0..N
    OBVIOUS
  <2> HIDE DEF h
  <2>4. \E g1 : /\ DOMAIN g1 = 0..N
               /\ \A p \in 0..N : N - p < n + 1 => g1[p] = Body(p, g1[Q(p)])
    BY <2>2, <2>3
  <2>5. n + 1 \in Nat
    OBVIOUS
  <2> QED
    BY <2>4, <2>5
<1>13. N + 1 \in T
  <2> HIDE DEF T
  <2> QED
    BY <1>2, <1>11, <1>12, UpTo
<1>14. F = [p \in 0..N |-> Body(p, F[Q(p)])]
  <2>1. PICK g : /\ DOMAIN g = 0..N
                 /\ \A p \in 0..N : N - p < N + 1 => g[p] = Body(p, g[Q(p)])
    BY <1>13
  <2>2. \A p \in 0..N : N - p < N + 1
    BY <1>2
  <2> DEFINE h == [p \in 0..N |-> g[p]]
  <2>3. h = [p \in 0..N |-> Body(p, h[Q(p)])]
    <3>1. ASSUME NEW p \in 0..N PROVE g[p] = Body(p, h[Q(p)])
      <4>1. g[p] = Body(p, g[Q(p)])
        BY <2>1, <2>2
      <4>2. CASE Q(p) \in (p + 1)..N
        <5>1. Q(p) \in 0..N
          BY <1>2, <4>2
        <5> QED
          BY <4>1, <5>1
      <4>3. CASE \A x, y : Body(p, x) = Body(p, y)
        <5> HIDE DEF h
        <5> QED
          BY <4>1, <4>3
      <4> QED
        BY <1>9, <4>2, <4>3
    <3>2. h = [p \in 0..N |-> g[p]]
      OBVIOUS
    <3> HIDE DEF h
    <3> QED
      BY <3>1, <3>2
  <2> HIDE DEF h
  <2>4. \E g1 : g1 = [p \in 0..N |-> Body(p, g1[Q(p)])]
    BY <2>3
  <2> QED
    BY <2>4
<1> HIDE DEF F
<1>15. \A p \in 0..N : F[p] = Body(p, F[Q(p)])
  BY <1>14
<1> DEFINE V == {n \in Nat : \A p \in 0..N : N - p < n => F[p] \in Seq(Int)}
<1>16. 0 \in V
  <2>1. \A p \in 0..N : ~(N - p < 0)
    BY <1>2
  <2> QED
    BY <2>1
<1>17. ASSUME NEW n \in Nat, n \in V PROVE n + 1 \in V
  <2> SUFFICES ASSUME NEW p \in 0..N, N - p < n + 1 PROVE F[p] \in Seq(Int)
    OBVIOUS
  <2>1. CASE Q(p) \in (p + 1)..N
    <3>1. Q(p) \in 0..N /\ N - Q(p) < n
      BY <1>2, <2>1
    <3>2. F[Q(p)] \in Seq(Int)
      BY <1>17, <3>1
    <3> QED
      BY <1>10, <1>15, <3>2
  <2>2. CASE \A x, y : Body(p, x) = Body(p, y)
    <3>1. F[p] = Body(p, <<>>) /\ <<>> \in Seq(Int)
      BY <1>15, <2>2
    <3> QED
      BY <1>10, <3>1
  <2> QED
    BY <1>9, <2>1, <2>2
<1>18. \A p \in 0..N : F[p] \in Seq(Int)
  <2>1. N + 1 \in V
    <3> HIDE DEF V
    <3> QED
      BY <1>2, <1>16, <1>17, UpTo
  <2>2. \A p \in 0..N : N - p < N + 1
    BY <1>2
  <2> QED
    BY <2>1, <2>2
<1> HIDE DEF T, V
<1>18a. ASSUME NEW k \in 1..L PROVE Place(k) \in 0..N /\ Place(k) + 12 <= N
  <2> DEFINE a == Place(k)
             b == Bytes(asked[k])
  <2>1. a + b <= N
    BY <1>3
  <2>2. a \in Nat /\ b \in Nat /\ 12 < b
    BY <1>4
  <2>3. N \in Nat
    BY <1>2
  <2> HIDE DEF a, b
  <2>4. a \in 0..N /\ a + 12 <= N
    BY <2>1, <2>2, <2>3
  <2> QED
    BY <2>4 DEF a
(* What is found from the k-th note on.                                    *)
<1>19. ASSUME NEW k \in 1..L
       PROVE  LET q == Place(k) + Full(asked[k])
              IN  /\ Place(k) \in 0..N
                  /\ F[Place(k)] = <<Place(k)>> \o IF q + 12 > N THEN <<>> ELSE F[q]
                  /\ q \in Nat
  <2>1. Place(k) \in 0..N /\ ~(Place(k) + 12 > N)
    BY <1>2, <1>18a
  <2>2. F[Place(k)] = Body(Place(k), F[Place(k) + Full(asked[k])])
    BY <1>8, <1>15, <2>1
  <2>3. Place(k) + Full(asked[k]) \in Nat
    BY <1>4
  <2> QED
    BY <1>7, <1>8, <2>1, <2>2, <2>3 DEF Body
<1> DEFINE Match(k) == /\ Len(F[Place(k)]) = L - k + 1
                       /\ \A j \in 1..(L - k + 1) :
                            F[Place(k)][j] = Place(k + j - 1)
           AllWhole(k) == \A j \in k..(L - 1) : Whole(asked[j])
           U == {n \in Nat : \A k \in 1..L : L - k < n => (Match(k) <=> AllWhole(k))}
<1>20. 0 \in U
  <2>1. \A k \in 1..L : ~(L - k < 0)
    BY <1>2
  <2> HIDE DEF Match, AllWhole
  <2> QED
    BY <2>1
<1>21. \A k \in 1..L : Place(k) + 12 <= N /\ (k < L => Place(k + 1) + 12 <= N)
  <2>1. \A k \in 1..L : Place(k) + 12 <= N
    BY <1>18a
  <2> QED
    BY <1>2, <2>1
(* The last note is found, whatever its description.                       *)
<1>22. L # 0 => Match(L) /\ AllWhole(L)
  <2> SUFFICES ASSUME L # 0 PROVE Match(L) /\ AllWhole(L)
    OBVIOUS
  <2>1. L \in 1..L /\ L - L + 1 = 1
    BY <1>2
  <2>2. Place(L) + Full(asked[L]) + 12 > N
    <3>1. N = Place(L) + Bytes(asked[L])
      BY <1>3
    <3>2. /\ Place(L) \in Nat /\ Bytes(asked[L]) \in Nat
          /\ Full(asked[L]) = Bytes(asked[L]) \/ Full(asked[L]) = Bytes(asked[L]) + 8
      BY <1>4, <2>1
    <3> QED
      BY <1>2, <3>1, <3>2
  <2>3. F[Place(L)] = <<Place(L)>> \o <<>> /\ Place(L) \in Int
    <3>1. F[Place(L)] = <<Place(L)>> \o IF Place(L) + Full(asked[L]) + 12 > N
                                        THEN <<>>
                                        ELSE F[Place(L) + Full(asked[L])]
      BY <1>19, <2>1
    <3>2. Place(L) \in Nat
      BY <1>4, <2>1
    <3> QED
      BY <2>2, <3>1, <3>2
  <2>4. Len(F[Place(L)]) = 1 /\ F[Place(L)][1] = Place(L)
    BY <2>3, OneBefore
  <2>5. Match(L)
    <3>1. \A j \in 1..1 : j = 1 /\ L + j - 1 = L
      BY <1>2
    <3> QED
      BY <2>1, <2>4, <3>1
  <2>6. AllWhole(L)
    BY <1>2
  <2> QED
    BY <2>5, <2>6
(* A whole note leads to the next one.                                     *)
<1>23. ASSUME NEW k \in 1..L, k < L, Whole(asked[k])
       PROVE  Match(k) <=> Match(k + 1)
  <2>1. Place(k) + Full(asked[k]) = Place(k + 1) /\ k + 1 \in 1..L
        /\ ~(Place(k + 1) + 12 > N) /\ Place(k) \in Int
        /\ Place(k + 1) \in 0..N
    <3>1. k + 1 \in 1..L /\ k \in 1..(L - 1)
      BY <1>2, <1>23
    <3>2. Place(k + 1) = Place(k) + Bytes(asked[k])
      BY <1>3, <3>1
    <3>3. /\ Full(asked[k]) = Bytes(asked[k]) /\ Place(k) \in Nat
          /\ Place(k + 1) \in Nat
      BY <1>4, <1>23, <3>1
    <3>4. Place(k + 1) + 12 <= N
      BY <1>21, <1>23
    <3> QED
      BY <1>2, <3>1, <3>2, <3>3, <3>4
  <2>2. F[Place(k)] = <<Place(k)>> \o F[Place(k + 1)]
    BY <1>19, <2>1
  <2>3. F[Place(k + 1)] \in Seq(Int)
    BY <1>18, <2>1
  <2>4. /\ Len(F[Place(k)]) = Len(F[Place(k + 1)]) + 1
        /\ F[Place(k)][1] = Place(k)
        /\ \A j \in 1..Len(F[Place(k + 1)]) :
              F[Place(k)][j + 1] = F[Place(k + 1)][j]
    BY <2>1, <2>2, <2>3, OneBefore
  <2>5. Len(F[Place(k + 1)]) \in Nat
    BY <2>3, LenProperties
  <2>6. ASSUME Match(k) PROVE Match(k + 1)
    <3>1. Len(F[Place(k + 1)]) = L - (k + 1) + 1
      <4>1. Len(F[Place(k)]) = L - k + 1
        BY <2>6
      <4> DEFINE a == Len(F[Place(k + 1)])
      <4>2. a \in Nat /\ a + 1 = L - k + 1 /\ k \in Nat /\ L \in Nat
        <5>1. Len(F[Place(k)]) = a + 1
          BY <2>4
        <5>2. a \in Nat
          BY <2>5
        <5>3. k \in Nat /\ L \in Nat
          BY <1>2
        <5> HIDE DEF a
        <5> QED
          BY <4>1, <5>1, <5>2, <5>3
      <4> HIDE DEF a
      <4>3. a = L - (k + 1) + 1
        BY <4>2
      <4> QED
        BY <4>3 DEF a
    <3>2. ASSUME NEW j \in 1..(L - (k + 1) + 1)
          PROVE  F[Place(k + 1)][j] = Place(k + 1 + j - 1)
      <4>1. j + 1 \in 1..(L - k + 1) /\ k + (j + 1) - 1 = k + 1 + j - 1
        BY <1>2
      <4>2. F[Place(k)][j + 1] = Place(k + (j + 1) - 1)
        BY <2>6, <4>1
      <4> QED
        BY <2>4, <3>1, <4>1, <4>2
    <3> QED
      BY <3>1, <3>2
  <2>7. ASSUME Match(k + 1) PROVE Match(k)
    <3>1. Len(F[Place(k)]) = L - k + 1
      BY <1>2, <2>4, <2>5, <2>7
    <3>2. ASSUME NEW j \in 1..(L - k + 1)
          PROVE  F[Place(k)][j] = Place(k + j - 1)
      <4>1. CASE j = 1
        <5>1. k + 1 - 1 = k
          OBVIOUS
        <5> QED
          BY <2>4, <4>1, <5>1
      <4>2. CASE j # 1
        <5>1. j - 1 \in 1..(L - (k + 1) + 1) /\ j - 1 + 1 = j
              /\ k + 1 + (j - 1) - 1 = k + j - 1
          BY <1>2, <4>2
        <5>2. F[Place(k + 1)][j - 1] = Place(k + 1 + (j - 1) - 1)
          BY <2>7, <5>1
        <5>3. j - 1 \in 1..Len(F[Place(k + 1)])
          BY <2>7, <5>1
        <5>4. F[Place(k)][j - 1 + 1] = F[Place(k + 1)][j - 1]
          BY <2>4, <5>3
        <5> QED
          BY <5>1, <5>2, <5>4
      <4> QED
        BY <4>1, <4>2
    <3> QED
      BY <3>1, <3>2
  <2> QED
    BY <2>6, <2>7
(* Behind any other note but the last the next one is missed.              *)
<1>24. ASSUME NEW k \in 1..L, k < L, ~Whole(asked[k])
       PROVE  ~Match(k)
  <2> DEFINE q == Place(k) + Full(asked[k])
  <2>1. q = Place(k + 1) + 8 /\ k + 1 \in 1..L /\ Place(k) \in Int
        /\ Place(k + 1) \in Nat
    <3>1. k \in 1..(L - 1) /\ k + 1 \in 1..L
      BY <1>2, <1>24
    <3>2. Place(k + 1) = Place(k) + Bytes(asked[k])
      BY <1>3, <3>1
    <3>3. /\ Place(k) \in Nat /\ Place(k + 1) \in Nat
          /\ Bytes(asked[k]) \in Nat
          /\ Full(asked[k]) = Bytes(asked[k]) + 8
      BY <1>4, <1>24, <3>1
    <3> QED
      BY <3>1, <3>2, <3>3
  <2>2. F[Place(k)] = <<Place(k)>> \o IF q + 12 > N THEN <<>> ELSE F[q]
    BY <1>19
  <2> HIDE DEF q
  <2>3. CASE q + 12 > N
    <3>1. F[Place(k)] = <<Place(k)>> \o <<>>
      BY <2>2, <2>3
    <3>2. Len(F[Place(k)]) = 1
      BY <2>1, <3>1, OneBefore
    <3> QED
      BY <1>2, <1>24, <3>2
  <2>4. CASE ~(q + 12 > N)
    <3>1. q \in 0..N
      BY <1>2, <2>1, <2>4
    <3>2. F[q] \in Seq(Int) /\ F[q] = Body(q, F[Q(q)])
      BY <1>15, <1>18, <3>1
    <3>3. Len(F[q]) # 0 /\ F[q][1] \in {Wild, q}
      <4>1. CASE At(q) = {}
        <5>1. F[q] = <<Wild>>
          BY <2>4, <3>2, <4>1 DEF Body
        <5> QED
          BY <5>1
      <4>2. CASE At(q) # {} /\ Q(q) + 12 > N
        <5>1. F[q] = <<q>> \o <<>>
          BY <2>4, <3>2, <4>2 DEF Body
        <5>2. q \in Int
          BY <3>1
        <5> QED
          BY <5>1, <5>2, OneBefore
      <4>3. CASE At(q) # {} /\ ~(Q(q) + 12 > N)
        <5>1. F[q] = <<q>> \o F[Q(q)]
          BY <2>4, <3>2, <4>3 DEF Body
        <5>2. PICK l \in 1..L : q = Place(l) /\ Q(q) = Place(l) + Full(asked[l])
          BY <1>6, <4>3
        <5>3. Q(q) \in 0..N /\ q \in Int
          <6>1. q \in Nat /\ Full(asked[l]) \in Nat /\ N \in Nat
            BY <1>2, <1>4, <5>2
          <6>2. Q(q) = q + Full(asked[l]) /\ Q(q) + 12 <= N
            <7>1. Q(q) = q + Full(asked[l])
              BY <5>2
            <7> QED
              BY <4>3, <6>1, <7>1
          <6> QED
            BY <6>1, <6>2
        <5>4. F[Q(q)] \in Seq(Int)
          BY <1>18, <5>3
        <5>5. Len(F[Q(q)]) \in Nat
          BY <5>4, LenProperties
        <5>6. Len(F[q]) = Len(F[Q(q)]) + 1 /\ F[q][1] = q
          BY <5>1, <5>3, <5>4, OneBefore
        <5> QED
          BY <5>5, <5>6
      <4> QED
        BY <4>1, <4>2, <4>3
    <3>4. F[Place(k)] = <<Place(k)>> \o F[q]
      BY <2>2, <2>4
    <3>5. Len(F[q]) \in Nat
      BY <3>2, LenProperties
    <3>6. F[Place(k)][1 + 1] = F[q][1]
      <4>1. 1 \in 1..Len(F[q])
        BY <3>3, <3>5
      <4> QED
        BY <2>1, <3>2, <3>4, <4>1, OneBefore
    <3>7. F[q][1] # Place(k + 1)
      BY <2>1, <3>3 DEF Wild
    <3>8. 2 \in 1..(L - k + 1) /\ k + 2 - 1 = k + 1 /\ 1 + 1 = 2
      BY <1>2, <1>24
    <3> QED
      BY <3>6, <3>7, <3>8
  <2> QED
    BY <2>3, <2>4
<1>25. ASSUME NEW n \in Nat, n \in U PROVE n + 1 \in U
  <2> SUFFICES ASSUME NEW k \in 1..L, L - k < n + 1
               PROVE  Match(k) <=> AllWhole(k)
    OBVIOUS
  <2> HIDE DEF Match
  <2>1. CASE k = L
    BY <1>2, <1>22, <2>1
  <2>2. CASE k # L
    <3>1. k < L /\ k + 1 \in 1..L /\ L - (k + 1) < n /\ k \in k..(L - 1)
      BY <1>2, <2>2
    <3>2. Match(k + 1) <=> AllWhole(k + 1)
      BY <1>25, <3>1
    <3>3. AllWhole(k) <=> Whole(asked[k]) /\ AllWhole(k + 1)
      <4>1. \A j \in k..(L - 1) : j = k \/ j \in (k + 1)..(L - 1)
        BY <1>2
      <4>2. \A j \in (k + 1)..(L - 1) : j \in k..(L - 1)
        BY <1>2
      <4> QED
        BY <3>1, <4>1, <4>2
    <3> HIDE DEF AllWhole
    <3> QED
      BY <1>23, <1>24, <3>1, <3>2, <3>3
  <2> QED
    BY <2>1, <2>2
<1>26. \A k \in 1..L : Match(k) <=> AllWhole(k)
  <2>1. L \in U
    <3> HIDE DEF U
    <3> QED
      BY <1>2, <1>20, <1>25, UpTo
  <2>2. \A k \in 1..L : L - k < L
    BY <1>2
  <2> HIDE DEF Match, AllWhole
  <2> QED
    BY <2>1, <2>2
<1> HIDE DEF U
<1>27. StartsOf(s) = [k \in 1..L |-> Place(k)]
  BY <1>2 DEF StartsOf, Place
<1>28. CASE L = 0
  <2>1. F[0] = <<>>
    <3>1. 0 \in 0..N /\ 0 + 12 > N
      BY <1>3, <1>28
    <3> QED
      BY <1>15, <3>1 DEF Body
  <2>2. StartsOf(s) = <<>>
    BY <1>27, <1>28
  <2>3. \A k \in 1..(L - 1) : Whole(asked[k])
    BY <1>28
  <2> QED
    BY <1>1, <2>1, <2>2, <2>3 DEF L
<1>29. CASE L # 0
  <2>1. Place(1) = 0 /\ 1 \in 1..L /\ L - 1 + 1 = L /\ 0 \in 0..N
    BY <1>2, <1>3, <1>29
  <2>2. F[0] \in Seq(Int) /\ DOMAIN F[0] = 1..Len(F[0])
    BY <1>18, <2>1, LenProperties
  <2>3. [k \in 1..L |-> Place(k)] \in Seq(Int)
        /\ Len([k \in 1..L |-> Place(k)]) = L
    BY <1>2, <1>4
  <2>4. Match(1) <=> F[0] = [k \in 1..L |-> Place(k)]
    <3>1. \A j \in 1..L : 1 + j - 1 = j
      BY <1>2
    <3>2. ASSUME Match(1) PROVE F[0] = [k \in 1..L |-> Place(k)]
      <4> DEFINE st == [k \in 1..L |-> Place(k)]
      <4>1. Len(F[0]) = L /\ \A j \in 1..L : F[0][j] = Place(j)
        BY <2>1, <3>1, <3>2
      <4>2. \A j \in 1..L : st[j] = Place(j)
        OBVIOUS
      <4>3. st \in Seq(Int) /\ Len(st) = L
        BY <2>3
      <4> HIDE DEF st
      <4>4. F[0] = st
        BY <2>2, <4>1, <4>2, <4>3, SeqEqual
      <4> QED
        BY <4>4 DEF st
    <3>3. ASSUME F[0] = [k \in 1..L |-> Place(k)] PROVE Match(1)
      <4>1. Len(F[0]) = L /\ \A j \in 1..L : F[0][j] = Place(j)
        BY <2>3, <3>3
      <4> QED
        BY <2>1, <3>1, <4>1
    <3> QED
      BY <3>2, <3>3
  <2>5. AllWhole(1) <=> \A k \in 1..(L - 1) : Whole(asked[k])
    OBVIOUS
  <2> HIDE DEF Match, AllWhole
  <2> QED
    BY <1>1, <1>26, <1>27, <2>1, <2>4, <2>5 DEF L
<1> QED
  BY <1>28, <1>29
-----------------------------------------------------------------------------
(* The hash table and the look-up.                                         *)

Behind(names, nbucket, k, b) ==
    {y \in DOMAIN names : y > k /\ Hash(names[y]) % nbucket = b}
Least(S) == IF S = {} THEN 0 ELSE CHOOSE y \in S : \A z \in S : y <= z

LEMMA LeastOf ==
    ASSUME NEW S, S \subseteq Nat
    PROVE  /\ S = {} => Least(S) = 0
           /\ S # {} => Least(S) \in S /\ \A z \in S : Least(S) <= z
           /\ Least(S) \in Nat
<1>1. CASE S = {}
  BY <1>1 DEF Least
<1>2. CASE S # {}
  <2>1. \E y \in S : \A z \in S : y <= z
    BY <1>2, LeastNatural
  <2>2. Least(S) \in S /\ \A z \in S : Least(S) <= z
    BY <1>2, <2>1 DEF Least
  <2> QED
    BY <1>2, <2>2
<1> QED
  BY <1>1, <1>2

(* The words of a hash table.                                              *)
IsTable(words, names, n) ==
    /\ words \in Seq(Nat)
    /\ DOMAIN words = 1..(3 + n + Len(names))
    /\ words[1] = n /\ words[2] = Len(names) + 1
    /\ \A b \in 0..(n - 1) : words[3 + b] = Least(Behind(names, n, 0, b))
    /\ \A y \in 1..Len(names) :
         words[3 + n + y] = Least(Behind(names, n, y, Hash(names[y]) % n))

IsJoin(t, s1, s2, n1, n2) ==
    /\ t \in Seq(Nat) /\ Len(t) = n1 + n2 /\ DOMAIN t = 1..(n1 + n2)
    /\ \A k \in 1..n1 : t[k] = s1[k]
    /\ \A k \in 1..n2 : t[n1 + k] = s2[k]

LEMMA Joined ==
    ASSUME NEW s1 \in Seq(Nat), NEW s2 \in Seq(Nat)
    PROVE  IsJoin(s1 \o s2, s1, s2, Len(s1), Len(s2))
<1> DEFINE n1 == Len(s1)
           n2 == Len(s2)
           t == s1 \o s2
<1>1. n1 \in Nat /\ n2 \in Nat
  BY LenProperties
<1>2. /\ t \in Seq(Nat) /\ Len(t) = n1 + n2
      /\ \A k \in 1..(n1 + n2) : t[k] = IF k <= n1 THEN s1[k] ELSE s2[k - n1]
  BY ConcatProperties
<1>3. DOMAIN t = 1..Len(t)
  BY <1>2, LenProperties
<1> HIDE DEF n1, n2, t
<1>4. ASSUME NEW k \in 1..n1 PROVE t[k] = s1[k]
  <2>1. k \in 1..(n1 + n2) /\ k <= n1
    BY <1>1
  <2> QED
    BY <1>2, <2>1
<1>5. ASSUME NEW k \in 1..n2 PROVE t[n1 + k] = s2[k]
  <2> DEFINE j == n1 + k
  <2>1. j \in 1..(n1 + n2) /\ ~(j <= n1) /\ j - n1 = k
    BY <1>1
  <2> HIDE DEF j
  <2>2. t[j] = s2[j - n1]
    BY <1>2, <2>1
  <2>3. t[j] = s2[k]
    BY <2>1, <2>2
  <2> QED
    BY <2>3 DEF j
<1> QED
  BY <1>2, <1>3, <1>4, <1>5 DEF IsJoin, n1, n2, t

LEMMA WordsOf ==
    ASSUME NEW S, NEW names \in Seq(S), NEW n \in Nat \ {0}
    PROVE  IsTable(HashWords(names, n), names, n)
<1> DEFINE L == Len(names)
           B(b) == Least(Behind(names, n, 0, b - 1))
           C(y) == Least(Behind(names, n, y, Hash(names[y]) % n))
           s1 == <<n, L + 1>>
           s2 == [b \in 1..n |-> B(b)]
           s3 == <<0>>
           s4 == [y \in 1..L |-> C(y)]
           words == HashWords(names, n)
<1>1. words = s1 \o s2 \o s3 \o s4
  BY DEF HashWords, Behind, Least
<1>2. L \in Nat /\ DOMAIN names = 1..L
  BY LenProperties
<1>3. \A k, b : Behind(names, n, k, b) \subseteq Nat
  BY <1>2 DEF Behind
<1>4. \A k : B(k) \in Nat /\ C(k) \in Nat
  BY <1>3, LeastOf
<1> HIDE DEF L, B, C, words
<1>5. s1 \in Seq(Nat) /\ Len(s1) = 2 /\ s1[1] = n /\ s1[2] = L + 1
  BY <1>2
<1>6. s2 \in Seq(Nat) /\ Len(s2) = n /\ \A b \in 1..n : s2[b] = B(b)
  BY <1>4
<1>7. s3 \in Seq(Nat) /\ Len(s3) = 1
  OBVIOUS
<1>8. s4 \in Seq(Nat) /\ Len(s4) = L /\ \A y \in 1..L : s4[y] = C(y)
  BY <1>2, <1>4
<1> HIDE DEF s1, s2, s3, s4
<1> DEFINE t2 == s1 \o s2
           t3 == t2 \o s3
           t4 == t3 \o s4
<1>9. IsJoin(t2, s1, s2, 2, n)
  BY <1>5, <1>6, Joined
<1>10. t2 \in Seq(Nat) /\ Len(t2) = 2 + n
  BY <1>9 DEF IsJoin
<1> HIDE DEF t2
<1>11. IsJoin(t3, t2, s3, 2 + n, 1)
  BY <1>7, <1>10, Joined
<1>12. t3 \in Seq(Nat) /\ Len(t3) = 2 + n + 1
  BY <1>11 DEF IsJoin
<1> HIDE DEF t3
<1>13. IsJoin(t4, t3, s4, 2 + n + 1, L)
  BY <1>8, <1>12, Joined
<1>14. words = t4
  BY <1>1 DEF t3, t2
<1> HIDE DEF t4
<1>15. 2 + n + 1 + L = 3 + n + L /\ 2 + n + 1 = 3 + n
  BY <1>2
<1>16. DOMAIN words = 1..(3 + n + L)
  BY <1>13, <1>14, <1>15 DEF IsJoin
<1>17. \A k \in 1..(2 + n) : words[k] = t2[k]
  <2> TAKE k \in 1..(2 + n)
  <2>1. k \in 1..(2 + n + 1)
    OBVIOUS
  <2>2. t4[k] = t3[k]
    BY <1>13, <2>1 DEF IsJoin
  <2>3. t3[k] = t2[k]
    BY <1>11 DEF IsJoin
  <2> QED
    BY <1>14, <2>2, <2>3
<1>18. words[1] = n /\ words[2] = L + 1
  <2>1. 1 \in 1..(2 + n) /\ 2 \in 1..(2 + n) /\ 1 \in 1..2 /\ 2 \in 1..2
    OBVIOUS
  <2>2. t2[1] = s1[1] /\ t2[2] = s1[2]
    BY <1>9, <2>1 DEF IsJoin
  <2> QED
    BY <1>5, <1>17, <2>1, <2>2
<1>19. ASSUME NEW b \in 0..(n - 1)
       PROVE  words[3 + b] = Least(Behind(names, n, 0, b))
  <2>1. b + 1 \in 1..n /\ 3 + b \in 1..(2 + n) /\ 2 + (b + 1) = 3 + b
        /\ b + 1 - 1 = b
    OBVIOUS
  <2>2. t2[2 + (b + 1)] = s2[b + 1]
    BY <1>9, <2>1 DEF IsJoin
  <2>3. words[3 + b] = B(b + 1)
    BY <1>6, <1>17, <2>1, <2>2
  <2> QED
    BY <2>1, <2>3 DEF B
<1>20. ASSUME NEW y \in 1..L PROVE words[3 + n + y] = C(y)
  <2>1. t4[2 + n + 1 + y] = s4[y]
    BY <1>13 DEF IsJoin
  <2>2. t4[3 + n + y] = s4[y]
    BY <1>15, <2>1
  <2> QED
    BY <1>8, <1>14, <2>2
<1>21. words \in Seq(Nat)
  BY <1>13, <1>14 DEF IsJoin
<1> QED
  BY <1>16, <1>18, <1>19, <1>20, <1>21 DEF IsTable, words, L, C

(* The linker's symbols come first.                                        *)
Begins(names, asked) ==
    /\ Len(names) <= Len(asked)
    /\ \A k \in 1..Len(names) : asked[k].name = names[k]

LEMMA NamesFound ==
    ASSUME Opened, ~need_conversion, links # <<>>, Head(links) = "hash",
           NEW f \in Files, hash = HashWords(f.symbols, f.nbucket),
           NEW asked,
           SymbolTable(sec.strtab, sec.symtab, asked, class, need_conversion),
           sec.strtab.size <= Limit(4), Begins(f.symbols, asked),
           NEW name \in Strings, NEW found, found = get_symbol_by_name(name)
    PROVE  /\ (\E k \in 1..Len(f.symbols) : asked[k].name = name)
                <=> found \in 1..Len(f.symbols)
           /\ found \in 1..Len(f.symbols) => get_symbol(found).name = name
           /\ found # Wild
<1> DEFINE names == f.symbols
           n == f.nbucket
           L == Len(names)
           M == Len(asked)
           m == get_entries_num(sec.symtab)
           Nm(y) == get_symbol(y).name
           Succ(y) == HashWord(3 + HashWord(1) + y)
           first == HashWord(3 + (Hash(name) % HashWord(1)))
           Body(y, g) == IF Nm(y) = name THEN y
                         ELSE IF y = 0 \/ y >= HashWord(2) THEN NotFound
                         ELSE IF Succ(y) \in 0..(m - 1) THEN g[Succ(y)]
                         ELSE Wild
           F == CHOOSE g : g = [y \in 0..(m - 1) |-> Body(y, g)]
<1>1. found = IF find_hash_section = "none" THEN NotFound
              ELSE IF HashWord(1) \in {0, Wild} THEN Wild
              ELSE IF first \in 0..(m - 1) THEN F[first] ELSE Wild
  BY DEF get_symbol_by_name
<1>2. find_hash_section = "hash"
  BY DEF find_hash_section
<1>3. names \in Seq(Names) /\ n \in Nat \ {0} /\ L \in Nat /\ DOMAIN names = 1..L
  <2>1. f \in File
    BY FilesAssumption
  <2>2. names \in Seq(Names) /\ n \in Nat \ {0}
    BY <2>1 DEF File
  <2> QED
    BY <2>2, LenProperties
<1>4. /\ asked \in Seq(Requests) /\ M \in Nat /\ L <= M
      /\ m = M + 1 /\ m - 1 = M
  <2>1. /\ asked \in Seq(Requests)
        /\ sec.symtab.entry_size = SizeOf(Sym, class)
        /\ sec.symtab.size = (M + 1) * SizeOf(Sym, class)
    BY DEF SymbolTable
  <2>2. M \in Nat
    BY <2>1, LenProperties
  <2>3. SizeOf(Sym, class) \in Nat \ {0}
    BY EntrySizes DEF Opened
  <2>4. \A a \in Nat, z \in Nat \ {0} : ((a + 1) * z) \div z = a + 1
    OBVIOUS
  <2>5. m = M + 1
    BY <2>1, <2>2, <2>3, <2>4 DEF get_entries_num
  <2> HIDE DEF m
  <2> QED
    BY <2>1, <2>2, <2>5 DEF Begins
<1>5. Nm(0) # name /\ \A y \in 1..M : Nm(y) = asked[y].name
  BY NullRead, SymbolRead, StringsAssumption
<1>6. \A y \in 1..L : Nm(y) = names[y] /\ names[y] \in Names
  BY <1>3, <1>4, <1>5, ElementOfSeq DEF Begins
<1>7. /\ DOMAIN hash = 1..(3 + n + L) /\ hash[1] = n /\ hash[2] = L + 1
      /\ \A b \in 0..(n - 1) : hash[3 + b] = Least(Behind(names, n, 0, b))
      /\ \A y \in 1..L : hash[3 + n + y]
                           = Least(Behind(names, n, y, Hash(names[y]) % n))
  <2>1. IsTable(hash, names, n)
    BY <1>3, WordsOf, Zenon
  <2> QED
    BY <2>1 DEF IsTable
<1> HIDE DEF names, n, L, M, m, Nm
<1>8. HashWord(1) = n /\ HashWord(2) = L + 1 /\ n # Wild /\ n # 0
  <2>1. 1 \in DOMAIN hash /\ 2 \in DOMAIN hash
    BY <1>3, <1>7
  <2> QED
    BY <1>2, <1>3, <1>7, <2>1 DEF HashWord, Wild
<1>9. \A str \in Names \cup Strings : Hash(str) % n \in 0..(n - 1)
  <2>1. \A v \in Nat : v % n \in 0..(n - 1)
    BY <1>3
  <2> QED
    BY <2>1, StringsAssumption
<1>10. first = Least(Behind(names, n, 0, Hash(name) % n))
  <2> DEFINE b == Hash(name) % n
  <2>1. b \in 0..(n - 1)
    BY <1>9
  <2> HIDE DEF b
  <2>2. 3 + b \in DOMAIN hash /\ hash[3 + b] = Least(Behind(names, n, 0, b))
    BY <1>3, <1>7, <2>1
  <2>3. first = HashWord(3 + b)
    BY <1>8 DEF b
  <2> HIDE DEF first
  <2> QED
    BY <1>2, <2>2, <2>3 DEF HashWord, b
<1>11. \A y \in 1..L : Succ(y) = Least(Behind(names, n, y, Hash(names[y]) % n))
  <2> TAKE y \in 1..L
  <2>1. 3 + n + y \in DOMAIN hash
    BY <1>3, <1>7
  <2>2. Succ(y) = HashWord(3 + n + y)
    BY <1>8
  <2> HIDE DEF Succ
  <2> QED
    BY <1>2, <1>7, <2>1, <2>2 DEF HashWord
<1>12. \A k, b : Behind(names, n, k, b) \subseteq 1..L
  BY <1>3 DEF Behind
<1>13. \A k, b : LET x == Least(Behind(names, n, k, b))
                 IN  /\ x \in 0..L
                     /\ x = 0 => Behind(names, n, k, b) = {}
                     /\ x # 0 => /\ x \in Behind(names, n, k, b)
                                 /\ \A z \in Behind(names, n, k, b) : x <= z
  <2> TAKE k, b
  <2> DEFINE S == Behind(names, n, k, b)
  <2>1. S \subseteq 1..L
    BY <1>12
  <2> HIDE DEF S
  <2>2. S \subseteq Nat
    BY <1>3, <2>1
  <2>3. /\ S = {} => Least(S) = 0
        /\ S # {} => Least(S) \in S /\ \A z \in S : Least(S) <= z
    BY <2>2, LeastOf
  <2>4. Least(S) \in 0..L /\ (S # {} => Least(S) # 0)
    <3>1. CASE S = {}
      BY <1>3, <2>3, <3>1
    <3>2. CASE S # {}
      <4>1. Least(S) \in 1..L
        BY <2>1, <2>3, <3>2
      <4> QED
        BY <1>3, <4>1
    <3> QED
      BY <3>1, <3>2
  <2> QED
    BY <2>3, <2>4 DEF S
<1>14. first \in 0..M /\ found = F[first]
  <2>1. first \in 0..M
    BY <1>3, <1>4, <1>10, <1>13
  <2> HIDE DEF F, first
  <2> QED
    BY <1>1, <1>2, <1>4, <1>8, <2>1
<1> HIDE DEF first, Succ
(* The symbols of y's bucket from y on that have the name.                 *)
<1> DEFINE Same(y) == {z \in 1..L : /\ z >= y /\ names[z] = name
                                    /\ Hash(names[z]) % n = Hash(names[y]) % n}
           Sol(y) == IF y \in 1..L
                     THEN IF Same(y) = {} THEN NotFound ELSE Least(Same(y))
                     ELSE IF Nm(y) = name THEN y ELSE NotFound
<1>15. \A y \in 1..L : Same(y) # {} => /\ Least(Same(y)) \in Same(y)
                                       /\ \A z \in Same(y) : Least(Same(y)) <= z
  <2> TAKE y \in 1..L
  <2>1. Same(y) \subseteq Nat
    BY <1>3
  <2> HIDE DEF Same
  <2> QED
    BY <2>1, LeastOf
(* Where the chain goes on it is still there, where it ends it is not.     *)
<1>16. ASSUME NEW y \in 1..L, names[y] # name
       PROVE  /\ Succ(y) \in 0..L
              /\ Succ(y) = 0 => Same(y) = {}
              /\ Succ(y) # 0 => /\ Succ(y) \in (y + 1)..L
                                /\ Same(y) = Same(Succ(y))
  <2> DEFINE b == Hash(names[y]) % n
             x == Succ(y)
  <2>1. /\ x \in 0..L
        /\ x = 0 => Behind(names, n, y, b) = {}
        /\ x # 0 => /\ x \in Behind(names, n, y, b)
                    /\ \A z \in Behind(names, n, y, b) : x <= z
    BY <1>11, <1>13
  <2>2. \A z : z \in Behind(names, n, y, b) <=>
                 z \in 1..L /\ z > y /\ Hash(names[z]) % n = b
    BY <1>3 DEF Behind
  <2>3. \A z \in Same(y) : z \in Behind(names, n, y, b)
    <3> TAKE z \in Same(y)
    <3>1. z \in 1..L /\ z # y /\ z >= y /\ Hash(names[z]) % n = b
      BY <1>16
    <3>2. z > y
      BY <1>3, <3>1
    <3> QED
      BY <2>2, <3>1, <3>2
  <2> HIDE DEF x
  <2>4. CASE x = 0
    BY <2>1, <2>3, <2>4 DEF x
  <2>5. CASE x # 0
    <3>1. x \in 1..L /\ x > y /\ Hash(names[x]) % n = b
      BY <2>1, <2>2, <2>5
    <3>2. \A z : z \in Same(y) <=> z \in Same(x)
      <4>1. ASSUME NEW z \in Same(y) PROVE z \in Same(x)
        <5>1. x <= z
          BY <2>1, <2>3, <2>5
        <5>2. z \in 1..L /\ names[z] = name /\ Hash(names[z]) % n = b
          OBVIOUS
        <5>3. z >= x
          BY <1>3, <3>1, <5>1, <5>2
        <5> QED
          BY <3>1, <5>2, <5>3
      <4>2. ASSUME NEW z \in Same(x) PROVE z \in Same(y)
        <5>1. /\ z \in 1..L /\ names[z] = name /\ z >= x
              /\ Hash(names[z]) % n = b
          BY <3>1
        <5>2. z >= y
          BY <1>3, <3>1, <5>1
        <5> QED
          BY <5>1, <5>2
      <4> HIDE DEF Same
      <4> QED
        BY <4>1, <4>2
    <3>3. x \in (y + 1)..L
      BY <1>3, <3>1
    <3>4. Same(y) = Same(x)
      <4> HIDE DEF Same
      <4> QED
        BY <3>2
    <3> QED
      BY <2>1, <2>5, <3>3, <3>4 DEF x
  <2> QED
    BY <2>4, <2>5
<1>17. ASSUME NEW y \in 1..L, names[y] = name
       PROVE  Same(y) # {} /\ Least(Same(y)) = y
  <2>1. y \in Same(y) /\ \A z \in Same(y) : z \in 1..L /\ y <= z
    BY <1>3, <1>17
  <2>2. Least(Same(y)) \in Same(y) /\ Least(Same(y)) <= y
    <3> HIDE DEF Same
    <3> QED
      BY <1>15, <2>1
  <2>3. Least(Same(y)) \in 1..L /\ y <= Least(Same(y))
    <3> HIDE DEF Same
    <3> QED
      BY <2>1, <2>2
  <2> HIDE DEF Same
  <2> QED
    BY <1>3, <2>1, <2>2, <2>3
(* That is what the look-up finds.                                         *)
<1>18. ASSUME NEW g, \A y \in 0..M : g[y] = Sol(y)
       PROVE  \A y \in 0..M : Sol(y) = Body(y, g)
  <2> TAKE y \in 0..M
  <2>1. CASE y \in 1..L /\ names[y] = name
    <3>1. Nm(y) = name
      BY <1>6, <2>1
    <3>2. Sol(y) = y
      BY <1>17, <2>1
    <3> QED
      BY <3>1, <3>2
  <2>2. CASE y \in 1..L /\ names[y] # name
    <3>1. Nm(y) # name /\ y # 0 /\ ~(y >= HashWord(2))
      BY <1>3, <1>6, <1>8, <2>2
    <3>2. Succ(y) \in 0..L
      BY <1>16, <2>2
    <3>3. Succ(y) \in 0..(m - 1) /\ Succ(y) \in 0..M
      BY <1>3, <1>4, <3>2
    <3>4. Body(y, g) = Sol(Succ(y))
      <4> HIDE DEF Sol
      <4> QED
        BY <1>18, <3>1, <3>3
    <3>5. Sol(Succ(y)) = Sol(y)
      <4>1. CASE Succ(y) = 0
        <5>1. Same(y) = {}
          BY <1>16, <2>2, <4>1
        <5>2. Sol(y) = NotFound
          BY <2>2, <5>1
        <5>3. Sol(0) = NotFound
          BY <1>5
        <5> QED
          BY <4>1, <5>2, <5>3
      <4>2. CASE Succ(y) # 0
        <5>1. Succ(y) \in 1..L /\ Same(y) = Same(Succ(y))
          BY <1>3, <1>16, <2>2, <4>2
        <5> HIDE DEF Same
        <5> QED
          BY <2>2, <5>1
      <4> QED
        BY <4>1, <4>2
    <3> QED
      BY <3>4, <3>5
  <2>3. CASE y \notin 1..L
    <3>1. y = 0 \/ y >= HashWord(2)
      BY <1>3, <1>8, <2>3
    <3> QED
      BY <2>3, <3>1
  <2> QED
    BY <2>1, <2>2, <2>3
<1> HIDE DEF Sol, Body
<1>19. F = [y \in 0..M |-> Body(y, F)]
  <2> DEFINE g == [y \in 0..M |-> Sol(y)]
  <2>1. \A y \in 0..M : g[y] = Sol(y)
    OBVIOUS
  <2>2. g = [y \in 0..M |-> Sol(y)]
    OBVIOUS
  <2> HIDE DEF g
  <2>3. \A y \in 0..M : Sol(y) = Body(y, g)
    BY <1>18, <2>1
  <2>4. g = [y \in 0..(m - 1) |-> Body(y, g)]
    BY <1>4, <2>2, <2>3
  <2>5. F = [y \in 0..(m - 1) |-> Body(y, F)]
    BY <2>4
  <2> HIDE DEF F
  <2> QED
    BY <1>4, <2>5
<1> HIDE DEF F
<1>20. \A y \in 0..M : F[y] = Body(y, F)
  BY <1>19
<1> DEFINE U == {k \in Nat : \A y \in 0..M : y = 0 \/ M - y < k => F[y] = Sol(y)}
<1>21. F[0] = Sol(0)
  <2>1. F[0] = NotFound
    <3>1. 0 \in 0..M
      BY <1>4
    <3> QED
      BY <1>5, <1>20, <3>1 DEF Body
  <2>2. Sol(0) = NotFound
    BY <1>5 DEF Sol
  <2> QED
    BY <2>1, <2>2
<1>22. 0 \in U
  <2>1. \A y \in 0..M : ~(M - y < 0)
    BY <1>4
  <2> QED
    BY <1>21, <2>1
<1>23. ASSUME NEW k \in Nat, k \in U PROVE k + 1 \in U
  <2> SUFFICES ASSUME NEW y \in 0..M, M - y < k + 1 PROVE F[y] = Sol(y)
    BY <1>21
  <2>1. F[y] = Body(y, F)
    BY <1>20
  <2>2. CASE y \in 1..L /\ names[y] = name
    <3>1. Nm(y) = name
      BY <1>6, <2>2
    <3>2. Sol(y) = y
      BY <1>17, <2>2 DEF Sol
    <3> QED
      BY <2>1, <3>1, <3>2 DEF Body
  <2>3. CASE y \in 1..L /\ names[y] # name
    <3>1. Nm(y) # name /\ y # 0 /\ ~(y >= HashWord(2))
      BY <1>3, <1>6, <1>8, <2>3
    <3>2. Succ(y) \in 0..L /\ (Succ(y) # 0 => Succ(y) \in (y + 1)..L)
      BY <1>16, <2>3
    <3>3. Succ(y) \in 0..(m - 1) /\ Succ(y) \in 0..M
      BY <1>3, <1>4, <3>2
    <3>4. F[y] = F[Succ(y)]
      BY <2>1, <3>1, <3>3 DEF Body
    <3>5. F[Succ(y)] = Sol(Succ(y))
      <4>1. CASE Succ(y) = 0
        BY <1>21, <4>1
      <4>2. CASE Succ(y) # 0
        <5>1. M - Succ(y) < k
          BY <1>3, <1>4, <3>2, <4>2
        <5> QED
          BY <1>23, <3>3, <5>1
      <4> QED
        BY <4>1, <4>2
    <3>6. Sol(Succ(y)) = Sol(y)
      <4>1. CASE Succ(y) = 0
        <5>1. Same(y) = {}
          BY <1>16, <2>3, <4>1
        <5>2. Sol(y) = NotFound
          BY <2>3, <5>1 DEF Sol
        <5>3. Sol(0) = NotFound
          BY <1>5 DEF Sol
        <5> QED
          BY <4>1, <5>2, <5>3
      <4>2. CASE Succ(y) # 0
        <5>1. Succ(y) \in 1..L /\ Same(y) = Same(Succ(y))
          BY <1>3, <1>16, <2>3, <4>2
        <5> HIDE DEF Same
        <5> QED
          BY <2>3, <5>1 DEF Sol
      <4> QED
        BY <4>1, <4>2
    <3> QED
      BY <3>4, <3>5, <3>6
  <2>4. CASE y \notin 1..L
    <3>1. y = 0 \/ y >= HashWord(2)
      BY <1>3, <1>8, <2>4
    <3> QED
      BY <2>1, <2>4, <3>1 DEF Body, Sol
  <2> QED
    BY <2>2, <2>3, <2>4
<1>24. found = Sol(first)
  <2>1. M + 1 \in U
    <3> HIDE DEF U
    <3>1. M + 1 \in Nat
      BY <1>4
    <3> QED
      BY <1>22, <1>23, <3>1, UpTo
  <2>2. \A y \in 0..M : M - y < M + 1
    BY <1>4
  <2> QED
    BY <1>14, <2>1, <2>2
<1> HIDE DEF U
<1> DEFINE There == \E k \in 1..L : names[k] = name
<1>25. CASE There
  <2>1. PICK k \in 1..L : names[k] = name
    BY <1>25
  <2>2. k \in Behind(names, n, 0, Hash(name) % n)
    BY <1>3, <2>1 DEF Behind
  <2>3. first # 0 /\ first \in Behind(names, n, 0, Hash(name) % n) /\ first <= k
    BY <1>10, <1>13, <2>2
  <2>4. first \in 1..L /\ Hash(names[first]) % n = Hash(name) % n
    BY <1>3, <2>3 DEF Behind
  <2>5. k \in Same(first)
    BY <1>3, <2>1, <2>3, <2>4
  <2>6. found = Least(Same(first))
    BY <1>24, <2>4, <2>5 DEF Sol
  <2>7. found \in Same(first)
    <3> HIDE DEF Same
    <3> QED
      BY <1>15, <2>4, <2>5, <2>6
  <2>8. found \in 1..L /\ names[found] = name
    BY <2>7
  <2> QED
    BY <1>3, <1>6, <1>25, <2>8 DEF Wild, L, names, Nm, Begins
<1>26. CASE ~There
  <2>1. CASE first \in 1..L
    <3>1. Same(first) = {}
      BY <1>26
    <3>2. found = NotFound
      BY <1>24, <2>1, <3>1 DEF Sol
    <3> QED
      BY <1>3, <1>26, <3>2 DEF Wild, NotFound, L, names, Begins
  <2>2. CASE first \notin 1..L
    <3>1. first = 0
      BY <1>3, <1>10, <1>13, <2>2
    <3>2. found = NotFound
      BY <1>5, <1>24, <2>2, <3>1 DEF Sol
    <3> QED
      BY <1>3, <1>26, <3>2 DEF Wild, NotFound, L, names, Begins
  <2> QED
    BY <2>1, <2>2
<1> QED
  BY <1>25, <1>26

-----------------------------------------------------------------------------
(* The invariant: every table of the file holds what was asked for.        *)

SectionNames == {"strtab", "symtab", "rel", "rela", "dynamic", "dynamic1",
                 "dynstr", "note"}
Histories == {"linked", "symbols", "rel", "rela", "dynamic", "note"}

Tables(s, a, c, need) ==
    /\ DOMAIN s = SectionNames /\ DOMAIN a = Histories
    /\ SymbolTable(s.strtab, s.symtab, a.symbols, c, need)
    /\ RelTable(s.rel, a.rel, Len(a.symbols), c, need)
    /\ RelaTable(s.rela, a.rela, Len(a.symbols), c, need)
    /\ DynTable(s.dynamic, s.strtab, a.dynamic, c, need)
    /\ CopyTable(s.dynamic1, s.dynstr, a.dynamic, c, need)
    /\ NoteTable(s.note, a.note, need)
    /\ Strung(s.strtab, Len(a.symbols) + Len(a.dynamic))
    /\ Strung(s.dynstr, Len(s.dynamic1.items)) /\ s.dynstr.entry_size = 0

(* File f was opened, and no more than MaxAdded items were added to it.    *)
Opens(f, a) ==
    /\ class = f.class /\ need_conversion = f.need_conversion
    /\ links = f.links /\ segs = f.segs
    /\ ~need_conversion => hash = HashWords(f.symbols, f.nbucket)
    /\ a.linked = Len(f.symbols) /\ Begins(f.symbols, a.symbols)
    /\ Len(a.symbols) + Len(a.dynamic) <= Len(f.symbols) + MaxAdded

TableInv ==
    \E f \in Files : /\ Opens(f, added)
                     /\ Tables(sec, added, class, need_conversion)

(* How far a dump has come, and what it has shown by then.                 *)
Reading(n) == [k \in 1..n |-> [type |-> added.note[k].type,
                               name |-> added.note[k].name,
                               descSize |-> added.note[k].descSize]]
AllWhole == \A k \in DOMAIN added.note : Whole(added.note[k])
EndMark(k) == added.dynamic[k].tag = DT_NULL \/ Swapped(class, need_conversion)
Entries == {ReadAs(added.dynamic[k], class, need_conversion) :
               k \in 1..Len(added.dynamic)}

BySymbols == {"symbols", "notes", "dynamic", "data", "segdata", "dumped"}
ByNotes == BySymbols \ {"symbols"}
ByDynamic == ByNotes \ {"notes"}
ByData == ByDynamic \ {"dynamic"}

DumpInv ==
    /\ DOMAIN shown = {"headers", "segments", "segdata", "symbols", "notes",
                       "dynamic", "data"}
    /\ pc \in BySymbols \cup {"build", "headers", "segments", "listed"}
    /\ pc \in BySymbols \cup {"headers", "segments"} =>
          note_start_positions = process_section(sec.note)
    /\ pc \in BySymbols \cup {"segments"} => shown.headers = Headers
    /\ pc \in BySymbols => shown.segments = segs
    /\ pc \in {"build", "headers", "segments"} => shown.symbols = {}
    /\ pc = "symbols" =>
          /\ i \in 0..(Limit(2) - 1)
          /\ Len(added.symbols) + 1 < Limit(2) =>
                i <= Len(added.symbols) + 1 /\ shown.symbols = 0..(i - 1)
    /\ pc \in ByNotes \cup {"listed"} =>
          shown.symbols = 0..Len(added.symbols)
    /\ pc \in {"build", "headers", "segments", "symbols"} =>
          shown.notes = <<>>
    /\ pc = "notes" /\ AllWhole =>
          i \in 0..Len(added.note) /\ shown.notes = Reading(i)
    /\ pc \in ByDynamic /\ AllWhole => shown.notes = Reading(Len(added.note))
    /\ pc \in {"build", "headers", "segments", "symbols", "notes"} =>
          shown.dynamic = <<>>
    /\ pc = "dynamic" =>
          /\ i \in 0..Len(added.dynamic) /\ Len(shown.dynamic) = i
          /\ shown.dynamic \in Seq(Entries)
          /\ \A k \in 1..i : ~EndMark(k)
    /\ pc \in ByData =>
          \A k \in 1..Len(added.dynamic) :
             k > Len(shown.dynamic) <=> \E l \in 1..(k - 1) : EndMark(l)
    /\ pc = "dumped" =>
          \A k \in DOMAIN segs : shown.segdata[k] <= segs[k].filesz

(* The lengths that the tables go by.                                      *)
LEMMA Lengths ==
    ASSUME NEW s, NEW a, NEW c, NEW need, Tables(s, a, c, need)
    PROVE  /\ Len(a.symbols) \in Nat \ {0} /\ a.symbols \in Seq(Requests)
           /\ Len(a.rel) \in Nat /\ a.rel \in Seq(Wanted)
           /\ Len(a.rela) \in Nat /\ a.rela \in Seq(Wanted)
           /\ Len(a.dynamic) \in Nat /\ a.dynamic \in Seq(DynRequests)
           /\ Len(a.note) \in Nat /\ a.note \in Seq(NoteRequests)
           /\ Len(s.dynamic1.items) \in Nat
           /\ Len(s.dynamic1.items) <= Len(a.dynamic)
<1>1. /\ a.symbols \in Seq(Requests) /\ a.symbols # <<>>
      /\ a.rel \in Seq(Wanted) /\ a.rela \in Seq(Wanted)
      /\ a.dynamic \in Seq(DynRequests) /\ a.note \in Seq(NoteRequests)
      /\ s.dynamic1.items \in Seq(DynItems)
      /\ Len(s.dynamic1.items) <= Len(a.dynamic)
  BY DEF Tables, SymbolTable, RelTable, RelaTable, DynTable, CopyTable,
         NoteTable, Data, Section
<1>2. Len(a.symbols) # 0
  BY <1>1, EmptySeq
<1> QED
  BY <1>1, <1>2, LenProperties

-----------------------------------------------------------------------------
(* What is added to one table leaves the others as they were.              *)

Plus(a, r) == [a EXCEPT !.symbols = Append(@, r)]

MoreSymbols(b, a) ==
    /\ Len(b.symbols) = Len(a.symbols) + 1
    /\ \A k \in 1..Len(a.symbols) : b.symbols[k] = a.symbols[k]
    /\ b.dynamic = a.dynamic /\ b.rel = a.rel /\ b.linked = a.linked

LEMMA SymbolStep ==
    ASSUME Opened, NEW s, NEW a, Tables(s, a, class, need_conversion),
           NEW str \in Strings, NEW value \in Nat, NEW size \in Nat,
           NEW info \in Nat
    PROVE  /\ Tables(WithSymbol(s, str, value, size, info),
                     Plus(a, Asked(str, value, size, info)),
                     class, need_conversion)
           /\ MoreSymbols(Plus(a, Asked(str, value, size, info)), a)
<1> DEFINE t == WithSymbol(s, str, value, size, info)
           b == Plus(a, Asked(str, value, size, info))
           now == Append(a.symbols, Asked(str, value, size, info))
           N == Len(a.symbols) + Len(a.dynamic)
<1>1. /\ DOMAIN s = SectionNames /\ DOMAIN a = Histories
      /\ SymbolTable(s.strtab, s.symtab, a.symbols, class, need_conversion)
      /\ RelTable(s.rel, a.rel, Len(a.symbols), class, need_conversion)
      /\ RelaTable(s.rela, a.rela, Len(a.symbols), class, need_conversion)
      /\ DynTable(s.dynamic, s.strtab, a.dynamic, class, need_conversion)
      /\ CopyTable(s.dynamic1, s.dynstr, a.dynamic, class, need_conversion)
      /\ NoteTable(s.note, a.note, need_conversion)
      /\ Strung(s.strtab, N)
      /\ Strung(s.dynstr, Len(s.dynamic1.items)) /\ s.dynstr.entry_size = 0
  BY DEF Tables
<1>2. Len(a.symbols) \in Nat \ {0} /\ Len(a.dynamic) \in Nat /\ N \in Nat
  <2>1. Len(a.symbols) \in Nat \ {0} /\ Len(a.dynamic) \in Nat
    BY Lengths, Zenon
  <2>2. \A l, m \in Nat : l + m \in Nat
    OBVIOUS
  <2> QED
    BY <2>1, <2>2, Zenon
<1>3. /\ DOMAIN b = Histories /\ b.symbols = now /\ b.rel = a.rel
      /\ b.rela = a.rela /\ b.dynamic = a.dynamic /\ b.note = a.note
      /\ b.linked = a.linked
  BY <1>1 DEF Histories, Plus
<1> HIDE DEF N, now, b
<1>4. /\ WithOneMore(t, now, s, a.symbols, str, value, size, info)
      /\ Strung(t.strtab, N + 1)
  <2>1. {"strtab", "symtab"} \subseteq DOMAIN s /\ Symbols(s, a.symbols)
    BY <1>1 DEF SectionNames, Symbols
  <2>2. str \in Names \cup Strings
    OBVIOUS
  <2>3. now = Append(a.symbols, Asked(str, value, size, info))
    BY DEF now
  <2> QED
    BY <1>1, <1>2, <2>1, <2>2, <2>3, OneMoreSymbol, Zenon
<1>5. /\ SymbolTable(t.strtab, t.symtab, now, class, need_conversion)
      /\ Len(now) = Len(a.symbols) + 1
      /\ \A k \in 1..Len(a.symbols) : now[k] = a.symbols[k]
      /\ \A at, old : Holds(s.strtab, at, old) => Holds(t.strtab, at, old)
      /\ DOMAIN t = SectionNames
      /\ t.rel = s.rel /\ t.rela = s.rela /\ t.dynamic = s.dynamic
      /\ t.dynamic1 = s.dynamic1 /\ t.dynstr = s.dynstr /\ t.note = s.note
  BY <1>1, <1>4 DEF WithOneMore, SectionNames
<1>6. /\ RelTable(t.rel, a.rel, Len(now), class, need_conversion)
      /\ RelaTable(t.rela, a.rela, Len(now), class, need_conversion)
  <2>1. Len(a.symbols) \in Nat /\ Len(now) \in Nat
        /\ Len(a.symbols) <= Len(now)
    BY <1>2, <1>5
  <2>2. /\ RelTable(s.rel, a.rel, Len(now), class, need_conversion)
        /\ RelaTable(s.rela, a.rela, Len(now), class, need_conversion)
    BY <1>1, <2>1, RelocationsStay, Zenon
  <2> QED
    BY <1>5, <2>2
<1>7. DynTable(t.dynamic, t.strtab, a.dynamic, class, need_conversion)
  <2>1. StringTable(t.strtab) /\ t.strtab.size > 0
    BY <1>5 DEF SymbolTable
  <2>2. DynTable(s.dynamic, t.strtab, a.dynamic, class, need_conversion)
    BY <1>1, <1>5, <2>1, StringsGrow, Zenon
  <2> QED
    BY <1>5, <2>2
<1>8. Strung(t.strtab, Len(now) + Len(a.dynamic))
  <2>1. \A l, m \in Nat : (l + 1) + m = (l + m) + 1
    OBVIOUS
  <2>2. Len(now) + Len(a.dynamic) = N + 1
    <3>1. Len(now) = Len(a.symbols) + 1
      BY <1>5
    <3>2. (Len(a.symbols) + 1) + Len(a.dynamic)
            = (Len(a.symbols) + Len(a.dynamic)) + 1
      <4>1. Len(a.symbols) \in Nat /\ Len(a.dynamic) \in Nat
        BY <1>2
      <4> QED
        BY <2>1, <4>1
    <3> QED
      BY <3>1, <3>2 DEF N
  <2> QED
    BY <1>4, <2>2
<1> HIDE DEF t
<1>9. Tables(t, b, class, need_conversion)
  BY <1>1, <1>3, <1>5, <1>6, <1>7, <1>8 DEF Tables
<1> QED
  BY <1>3, <1>5, <1>9 DEF MoreSymbols, t, b

LEMMA RelStep ==
    ASSUME Opened, NEW s, NEW a, Tables(s, a, class, need_conversion),
           Indexed(Len(a.symbols), class),
           NEW symbol \in 1..Len(a.symbols), NEW offset \in Nat,
           NEW type \in Values(1),
           NEW t, t = [s EXCEPT !.rel = add_rel(@, offset, symbol, type)],
           NEW b, b = [a EXCEPT !.rel =
                         Append(@, [symbol |-> symbol, offset |-> offset,
                                    type |-> type, addend |-> 0])]
    PROVE  Tables(t, b, class, need_conversion)
<1> DEFINE r == [symbol |-> symbol, offset |-> offset, type |-> type,
                 addend |-> 0]
<1>1. /\ DOMAIN s = SectionNames /\ DOMAIN a = Histories
      /\ SymbolTable(s.strtab, s.symtab, a.symbols, class, need_conversion)
      /\ RelTable(s.rel, a.rel, Len(a.symbols), class, need_conversion)
      /\ RelaTable(s.rela, a.rela, Len(a.symbols), class, need_conversion)
      /\ DynTable(s.dynamic, s.strtab, a.dynamic, class, need_conversion)
      /\ CopyTable(s.dynamic1, s.dynstr, a.dynamic, class, need_conversion)
      /\ NoteTable(s.note, a.note, need_conversion)
      /\ Strung(s.strtab, Len(a.symbols) + Len(a.dynamic))
      /\ Strung(s.dynstr, Len(s.dynamic1.items)) /\ s.dynstr.entry_size = 0
  BY DEF Tables
<1>2. /\ DOMAIN b = Histories /\ b.rel = Append(a.rel, r)
      /\ b.symbols = a.symbols /\ b.rela = a.rela /\ b.dynamic = a.dynamic
      /\ b.note = a.note
  BY <1>1 DEF Histories
<1>3. /\ DOMAIN t = SectionNames /\ t.rel = add_rel(s.rel, offset, symbol, type)
      /\ t.strtab = s.strtab /\ t.symtab = s.symtab /\ t.rela = s.rela
      /\ t.dynamic = s.dynamic /\ t.dynamic1 = s.dynamic1
      /\ t.dynstr = s.dynstr /\ t.note = s.note
  BY <1>1 DEF SectionNames
<1>4. r = [symbol |-> symbol, offset |-> offset, type |-> type, addend |-> 0]
  OBVIOUS
<1> HIDE DEF r
<1>5. RelTable(add_rel(s.rel, offset, symbol, type), Append(a.rel, r),
               Len(a.symbols), class, need_conversion)
  BY <1>1, <1>4, RelAdded, Zenon
<1> QED
  BY <1>1, <1>2, <1>3, <1>5 DEF Tables

LEMMA RelaStep ==
    ASSUME Opened, NEW s, NEW a, Tables(s, a, class, need_conversion),
           Indexed(Len(a.symbols), class),
           NEW symbol \in 1..Len(a.symbols), NEW offset \in Nat,
           NEW type \in Values(1), NEW addend \in Int,
           NEW t, t = [s EXCEPT !.rela =
                         add_rela(@, offset, symbol, type, addend)],
           NEW b, b = [a EXCEPT !.rela =
                         Append(@, [symbol |-> symbol, offset |-> offset,
                                    type |-> type, addend |-> addend])]
    PROVE  Tables(t, b, class, need_conversion)
<1> DEFINE r == [symbol |-> symbol, offset |-> offset, type |-> type,
                 addend |-> addend]
<1>1. /\ DOMAIN s = SectionNames /\ DOMAIN a = Histories
      /\ SymbolTable(s.strtab, s.symtab, a.symbols, class, need_conversion)
      /\ RelTable(s.rel, a.rel, Len(a.symbols), class, need_conversion)
      /\ RelaTable(s.rela, a.rela, Len(a.symbols), class, need_conversion)
      /\ DynTable(s.dynamic, s.strtab, a.dynamic, class, need_conversion)
      /\ CopyTable(s.dynamic1, s.dynstr, a.dynamic, class, need_conversion)
      /\ NoteTable(s.note, a.note, need_conversion)
      /\ Strung(s.strtab, Len(a.symbols) + Len(a.dynamic))
      /\ Strung(s.dynstr, Len(s.dynamic1.items)) /\ s.dynstr.entry_size = 0
  BY DEF Tables
<1>2. /\ DOMAIN b = Histories /\ b.rela = Append(a.rela, r)
      /\ b.symbols = a.symbols /\ b.rel = a.rel /\ b.dynamic = a.dynamic
      /\ b.note = a.note
  BY <1>1 DEF Histories
<1>3. /\ DOMAIN t = SectionNames
      /\ t.rela = add_rela(s.rela, offset, symbol, type, addend)
      /\ t.strtab = s.strtab /\ t.symtab = s.symtab /\ t.rel = s.rel
      /\ t.dynamic = s.dynamic /\ t.dynamic1 = s.dynamic1
      /\ t.dynstr = s.dynstr /\ t.note = s.note
  BY <1>1 DEF SectionNames
<1>4. r = [symbol |-> symbol, offset |-> offset, type |-> type,
           addend |-> addend]
  OBVIOUS
<1> HIDE DEF r
<1>5. RelaTable(add_rela(s.rela, offset, symbol, type, addend),
                Append(a.rela, r), Len(a.symbols), class, need_conversion)
  BY <1>1, <1>4, RelaAdded, Zenon
<1> QED
  BY <1>1, <1>2, <1>3, <1>5 DEF Tables

LEMMA NoteStep ==
    ASSUME Opened, NEW s, NEW a, Tables(s, a, class, need_conversion),
           NEW name \in Strings, NEW n \in {0, 6}, NEW bytes \in BOOLEAN,
           NEW t, t = [s EXCEPT !.note = add_note(@, 1, name, n, bytes)],
           NEW b, b = [a EXCEPT !.note =
                         Append(@, [type |-> 1, name |-> name, descSize |-> n,
                                    bytes |-> bytes])]
    PROVE  Tables(t, b, class, need_conversion)
<1> DEFINE r == [type |-> 1, name |-> name, descSize |-> n, bytes |-> bytes]
<1>1. /\ DOMAIN s = SectionNames /\ DOMAIN a = Histories
      /\ SymbolTable(s.strtab, s.symtab, a.symbols, class, need_conversion)
      /\ RelTable(s.rel, a.rel, Len(a.symbols), class, need_conversion)
      /\ RelaTable(s.rela, a.rela, Len(a.symbols), class, need_conversion)
      /\ DynTable(s.dynamic, s.strtab, a.dynamic, class, need_conversion)
      /\ CopyTable(s.dynamic1, s.dynstr, a.dynamic, class, need_conversion)
      /\ NoteTable(s.note, a.note, need_conversion)
      /\ Strung(s.strtab, Len(a.symbols) + Len(a.dynamic))
      /\ Strung(s.dynstr, Len(s.dynamic1.items)) /\ s.dynstr.entry_size = 0
  BY DEF Tables
<1>2. /\ DOMAIN b = Histories /\ b.note = Append(a.note, r)
      /\ b.symbols = a.symbols /\ b.rel = a.rel /\ b.dynamic = a.dynamic
      /\ b.rela = a.rela
  BY <1>1 DEF Histories
<1>3. /\ DOMAIN t = SectionNames
      /\ t.note = add_note(s.note, 1, name, n, bytes)
      /\ t.strtab = s.strtab /\ t.symtab = s.symtab /\ t.rel = s.rel
      /\ t.dynamic = s.dynamic /\ t.dynamic1 = s.dynamic1
      /\ t.dynstr = s.dynstr /\ t.rela = s.rela
  BY <1>1 DEF SectionNames
<1>4. r = [type |-> 1, name |-> name, descSize |-> n, bytes |-> bytes]
  OBVIOUS
<1> HIDE DEF r
<1>5. NoteTable(add_note(s.note, 1, name, n, bytes), Append(a.note, r),
                need_conversion)
  BY <1>1, <1>4, NoteAdded, Zenon
<1> QED
  BY <1>1, <1>2, <1>3, <1>5 DEF Tables

(* What was copied does not depend on the entries that are added later.    *)
LEMMA CopyStays ==
    ASSUME NEW s, NEW strings, NEW asked, NEW c, NEW need,
           CopyTable(s, strings, asked, c, need), asked \in Seq(DynRequests),
           NEW r \in DynRequests, NEW now, now = Append(asked, r)
    PROVE  CopyTable(s, strings, now, c, need)
<1>1. /\ Len(now) = Len(asked) + 1 /\ Len(asked) \in Nat
      /\ \A k \in 1..Len(asked) : now[k] = asked[k]
  <2>1. Len(asked) \in Nat
    BY LenProperties
  <2> QED
    BY <2>1, AppendProperties
<1>2. Len(s.items) \in Nat /\ Len(s.items) <= Len(asked)
  <2>1. s.items \in Seq(DynItems) /\ Len(s.items) <= Len(asked)
    BY DEF CopyTable, Data, Section
  <2> QED
    BY <2>1, LenProperties
<1>3. Len(s.items) <= Len(now)
  BY <1>1, <1>2
<1>4. \A k \in 1..Len(s.items) : now[k] = asked[k]
  BY <1>1, <1>2
<1> QED
  BY <1>3, <1>4 DEF CopyTable

WithDynamic(s, tag, value) ==
    [s EXCEPT !.dynamic = add_dynamic(@, tag, value)]
WithDynamicString(s, tag, str) ==
    [s EXCEPT !.strtab = add_string(@, str),
              !.dynamic = add_dynamic(@, tag, StringPosition(s.strtab))]
PlusDynamic(a, r) == [a EXCEPT !.dynamic = Append(@, r)]
AskedDynamic(tag, value, str) == [tag |-> tag, value |-> value, str |-> str]

MoreDynamics(b, a) ==
    /\ Len(b.dynamic) = Len(a.dynamic) + 1
    /\ b.symbols = a.symbols /\ b.linked = a.linked

LEMMA DynamicStep ==
    ASSUME Opened, NEW s, NEW a, Tables(s, a, class, need_conversion),
           Len(a.symbols) + Len(a.dynamic) \in Nat,
           NEW tag \in Values(4) \ StringTags, NEW value \in Values(8)
    PROVE  /\ Tables(WithDynamic(s, tag, value),
                     PlusDynamic(a, AskedDynamic(tag, value, NoName)),
                     class, need_conversion)
           /\ MoreDynamics(PlusDynamic(a, AskedDynamic(tag, value, NoName)), a)
<1> DEFINE t == WithDynamic(s, tag, value)
           r == AskedDynamic(tag, value, NoName)
           b == PlusDynamic(a, r)
           now == Append(a.dynamic, r)
           N == Len(a.symbols) + Len(a.dynamic)
<1>1. /\ DOMAIN s = SectionNames /\ DOMAIN a = Histories
      /\ SymbolTable(s.strtab, s.symtab, a.symbols, class, need_conversion)
      /\ RelTable(s.rel, a.rel, Len(a.symbols), class, need_conversion)
      /\ RelaTable(s.rela, a.rela, Len(a.symbols), class, need_conversion)
      /\ DynTable(s.dynamic, s.strtab, a.dynamic, class, need_conversion)
      /\ CopyTable(s.dynamic1, s.dynstr, a.dynamic, class, need_conversion)
      /\ NoteTable(s.note, a.note, need_conversion)
      /\ Strung(s.strtab, N)
      /\ Strung(s.dynstr, Len(s.dynamic1.items)) /\ s.dynstr.entry_size = 0
  BY DEF Tables
<1>2. /\ DOMAIN b = Histories /\ b.dynamic = now
      /\ b.symbols = a.symbols /\ b.rel = a.rel /\ b.rela = a.rela
      /\ b.note = a.note /\ b.linked = a.linked
  BY <1>1 DEF Histories, PlusDynamic
<1>3. /\ DOMAIN t = SectionNames /\ t.dynamic = add_dynamic(s.dynamic, tag, value)
      /\ t.strtab = s.strtab /\ t.symtab = s.symtab /\ t.rel = s.rel
      /\ t.rela = s.rela /\ t.dynamic1 = s.dynamic1
      /\ t.dynstr = s.dynstr /\ t.note = s.note
  BY <1>1 DEF SectionNames, WithDynamic, WithDynamicString
<1>4. r \in DynRequests /\ NoName \in Texts
  BY DEF DynRequests, Texts, AskedDynamic
<1>5. a.dynamic \in Seq(DynRequests)
  BY Lengths, Zenon
<1>6. now = Append(a.dynamic, r) /\ r = [tag |-> tag, value |-> value,
                                         str |-> NoName]
  BY DEF AskedDynamic
<1>7. N \in Nat /\ N = Len(a.symbols) + Len(a.dynamic)
  OBVIOUS
<1> HIDE DEF r, now, N, b
<1>8. /\ DynTable(t.dynamic, s.strtab, now, class, need_conversion)
      /\ Len(now) = Len(a.dynamic) + 1
  <2>1. IF tag \in StringTags
        THEN Holds(s.strtab, value, NoName) /\ NoName \in Strings
        ELSE NoName = NoName
    OBVIOUS
  <2>2. tag \in Values(4)
    OBVIOUS
  <2>3. DynTable(add_dynamic(s.dynamic, tag, value), s.strtab,
                 Append(a.dynamic, r), class, need_conversion)
    BY <1>1, <1>4, <1>6, <2>1, <2>2, DynamicAdded, Zenon
  <2> QED
    BY <1>1, <1>3, <1>4, <1>5, <1>6, <2>3, AppendProperties
<1>9. CopyTable(s.dynamic1, s.dynstr, now, class, need_conversion)
  BY <1>1, <1>4, <1>5, <1>6, CopyStays, Zenon
<1>10. Strung(s.strtab, Len(a.symbols) + Len(now))
  <2>1. StringTable(s.strtab)
    BY <1>1 DEF SymbolTable
  <2>2. Len(a.symbols) \in Nat /\ Len(a.dynamic) \in Nat
    BY Lengths, Zenon
  <2>3. \A l, m \in Nat : l + (m + 1) \in Nat /\ l + m <= l + (m + 1)
    OBVIOUS
  <2>4. Len(a.symbols) + Len(now) \in Nat /\ N <= Len(a.symbols) + Len(now)
    BY <1>7, <1>8, <2>2, <2>3
  <2> QED
    BY <1>1, <1>7, <2>1, <2>4, StringsStrung, Zenon
<1> HIDE DEF t
<1>11. Tables(t, b, class, need_conversion)
  BY <1>1, <1>2, <1>3, <1>8, <1>9, <1>10 DEF Tables
<1> QED
  BY <1>2, <1>8, <1>11 DEF MoreDynamics, t, b, r

LEMMA DynamicStringStep ==
    ASSUME Opened, NEW f \in Files, NEW s, NEW a,
           Tables(s, a, class, need_conversion),
           Len(a.symbols) + Len(a.dynamic) <= Len(f.symbols) + MaxAdded,
           NEW tag \in Values(4) \cap StringTags, NEW str \in Strings,
           NEW at, at = StringPosition(s.strtab)
    PROVE  /\ Tables(WithDynamicString(s, tag, str),
                     PlusDynamic(a, AskedDynamic(tag, at, str)),
                     class, need_conversion)
           /\ MoreDynamics(PlusDynamic(a, AskedDynamic(tag, at, str)), a)
<1> DEFINE t == WithDynamicString(s, tag, str)
           r == AskedDynamic(tag, at, str)
           b == PlusDynamic(a, r)
           now == Append(a.dynamic, r)
           N == Len(a.symbols) + Len(a.dynamic)
           grown == add_string(s.strtab, str)
<1>1. /\ DOMAIN s = SectionNames /\ DOMAIN a = Histories
      /\ SymbolTable(s.strtab, s.symtab, a.symbols, class, need_conversion)
      /\ RelTable(s.rel, a.rel, Len(a.symbols), class, need_conversion)
      /\ RelaTable(s.rela, a.rela, Len(a.symbols), class, need_conversion)
      /\ DynTable(s.dynamic, s.strtab, a.dynamic, class, need_conversion)
      /\ CopyTable(s.dynamic1, s.dynstr, a.dynamic, class, need_conversion)
      /\ NoteTable(s.note, a.note, need_conversion)
      /\ Strung(s.strtab, N)
      /\ Strung(s.dynstr, Len(s.dynamic1.items)) /\ s.dynstr.entry_size = 0
  BY DEF Tables
<1>2. /\ DOMAIN b = Histories /\ b.dynamic = now
      /\ b.symbols = a.symbols /\ b.rel = a.rel /\ b.rela = a.rela
      /\ b.note = a.note /\ b.linked = a.linked
  BY <1>1 DEF Histories, PlusDynamic
<1>3. /\ DOMAIN t = SectionNames /\ t.dynamic = add_dynamic(s.dynamic, tag, at)
      /\ t.strtab = grown /\ t.symtab = s.symtab /\ t.rel = s.rel
      /\ t.rela = s.rela /\ t.dynamic1 = s.dynamic1
      /\ t.dynstr = s.dynstr /\ t.note = s.note
  BY <1>1 DEF SectionNames, WithDynamic, WithDynamicString
<1>4. str \in Texts /\ StringSize(str) \in 0..MaxString /\ MaxString \in Nat
      /\ StringSize(str) \in Nat
  BY StringsAssumption, BoundsAssumption DEF Texts
<1>5. a.dynamic \in Seq(DynRequests) /\ Len(a.symbols) \in Nat
      /\ Len(a.dynamic) \in Nat
  BY Lengths, Zenon
<1>6. N \in Nat /\ N = Len(a.symbols) + Len(a.dynamic)
      /\ N <= Len(f.symbols) + MaxAdded
  <2>1. \A l, m \in Nat : l + m \in Nat
    OBVIOUS
  <2> QED
    BY <1>5, <2>1
<1>7. now = Append(a.dynamic, r) /\ r = [tag |-> tag, value |-> at,
                                         str |-> str]
      /\ grown = add_string(s.strtab, str)
  BY DEF AskedDynamic
<1> HIDE DEF r, now, N, grown, b
<1>8. StringTable(s.strtab) /\ s.strtab.size \in Nat
  <2>1. StringTable(s.strtab)
    BY <1>1 DEF SymbolTable
  <2> QED
    BY <2>1 DEF StringTable, Data, Section
<1>9. /\ StringTable(grown) /\ grown.size > 0
      /\ grown.size <= at + StringSize(str) + 1
      /\ Holds(grown, at, str)
      /\ \A p, old : Holds(s.strtab, p, old) => Holds(grown, p, old)
  BY <1>4, <1>7, <1>8, StringAdded, Zenon
<1>10. at \in Values(8)
  <2>1. /\ at <= 1 + N * (MaxString + 1)
        /\ \A k : k.size \in Nat /\ k.size <= at + MaxString + 1 =>
              Strung(k, N + 1)
    BY <1>1, <1>6, <1>8, StringsStrung, Zenon
  <2>2. 1 + N * (MaxString + 1) <= Limit(4) - 1
    BY <1>6, StringsBounded, Zenon
  <2>3. at \in Nat
    BY <1>8 DEF StringPosition
  <2>4. at <= Limit(4) - 1
    <3> DEFINE X == 1 + N * (MaxString + 1)
    <3>1. X \in Int
      <4>1. \A l, m \in Nat : 1 + l * (m + 1) \in Int
        OBVIOUS
      <4> QED
        BY <1>4, <1>6, <4>1
    <3>2. at <= X /\ X <= Limit(4) - 1
      BY <2>1, <2>2
    <3> HIDE DEF X
    <3>3. Limit(4) \in Nat
      BY Limits
    <3> QED
      BY <2>3, <3>1, <3>2, <3>3
  <2>5. at \in Values(4)
    BY <2>3, <2>4, Limits DEF Values
  <2> QED
    BY <2>5, ValuesGrow DEF Opened
<1>11. Strung(grown, N + 1)
  <2>1. grown.size \in Nat
    BY <1>9 DEF StringTable, Data, Section
  <2>2. at \in Nat
    BY <1>8 DEF StringPosition
  <2>3. \A x \in Nat, y \in 0..MaxString : x + y + 1 <= x + MaxString + 1
    BY <1>4
  <2>4. grown.size <= at + MaxString + 1
    <3>1. at + StringSize(str) + 1 <= at + MaxString + 1
      BY <1>4, <2>2, <2>3
    <3> QED
      BY <1>4, <1>9, <2>1, <2>2, <3>1
  <2>5. grown.size <= StringPosition(s.strtab) + MaxString + 1
    BY <2>4
  <2> QED
    BY <1>1, <1>6, <1>8, <2>1, <2>5, StringsStrung, Zenon
<1>12. /\ SymbolTable(grown, s.symtab, a.symbols, class, need_conversion)
       /\ DynTable(s.dynamic, grown, a.dynamic, class, need_conversion)
  <2>1. s.strtab.size > 0 => grown.size > 0
    BY <1>9
  <2> QED
    BY <1>1, <1>9, <2>1, StringsGrow, Zenon
<1>13. r \in DynRequests
  BY <1>4, <1>7, <1>10 DEF DynRequests
<1>14. /\ DynTable(t.dynamic, grown, now, class, need_conversion)
       /\ Len(now) = Len(a.dynamic) + 1
  <2>1. IF tag \in StringTags
        THEN Holds(grown, at, str) /\ str \in Strings ELSE str = NoName
    BY <1>9
  <2>2. tag \in Values(4)
    OBVIOUS
  <2>3. DynTable(add_dynamic(s.dynamic, tag, at), grown,
                 Append(a.dynamic, r), class, need_conversion)
    BY <1>4, <1>7, <1>10, <1>12, <2>1, <2>2, DynamicAdded, Zenon
  <2> QED
    BY <1>3, <1>5, <1>7, <1>13, <2>3, AppendProperties
<1>15. CopyTable(s.dynamic1, s.dynstr, now, class, need_conversion)
  BY <1>1, <1>5, <1>7, <1>13, CopyStays, Zenon
<1>16. Strung(grown, Len(a.symbols) + Len(now))
  <2>1. \A l, m \in Nat : l + (m + 1) = (l + m) + 1
    OBVIOUS
  <2>2. Len(a.symbols) + Len(now) = N + 1
    BY <1>5, <1>6, <1>14, <2>1
  <2> QED
    BY <1>11, <2>2
<1> HIDE DEF t
<1>17. Tables(t, b, class, need_conversion)
  BY <1>1, <1>2, <1>3, <1>12, <1>14, <1>15, <1>16 DEF Tables
<1> QED
  BY <1>2, <1>14, <1>17 DEF MoreDynamics, t, b, r

(* The strings of a file are shorter than an Elf_Word can tell.            *)
LEMMA StringsFit ==
    ASSUME NEW f \in Files, NEW s, NEW a, NEW need, NEW c, Tables(s, a, c, need),
           Len(a.symbols) + Len(a.dynamic) <= Len(f.symbols) + MaxAdded
    PROVE  /\ s.strtab.size <= Limit(4) /\ s.dynstr.size <= Limit(4)
           /\ Len(a.dynamic) * (MaxString + 1) < Limit(4) - 1
           /\ Indexed(Len(a.symbols), f.class)
<1> DEFINE S == Len(a.symbols)
           D == Len(a.dynamic)
           C == Len(s.dynamic1.items)
           M == MaxString + 1
           X == Len(f.symbols) + MaxAdded
<1>1. S \in Nat /\ D \in Nat /\ C \in Nat /\ C <= D
  <2>1. S \in Nat \ {0} /\ D \in Nat /\ C \in Nat /\ C <= D
    BY Lengths, Zenon
  <2> QED
    BY <2>1
<1>2. M \in Nat /\ Limit(4) \in Nat
  BY BoundsAssumption, Limits
<1>3. X \in Nat
  <2>1. f.symbols \in Seq(Names)
    BY FilesAssumption DEF File
  <2> QED
    BY <2>1, LenProperties, BoundsAssumption
<1>4. s.strtab.size <= 1 + (S + D) * M /\ s.dynstr.size <= 1 + C * M
  BY DEF Tables, Strung
<1>5. s.strtab.size \in Nat /\ s.dynstr.size \in Nat
  BY DEF Tables, SymbolTable, CopyTable, StringTable, Data, Section
<1>6. \A n \in Nat : n <= X => /\ 1 + n * M <= Limit(4) - 1
                               /\ Indexed(n, f.class)
  BY StringsBounded
<1>7. S + D <= X
  OBVIOUS
<1> HIDE DEF S, D, C, M, X
<1>8. S + D \in Nat /\ D <= X /\ C <= X /\ S <= X
  BY <1>1, <1>3, <1>7
<1>9. /\ 1 + (S + D) * M <= Limit(4) - 1 /\ 1 + D * M <= Limit(4) - 1
      /\ 1 + C * M <= Limit(4) - 1 /\ Indexed(S, f.class)
  <2>1. S + D <= X
    BY <1>7
  <2> QED
    BY <1>1, <1>6, <1>8, <2>1, Zenon
<1>10. \A x, y, z \in Int : x <= 1 + y /\ 1 + y <= z - 1 => x <= z /\ y < z - 1
  OBVIOUS
<1>11. (S + D) * M \in Int /\ C * M \in Int /\ D * M \in Int
  BY <1>1, <1>2
<1>12. s.strtab.size <= Limit(4)
  <2> DEFINE y == (S + D) * M
  <2>1. y \in Int /\ s.strtab.size <= 1 + y /\ 1 + y <= Limit(4) - 1
    BY <1>4, <1>9, <1>11 DEF S, D, M
  <2> HIDE DEF y
  <2> QED
    BY <1>2, <1>5, <1>10, <2>1
<1>13. s.dynstr.size <= Limit(4)
  <2> DEFINE y == C * M
  <2>1. y \in Int /\ s.dynstr.size <= 1 + y /\ 1 + y <= Limit(4) - 1
    BY <1>4, <1>9, <1>11 DEF C, M
  <2> HIDE DEF y
  <2> QED
    BY <1>2, <1>5, <1>10, <2>1
<1>14. D * M < Limit(4) - 1
  <2> DEFINE y == D * M
  <2>1. y \in Int /\ 1 + y <= Limit(4) - 1
    BY <1>9, <1>11
  <2> HIDE DEF y
  <2> QED
    BY <1>2, <2>1 DEF y
<1> QED
  BY <1>9, <1>12, <1>13, <1>14 DEF S, D, M

LEMMA CopyStep ==
    ASSUME Opened, NEW f \in Files, NEW a,
           Tables(sec, a, class, need_conversion),
           Len(a.symbols) + Len(a.dynamic) <= Len(f.symbols) + MaxAdded,
           sec.dynamic1.size = 0
    PROVE  Tables(WithCopies, a, class, need_conversion)
<1> DEFINE asked == a.dynamic
           t == WithCopies
<1>1. /\ DOMAIN sec = SectionNames /\ DOMAIN a = Histories
      /\ SymbolTable(sec.strtab, sec.symtab, a.symbols, class, need_conversion)
      /\ RelTable(sec.rel, a.rel, Len(a.symbols), class, need_conversion)
      /\ RelaTable(sec.rela, a.rela, Len(a.symbols), class, need_conversion)
      /\ DynTable(sec.dynamic, sec.strtab, asked, class, need_conversion)
      /\ CopyTable(sec.dynamic1, sec.dynstr, asked, class, need_conversion)
      /\ NoteTable(sec.note, a.note, need_conversion)
      /\ Strung(sec.strtab, Len(a.symbols) + Len(asked))
      /\ Strung(sec.dynstr, Len(sec.dynamic1.items))
      /\ sec.dynstr.entry_size = 0
  BY DEF Tables
<1>2. /\ sec.strtab.size <= Limit(4)
      /\ Len(asked) * (MaxString + 1) < Limit(4) - 1
  BY StringsFit, Zenon
<1>3. Len(sec.dynamic1.items) = 0
  <2>1. Len(sec.dynamic1.items) \in Nat
    BY Lengths, Zenon
  <2>2. SizeOf(Dyn, class) \in Nat \ {0}
    BY EntrySizes DEF Opened
  <2>3. Len(sec.dynamic1.items) * SizeOf(Dyn, class) = 0
    BY <1>1 DEF CopyTable
  <2>4. \A l \in Nat, z \in Nat \ {0} : l * z = 0 => l = 0
    OBVIOUS
  <2> QED
    BY <2>1, <2>2, <2>3, <2>4
<1>4. CopiedUpto(sec, 0, asked)
  BY <1>1, <1>3 DEF CopiedUpto, Others
<1>5. {"dynstr", "dynamic1"} \subseteq DOMAIN sec
  BY <1>1 DEF SectionNames
<1> HIDE DEF t
<1>6. CopiedUpto(t, Len(asked), asked)
  BY <1>1, <1>2, <1>4, <1>5, AllCopied, Zenon DEF t
<1>7. /\ CopyTable(t.dynamic1, t.dynstr, asked, class, need_conversion)
      /\ Strung(t.dynstr, Len(t.dynamic1.items)) /\ t.dynstr.entry_size = 0
      /\ DOMAIN t = SectionNames
      /\ t.strtab = sec.strtab /\ t.symtab = sec.symtab /\ t.rel = sec.rel
      /\ t.rela = sec.rela /\ t.dynamic = sec.dynamic /\ t.note = sec.note
  BY <1>1, <1>6 DEF CopiedUpto, Others, SectionNames
<1>8. Tables(t, a, class, need_conversion)
  BY <1>1, <1>7 DEF Tables
<1> QED
  BY <1>8 DEF t

(* A linked file.                                                          *)
LEMMA FirstTables ==
    ASSUME Init
    PROVE  TableInv
<1>1. PICK f \in Files :
        /\ class = f.class /\ need_conversion = f.need_conversion
        /\ links = f.links /\ segs = f.segs
        /\ hash = LinkerHash(f.symbols, f.nbucket)
        /\ sec = [strtab |-> LinkedSymbols(f.symbols).strtab,
                  symtab |-> LinkedSymbols(f.symbols).symtab,
                  rel |-> Empty(SizeOf(Rel, f.class)),
                  rela |-> Empty(SizeOf(Rela, f.class)),
                  dynamic |-> Empty(SizeOf(Dyn, f.class)),
                  dynamic1 |-> Empty(SizeOf(Dyn, f.class)),
                  dynstr |-> Empty(0), note |-> Empty(0)]
        /\ added = [linked |-> Len(f.symbols),
                    symbols |-> AskedSymbols(f.symbols), rel |-> <<>>,
                    rela |-> <<>>, dynamic |-> <<>>, note |-> <<>>]
  BY Zenon DEF Init, AskedSymbols
<1> DEFINE names == f.symbols
           s == LinkedSymbols(names)
<1>2. /\ f.class \in Classes /\ f.need_conversion \in BOOLEAN
      /\ names \in Seq(Names) /\ names # <<>>
      /\ f.nbucket \in Nat \ {0}
  BY FilesAssumption DEF File
<1>3. Opened
  BY <1>1, <1>2 DEF Opened
<1>4. Len(names) \in Nat /\ DOMAIN names = 1..Len(names)
  BY <1>2, LenProperties
<1>5. s = LinkedSymbols(names)
  OBVIOUS
<1> HIDE DEF s
<1>6. /\ SymbolTable(s.strtab, s.symtab, AskedSymbols(names), class,
                     need_conversion)
      /\ Strung(s.strtab, Len(names))
  BY <1>2, <1>3, <1>5, Linked, Zenon
<1>7. /\ sec.strtab = s.strtab /\ sec.symtab = s.symtab
      /\ sec.rel = Empty(SizeOf(Rel, class))
      /\ sec.rela = Empty(SizeOf(Rela, class))
      /\ sec.dynamic = Empty(SizeOf(Dyn, class))
      /\ sec.dynamic1 = Empty(SizeOf(Dyn, class))
      /\ sec.dynstr = Empty(0) /\ sec.note = Empty(0)
      /\ DOMAIN sec = SectionNames
  BY <1>1, <1>5 DEF SectionNames
<1>8. /\ added.linked = Len(names) /\ added.symbols = AskedSymbols(names)
      /\ added.rel = <<>> /\ added.rela = <<>> /\ added.dynamic = <<>>
      /\ added.note = <<>> /\ DOMAIN added = Histories
  BY <1>1 DEF Histories
<1>9. /\ Len(AskedSymbols(names)) = Len(names)
      /\ \A k \in 1..Len(names) : AskedSymbols(names)[k].name = names[k]
  <2>1. DOMAIN AskedSymbols(names) = 1..Len(names)
    BY <1>4 DEF AskedSymbols
  <2>2. AskedSymbols(names) \in Seq(Requests)
    BY <1>6 DEF SymbolTable
  <2>3. DOMAIN AskedSymbols(names) = 1..Len(AskedSymbols(names))
        /\ Len(AskedSymbols(names)) \in Nat
    BY <2>2, LenProperties
  <2>4. \A l, m \in Nat : 1..l = 1..m => l = m
    OBVIOUS
  <2>5. Len(AskedSymbols(names)) = Len(names)
    BY <1>4, <2>1, <2>3, <2>4
  <2> QED
    BY <1>4, <2>5 DEF AskedSymbols, Asked
<1>10. StringTable(sec.strtab)
  BY <1>6, <1>7 DEF SymbolTable
<1>11. SymbolTable(sec.strtab, sec.symtab, added.symbols, class,
                   need_conversion)
  BY <1>6, <1>7, <1>8
<1>12. /\ RelTable(sec.rel, added.rel, Len(added.symbols), class,
                   need_conversion)
       /\ RelaTable(sec.rela, added.rela, Len(added.symbols), class,
                    need_conversion)
  BY <1>3, <1>7, <1>8, NoRelocations
<1>13. DynTable(sec.dynamic, sec.strtab, added.dynamic, class,
                need_conversion)
  BY <1>3, <1>7, <1>8, <1>10, NoDynamics
<1>14. CopyTable(sec.dynamic1, sec.dynstr, added.dynamic, class,
                 need_conversion)
  <2>1. added.dynamic \in Seq(DynRequests)
    BY <1>8
  <2> QED
    BY <1>3, <1>7, <2>1, NoCopies, Zenon
<1>15. NoteTable(sec.note, added.note, need_conversion)
  BY <1>7, <1>8, NoNotes
<1>16. /\ Len(added.symbols) + Len(added.dynamic) = Len(names)
       /\ Strung(sec.strtab, Len(added.symbols) + Len(added.dynamic))
  <2>1. Len(added.symbols) + Len(added.dynamic) = Len(names)
    BY <1>4, <1>8, <1>9
  <2> QED
    BY <1>6, <1>7, <2>1 DEF Strung
<1>17. /\ Strung(sec.dynstr, Len(sec.dynamic1.items))
       /\ sec.dynstr.entry_size = 0
  <2>1. sec.dynstr.size = 0 /\ sec.dynstr.entry_size = 0
    BY <1>7 DEF Empty
  <2>2. Len(sec.dynamic1.items) = 0
    BY <1>7 DEF Empty
  <2>3. 0 <= 1 + 0 * (MaxString + 1)
    BY BoundsAssumption
  <2> QED
    BY <2>1, <2>2, <2>3 DEF Strung
<1>18. Tables(sec, added, class, need_conversion)
  BY <1>7, <1>8, <1>11, <1>12, <1>13, <1>14, <1>15, <1>16, <1>17 DEF Tables
<1>19. ~need_conversion => hash = HashWords(names, f.nbucket)
  <2> DEFINE words == HashWords(names, f.nbucket)
  <2>1. hash = [k \in DOMAIN words |-> Convert(need_conversion, words[k], 4)]
    BY <1>1 DEF LinkerHash
  <2>2. words \in Seq(Nat)
    BY <1>2, WordsOf DEF IsTable
  <2> HIDE DEF words
  <2>3. ~need_conversion => hash = [k \in DOMAIN words |-> words[k]]
    BY <2>1 DEF Convert
  <2>4. words = [k \in DOMAIN words |-> words[k]]
    BY <2>2
  <2> QED
    BY <2>3, <2>4 DEF words
<1>20. Opens(f, added)
  <2>1. Begins(names, added.symbols)
    BY <1>4, <1>8, <1>9 DEF Begins
  <2>2. Len(added.symbols) + Len(added.dynamic) <= Len(names) + MaxAdded
    <3>1. \A l, m \in Nat : l <= l + m
      OBVIOUS
    <3>2. Len(names) <= Len(names) + MaxAdded
      BY <1>4, <3>1, BoundsAssumption
    <3> QED
      BY <1>16, <3>2
  <2> QED
    BY <1>1, <1>8, <1>19, <2>1, <2>2 DEF Opens
<1> QED
  BY <1>18, <1>20 DEF TableInv

-----------------------------------------------------------------------------
(* Every step keeps the tables.                                            *)

LEMMA NumbersTyped ==
    /\ Numbers \subseteq Values(8) /\ Numbers \subseteq Nat
    /\ Tags \subseteq Values(4) /\ RelTypes \subseteq Values(1)
    /\ Addends \subseteq Int
    /\ 0 \in Nat /\ R_386_32 \in Values(1)
    /\ ELF_ST_INFO(1, 2) \in Nat
<1>1. /\ ByteBase \in Nat \ {0, 1} /\ Limit(1) = ByteBase
      /\ Limit(8) \in Nat \ {0}
  BY Limits
<1>2. R_386_32 \in Values(1)
  BY <1>1 DEF R_386_32, Values
<1>3. Values(8) \subseteq Nat
  BY <1>1 DEF Values
<1>4. ELF_ST_INFO(1, 2) \in Nat
  <2>1. \E n \in 1..ByteBase : n * n >= ByteBase
    <3>1. ByteBase \in 1..ByteBase /\ ByteBase * ByteBase >= ByteBase
      BY <1>1
    <3> QED
      BY <3>1
  <2>2. Nibble \in 1..ByteBase
    BY <2>1 DEF Nibble
  <2> DEFINE v == 1 * Nibble + (2 % Nibble)
  <2>3. v \in Int
    BY <1>1, <2>2
  <2> HIDE DEF v
  <2>4. v % ByteBase \in Nat
    BY <1>1, <2>3
  <2> QED
    BY <1>1, <2>4 DEF ELF_ST_INFO, Narrow, v
<1> QED
  BY <1>2, <1>3, <1>4, NumbersAssumption

(* What is asked for only grows, and not beyond the bound.                 *)
Extends(f, a, b) ==
    /\ b.linked = a.linked
    /\ Len(a.symbols) <= Len(b.symbols)
    /\ \A k \in 1..Len(a.symbols) : b.symbols[k] = a.symbols[k]
    /\ Len(b.symbols) + Len(b.dynamic) <= Len(f.symbols) + MaxAdded

LEMMA Extended ==
    ASSUME NEW f \in Files, NEW a, NEW b, Begins(f.symbols, a.symbols),
           Extends(f, a, b), Len(a.symbols) \in Nat, Len(b.symbols) \in Nat
    PROVE  Begins(f.symbols, b.symbols)
<1>1. Len(f.symbols) \in Nat
  BY FilesAssumption, LenProperties DEF File
<1>2. /\ Len(f.symbols) <= Len(a.symbols)
      /\ \A k \in 1..Len(f.symbols) : a.symbols[k].name = f.symbols[k]
      /\ Len(a.symbols) <= Len(b.symbols)
      /\ \A k \in 1..Len(a.symbols) : b.symbols[k] = a.symbols[k]
  BY DEF Begins, Extends
<1>3. \A x, y, z \in Nat : x <= y /\ y <= z => x <= z /\ 1..x \subseteq 1..y
  OBVIOUS
<1>4. /\ Len(f.symbols) <= Len(b.symbols)
      /\ 1..Len(f.symbols) \subseteq 1..Len(a.symbols)
  BY <1>1, <1>2, <1>3
<1> QED
  BY <1>2, <1>4 DEF Begins

LEMMA Carried ==
    ASSUME NEW f \in Files, Opens(f, added), Tables(sec, added, class, need_conversion),
           UNCHANGED <<class, need_conversion, links, segs, hash>>,
           Tables(sec', added', class, need_conversion),
           Extends(f, added, added')
    PROVE  TableInv'
<1>1. Begins(f.symbols, added'.symbols)
  <2>1. Len(added.symbols) \in Nat /\ Len(added'.symbols) \in Nat
    <3>1. Len(added.symbols) \in Nat \ {0} /\ Len(added'.symbols) \in Nat \ {0}
      BY Lengths, Zenon
    <3> QED
      BY <3>1
  <2>2. Begins(f.symbols, added.symbols)
    BY DEF Opens
  <2> QED
    BY <2>1, <2>2, Extended, Zenon
<1>2. Opens(f, added)'
  BY <1>1 DEF Opens, Extends
<1> QED
  BY <1>2 DEF TableInv

(* There is room for one more item.                                        *)
LEMMA OneMoreFits ==
    ASSUME NEW f \in Files, Opens(f, added),
           Tables(sec, added, class, need_conversion), Building
    PROVE  /\ Len(added.symbols) + Len(added.dynamic) + 1
                <= Len(f.symbols) + MaxAdded
           /\ Len(added.symbols) + Len(added.dynamic) \in Nat
           /\ Len(added.symbols) \in Nat /\ Len(added.dynamic) \in Nat
<1>1. /\ Len(added.symbols) \in Nat \ {0} /\ Len(added.rel) \in Nat
      /\ Len(added.rela) \in Nat /\ Len(added.dynamic) \in Nat
      /\ Len(added.note) \in Nat
  BY Lengths, Zenon
<1>2. Len(f.symbols) \in Nat /\ added.linked = Len(f.symbols)
      /\ MaxAdded \in Nat
  BY FilesAssumption, BoundsAssumption, LenProperties DEF File, Opens
<1>3. Len(added.symbols) - Len(f.symbols) + Len(added.rel) + Len(added.rela)
         + Len(added.dynamic) + Len(added.note) < MaxAdded
  BY <1>2 DEF Building
<1>4. \A s, r, q, d, n, l, m \in Nat :
         s - l + r + q + d + n < m => s + d + 1 <= l + m /\ s + d \in Nat
  OBVIOUS
<1>5. Len(added.symbols) \in Nat
  BY <1>1
<1> QED
  BY <1>1, <1>2, <1>3, <1>4, <1>5

LEMMA Adding ==
    ASSUME NEW f \in Files, Opens(f, added),
           Tables(sec, added, class, need_conversion), Building
    PROVE  /\ UNCHANGED <<class, need_conversion, links, segs, hash>>
           /\ Opened
           /\ Len(added.symbols) + Len(added.dynamic)
                <= Len(f.symbols) + MaxAdded
           /\ Indexed(Len(added.symbols), class)
<1>1. f.class \in Classes /\ f.need_conversion \in BOOLEAN
  BY FilesAssumption DEF File
<1>2. Opened /\ class = f.class
  BY <1>1 DEF Opens, Opened
<1>3. Len(added.symbols) + Len(added.dynamic) <= Len(f.symbols) + MaxAdded
  BY DEF Opens
<1>4. Indexed(Len(added.symbols), f.class)
  BY <1>3, StringsFit, Zenon
<1> QED
  BY <1>2, <1>3, <1>4 DEF Building

LEMMA AddSymbolKeeps ==
    ASSUME NEW f \in Files, Opens(f, added),
           Tables(sec, added, class, need_conversion),
           NEW str \in Strings, NEW value \in Numbers,
           AddSymbol(str, value, value, 1, 2)
    PROVE  TableInv'
<1> DEFINE info == ELF_ST_INFO(1, 2)
<1>1. Building /\ info \in Nat /\ value \in Nat
  BY NumbersTyped DEF AddSymbol
<1>2. /\ sec' = WithSymbol(sec, str, value, value, info)
      /\ added' = Plus(added, Asked(str, value, value, info))
  BY DEF AddSymbol, Plus
<1> HIDE DEF info
<1>3. Opened /\ UNCHANGED <<class, need_conversion, links, segs, hash>>
  BY <1>1, Adding, Zenon
<1>4. /\ Tables(sec', added', class, need_conversion)
      /\ MoreSymbols(added', added)
  <2>1. /\ Tables(WithSymbol(sec, str, value, value, info),
                  Plus(added, Asked(str, value, value, info)),
                  class, need_conversion)
        /\ MoreSymbols(Plus(added, Asked(str, value, value, info)), added)
    BY <1>1, <1>3, SymbolStep, Zenon
  <2> QED
    BY <1>2, <2>1
<1>5. Extends(f, added, added')
  <2>1. /\ Len(added.symbols) + Len(added.dynamic) + 1
             <= Len(f.symbols) + MaxAdded
        /\ Len(added.symbols) \in Nat /\ Len(added.dynamic) \in Nat
    BY <1>1, OneMoreFits, Zenon
  <2>2. \A s, d \in Nat : s + d + 1 = (s + 1) + d /\ s <= s + 1
    OBVIOUS
  <2> QED
    BY <1>4, <2>1, <2>2 DEF Extends, MoreSymbols
<1> QED
  BY <1>3, <1>4, <1>5, Carried, Zenon

LEMMA SameExtends ==
    ASSUME NEW f \in Files, Opens(f, added),
           Tables(sec, added, class, need_conversion),
           NEW b, b.linked = added.linked, b.symbols = added.symbols,
           b.dynamic = added.dynamic
    PROVE  Extends(f, added, b)
<1>1. Len(added.symbols) \in Nat \ {0}
  BY Lengths, Zenon
<1>2. Len(added.symbols) <= Len(added.symbols)
  BY <1>1
<1> QED
  BY <1>2 DEF Extends, Opens

LEMMA AddRelKeeps ==
    ASSUME NEW f \in Files, Opens(f, added),
           Tables(sec, added, class, need_conversion),
           NEW symbol \in {1, Len(added.symbols)}, NEW offset \in Numbers,
           NEW type \in RelTypes, AddRel(symbol, offset, type)
    PROVE  TableInv'
<1>1. /\ Building /\ offset \in Nat /\ type \in Values(1)
      /\ symbol \in 1..Len(added.symbols)
  <2>1. Len(added.symbols) \in Nat \ {0}
    BY Lengths, Zenon
  <2> QED
    BY <2>1, NumbersTyped DEF AddRel
<1>2. /\ sec' = [sec EXCEPT !.rel = add_rel(@, offset, symbol, type)]
      /\ added' = [added EXCEPT !.rel =
                     Append(@, [symbol |-> symbol, offset |-> offset,
                                type |-> type, addend |-> 0])]
  BY DEF AddRel
<1>3. /\ Opened /\ UNCHANGED <<class, need_conversion, links, segs, hash>>
      /\ Indexed(Len(added.symbols), class)
  BY <1>1, Adding, Zenon
<1>4. Tables(sec', added', class, need_conversion)
  BY <1>1, <1>2, <1>3, RelStep
<1>5. Extends(f, added, added')
  <2>1. DOMAIN added = Histories
    BY DEF Tables
  <2>2. /\ added'.linked = added.linked /\ added'.symbols = added.symbols
        /\ added'.dynamic = added.dynamic
    BY <1>2, <2>1 DEF Histories
  <2> QED
    BY <2>2, SameExtends, Zenon
<1> QED
  BY <1>3, <1>4, <1>5, Carried, Zenon

LEMMA AddRelaKeeps ==
    ASSUME NEW f \in Files, Opens(f, added),
           Tables(sec, added, class, need_conversion),
           NEW symbol \in {1, Len(added.symbols)}, NEW offset \in Numbers,
           NEW type \in RelTypes, NEW addend \in Addends,
           AddRela(symbol, offset, type, addend)
    PROVE  TableInv'
<1>1. /\ Building /\ offset \in Nat /\ type \in Values(1) /\ addend \in Int
      /\ symbol \in 1..Len(added.symbols)
  <2>1. Len(added.symbols) \in Nat \ {0}
    BY Lengths, Zenon
  <2> QED
    BY <2>1, NumbersTyped DEF AddRela
<1>2. /\ sec' = [sec EXCEPT !.rela =
                   add_rela(@, offset, symbol, type, addend)]
      /\ added' = [added EXCEPT !.rela =
                     Append(@, [symbol |-> symbol, offset |-> offset,
                                type |-> type, addend |-> addend])]
  BY DEF AddRela
<1>3. /\ Opened /\ UNCHANGED <<class, need_conversion, links, segs, hash>>
      /\ Indexed(Len(added.symbols), class)
  BY <1>1, Adding, Zenon
<1>4. Tables(sec', added', class, need_conversion)
  BY <1>1, <1>2, <1>3, RelaStep
<1>5. Extends(f, added, added')
  <2>1. DOMAIN added = Histories
    BY DEF Tables
  <2>2. /\ added'.linked = added.linked /\ added'.symbols = added.symbols
        /\ added'.dynamic = added.dynamic
    BY <1>2, <2>1 DEF Histories
  <2> QED
    BY <2>2, SameExtends, Zenon
<1> QED
  BY <1>3, <1>4, <1>5, Carried, Zenon

(* The new symbol is the last one.                                         *)
LEMMA LastIsNew ==
    ASSUME Opened, NEW s, NEW a, Tables(s, a, class, need_conversion)
    PROVE  LastSymbol(s.symtab) = Len(a.symbols)
<1>1. s.symtab.size = (Len(a.symbols) + 1) * SizeOf(Sym, class)
  BY DEF Tables, SymbolTable
<1>2. Len(a.symbols) \in Nat \ {0}
  BY Lengths, Zenon
<1>3. SizeOf(Sym, class) \in Nat \ {0}
  BY EntrySizes DEF Opened
<1>4. \A l \in Nat, z \in Nat \ {0} : ((l + 1) * z) \div z = l + 1
  OBVIOUS
<1> DEFINE L == Len(a.symbols)
           Z == SizeOf(Sym, class)
<1>5. L \in Nat /\ Z \in Nat \ {0} /\ LastSymbol(s.symtab) = ((L + 1) * Z) \div Z - 1
  BY <1>1, <1>2, <1>3 DEF LastSymbol
<1> HIDE DEF L, Z
<1>6. ((L + 1) * Z) \div Z = L + 1
  BY <1>4, <1>5
<1>7. LastSymbol(s.symtab) = L
  BY <1>5, <1>6
<1> QED
  BY <1>7 DEF L

LEMMA AddRelWithSymbolKeeps ==
    ASSUME NEW f \in Files, Opens(f, added),
           Tables(sec, added, class, need_conversion),
           NEW str \in Strings, NEW value \in Numbers, NEW offset \in Numbers,
           AddRelWithSymbol(str, value, offset, R_386_32)
    PROVE  TableInv'
<1> DEFINE s == WithSymbol(sec, str, value, 0, 0)
           a == Plus(added, Asked(str, value, 0, 0))
           symbol == Len(a.symbols)
<1>1. Building /\ value \in Nat /\ offset \in Nat /\ 0 \in Nat
      /\ R_386_32 \in Values(1)
  BY NumbersTyped DEF AddRelWithSymbol
<1>2. /\ sec' = [s EXCEPT !.rel = add_rel(@, offset, LastSymbol(s.symtab),
                                          R_386_32)]
      /\ added' = [added EXCEPT
                     !.symbols = Append(@, Asked(str, value, 0, 0)),
                     !.rel = Append(@, [symbol |-> Len(added.symbols) + 1,
                                        offset |-> offset, type |-> R_386_32,
                                        addend |-> 0])]
  BY DEF AddRelWithSymbol
<1>3. Opened /\ UNCHANGED <<class, need_conversion, links, segs, hash>>
  BY <1>1, Adding, Zenon
<1>4. /\ a = Plus(added, Asked(str, value, 0, 0))
      /\ s = WithSymbol(sec, str, value, 0, 0) /\ symbol = Len(a.symbols)
  OBVIOUS
<1>5. DOMAIN added = Histories
  BY DEF Tables
<1>6. added' = [a EXCEPT !.rel = Append(@, [symbol |-> Len(added.symbols) + 1,
                                            offset |-> offset,
                                            type |-> R_386_32, addend |-> 0])]
  BY <1>2, <1>4, <1>5 DEF Histories, Plus
<1> HIDE DEF s, a, symbol
<1>7. Tables(s, a, class, need_conversion) /\ MoreSymbols(a, added)
  <2>1. /\ Tables(WithSymbol(sec, str, value, 0, 0),
                  Plus(added, Asked(str, value, 0, 0)),
                  class, need_conversion)
        /\ MoreSymbols(Plus(added, Asked(str, value, 0, 0)), added)
    BY <1>1, <1>3, SymbolStep, Zenon
  <2> QED
    BY <1>4, <2>1
<1>8. LastSymbol(s.symtab) = symbol
  BY <1>3, <1>4, <1>7, LastIsNew, Zenon
<1>9. /\ Len(added.symbols) + 1 = symbol /\ symbol \in Nat \ {0}
      /\ symbol \in 1..Len(a.symbols)
      /\ Len(added.symbols) \in Nat /\ Len(added.dynamic) \in Nat
  <2>1. Len(added.symbols) \in Nat \ {0} /\ Len(added.dynamic) \in Nat
    BY Lengths, Zenon
  <2>2. Len(a.symbols) = Len(added.symbols) + 1
    BY <1>7 DEF MoreSymbols
  <2> QED
    BY <1>4, <2>1, <2>2
<1>10. Len(added.symbols) + Len(added.dynamic) + 1
         <= Len(f.symbols) + MaxAdded
  BY <1>1, OneMoreFits, Zenon
<1>11. Len(a.symbols) + Len(a.dynamic) <= Len(f.symbols) + MaxAdded
  <2>1. \A x, d \in Nat : x + d + 1 = (x + 1) + d
    OBVIOUS
  <2>2. Len(a.symbols) = Len(added.symbols) + 1 /\ a.dynamic = added.dynamic
    BY <1>7 DEF MoreSymbols
  <2>3. Len(added.symbols) + Len(added.dynamic) + 1
          = (Len(added.symbols) + 1) + Len(added.dynamic)
    BY <1>9, <2>1
  <2> QED
    BY <1>10, <2>2, <2>3
<1>12. Indexed(Len(a.symbols), class)
  <2>1. Indexed(Len(a.symbols), f.class)
    BY <1>7, <1>11, StringsFit, Zenon
  <2> QED
    BY <2>1 DEF Opens
<1>13. /\ sec' = [s EXCEPT !.rel = add_rel(@, offset, symbol, R_386_32)]
       /\ added' = [a EXCEPT !.rel =
                      Append(@, [symbol |-> symbol, offset |-> offset,
                                 type |-> R_386_32, addend |-> 0])]
  BY <1>2, <1>6, <1>8, <1>9
<1>14. Tables(sec', added', class, need_conversion)
  BY <1>1, <1>3, <1>7, <1>9, <1>12, <1>13, RelStep
<1>15. Extends(f, added, added')
  <2>1. /\ added'.linked = a.linked /\ added'.symbols = a.symbols
        /\ added'.dynamic = a.dynamic
    <3>1. DOMAIN a = Histories
      BY <1>7 DEF Tables
    <3> QED
      BY <1>13, <3>1 DEF Histories
  <2>2. Len(added.symbols) <= Len(a.symbols)
    BY <1>9, <1>4
  <2> QED
    BY <1>7, <1>11, <2>1, <2>2 DEF Extends, MoreSymbols
<1> QED
  BY <1>3, <1>14, <1>15, Carried, Zenon

LEMMA AddDynamicKeeps ==
    ASSUME NEW f \in Files, Opens(f, added),
           Tables(sec, added, class, need_conversion),
           NEW tag \in Tags \ StringTags, NEW value \in Numbers,
           AddDynamic(tag, value)
    PROVE  TableInv'
<1>1. Building /\ tag \in Values(4) \ StringTags /\ value \in Values(8)
  BY NumbersTyped DEF AddDynamic
<1>2. /\ sec' = WithDynamic(sec, tag, value)
      /\ added' = PlusDynamic(added, AskedDynamic(tag, value, NoName))
  BY DEF AddDynamic, WithDynamic, PlusDynamic, AskedDynamic
<1>3. Opened /\ UNCHANGED <<class, need_conversion, links, segs, hash>>
  BY <1>1, Adding, Zenon
<1>4. /\ Len(added.symbols) + Len(added.dynamic) + 1
           <= Len(f.symbols) + MaxAdded
      /\ Len(added.symbols) + Len(added.dynamic) \in Nat
      /\ Len(added.symbols) \in Nat /\ Len(added.dynamic) \in Nat
  BY <1>1, OneMoreFits, Zenon
<1>5. /\ Tables(sec', added', class, need_conversion)
      /\ MoreDynamics(added', added)
  <2>1. /\ Tables(WithDynamic(sec, tag, value),
                  PlusDynamic(added, AskedDynamic(tag, value, NoName)),
                  class, need_conversion)
        /\ MoreDynamics(PlusDynamic(added, AskedDynamic(tag, value, NoName)),
                        added)
    BY <1>1, <1>3, <1>4, DynamicStep, Zenon
  <2> QED
    BY <1>2, <2>1
<1>6. Extends(f, added, added')
  <2>1. \A s, d \in Nat : s + d + 1 = s + (d + 1) /\ s <= s
    OBVIOUS
  <2> QED
    BY <1>4, <1>5, <2>1 DEF Extends, MoreDynamics
<1> QED
  BY <1>3, <1>5, <1>6, Carried, Zenon

LEMMA AddDynamicStringKeeps ==
    ASSUME NEW f \in Files, Opens(f, added),
           Tables(sec, added, class, need_conversion),
           NEW tag \in Tags \cap StringTags, NEW str \in Strings,
           AddDynamicString(tag, str)
    PROVE  TableInv'
<1> DEFINE at == StringPosition(sec.strtab)
<1>1. Building /\ tag \in Values(4) \cap StringTags
  BY NumbersTyped DEF AddDynamicString
<1>2. /\ sec' = WithDynamicString(sec, tag, str)
      /\ added' = PlusDynamic(added, AskedDynamic(tag, at, str))
  BY DEF AddDynamicString, WithDynamicString, PlusDynamic, AskedDynamic
<1>3. Opened /\ UNCHANGED <<class, need_conversion, links, segs, hash>>
      /\ Len(added.symbols) + Len(added.dynamic) <= Len(f.symbols) + MaxAdded
  BY <1>1, Adding, Zenon
<1>4. /\ Len(added.symbols) + Len(added.dynamic) + 1
           <= Len(f.symbols) + MaxAdded
      /\ Len(added.symbols) \in Nat /\ Len(added.dynamic) \in Nat
  BY <1>1, OneMoreFits, Zenon
<1>5. at = StringPosition(sec.strtab)
  OBVIOUS
<1> HIDE DEF at
<1>6. /\ Tables(sec', added', class, need_conversion)
      /\ MoreDynamics(added', added)
  <2>1. /\ Tables(WithDynamicString(sec, tag, str),
                  PlusDynamic(added, AskedDynamic(tag, at, str)),
                  class, need_conversion)
        /\ MoreDynamics(PlusDynamic(added, AskedDynamic(tag, at, str)), added)
    BY <1>1, <1>3, <1>5, DynamicStringStep, Zenon
  <2> QED
    BY <1>2, <2>1
<1>7. Extends(f, added, added')
  <2>1. \A s, d \in Nat : s + d + 1 = s + (d + 1) /\ s <= s
    OBVIOUS
  <2> QED
    BY <1>4, <1>6, <2>1 DEF Extends, MoreDynamics
<1> QED
  BY <1>3, <1>6, <1>7, Carried, Zenon

LEMMA CopyKeeps ==
    ASSUME NEW f \in Files, Opens(f, added),
           Tables(sec, added, class, need_conversion), copy_dynamic
    PROVE  TableInv'
<1>1. /\ sec.dynamic1.size = 0 /\ sec' = WithCopies /\ added' = added
      /\ UNCHANGED <<class, need_conversion, links, segs, hash>>
  BY DEF copy_dynamic
<1>2. /\ Opened
      /\ Len(added.symbols) + Len(added.dynamic) <= Len(f.symbols) + MaxAdded
  BY FilesAssumption DEF Opens, File, Opened
<1>3. Tables(sec', added', class, need_conversion)
  <2>1. Tables(WithCopies, added, class, need_conversion)
    BY <1>1, <1>2, CopyStep, Zenon
  <2> QED
    BY <1>1, <2>1
<1>4. Extends(f, added, added')
  <2>1. /\ added'.linked = added.linked /\ added'.symbols = added.symbols
        /\ added'.dynamic = added.dynamic
    BY <1>1
  <2> QED
    BY <2>1, SameExtends, Zenon
<1> QED
  BY <1>1, <1>3, <1>4, Carried, Zenon

LEMMA AddNoteKeeps ==
    ASSUME NEW f \in Files, Opens(f, added),
           Tables(sec, added, class, need_conversion),
           NEW name \in Strings, NEW n \in {0, 6}, NEW bytes \in BOOLEAN,
           AddNote(1, name, n, bytes)
    PROVE  TableInv'
<1>1. /\ Building
      /\ sec' = [sec EXCEPT !.note = add_note(@, 1, name, n, bytes)]
      /\ added' = [added EXCEPT !.note =
                     Append(@, [type |-> 1, name |-> name, descSize |-> n,
                                bytes |-> bytes])]
  BY DEF AddNote
<1>2. Opened /\ UNCHANGED <<class, need_conversion, links, segs, hash>>
  BY <1>1, Adding, Zenon
<1>3. Tables(sec', added', class, need_conversion)
  BY <1>1, <1>2, NoteStep
<1>4. Extends(f, added, added')
  <2>1. DOMAIN added = Histories
    BY DEF Tables
  <2>2. /\ added'.linked = added.linked /\ added'.symbols = added.symbols
        /\ added'.dynamic = added.dynamic
    BY <1>1, <2>1 DEF Histories
  <2> QED
    BY <2>2, SameExtends, Zenon
<1> QED
  BY <1>2, <1>3, <1>4, Carried, Zenon

LEMMA LoadKeeps ==
    ASSUME NEW f \in Files, Opens(f, added),
           Tables(sec, added, class, need_conversion),
           UNCHANGED <<class, need_conversion, links, segs, hash, sec, added>>
    PROVE  TableInv'
<1>1. Tables(sec', added', class, need_conversion)
  OBVIOUS
<1>2. Extends(f, added, added')
  <2>1. /\ added'.linked = added.linked /\ added'.symbols = added.symbols
        /\ added'.dynamic = added.dynamic
    OBVIOUS
  <2> QED
    BY <2>1, SameExtends, Zenon
<1> QED
  BY <1>1, <1>2, Carried, Zenon

LEMMA TablesKept ==
    ASSUME TableInv, [Next]_vars
    PROVE  TableInv'
<1>1. PICK f \in Files : /\ Opens(f, added)
                         /\ Tables(sec, added, class, need_conversion)
  BY DEF TableInv
<1>2. ASSUME NEW str \in Strings, NEW value \in Numbers,
             AddSymbol(str, value, value, 1, 2)
      PROVE  TableInv'
  BY <1>1, <1>2, AddSymbolKeeps, Zenon
<1>3. ASSUME NEW symbol \in {1, Len(added.symbols)}, NEW offset \in Numbers,
             NEW type \in RelTypes, AddRel(symbol, offset, type)
      PROVE  TableInv'
  BY <1>1, <1>3, AddRelKeeps, Zenon
<1>4. ASSUME NEW symbol \in {1, Len(added.symbols)}, NEW offset \in Numbers,
             NEW type \in RelTypes, NEW addend \in Addends,
             AddRela(symbol, offset, type, addend)
      PROVE  TableInv'
  BY <1>1, <1>4, AddRelaKeeps, Zenon
<1>5. ASSUME NEW str \in Strings, NEW value \in Numbers,
             NEW offset \in Numbers,
             AddRelWithSymbol(str, value, offset, R_386_32)
      PROVE  TableInv'
  BY <1>1, <1>5, AddRelWithSymbolKeeps, Zenon
<1>6. ASSUME NEW tag \in Tags \ StringTags, NEW value \in Numbers,
             AddDynamic(tag, value)
      PROVE  TableInv'
  BY <1>1, <1>6, AddDynamicKeeps, Zenon
<1>7. ASSUME NEW tag \in Tags \cap StringTags, NEW str \in Strings,
             AddDynamicString(tag, str)
      PROVE  TableInv'
  BY <1>1, <1>7, AddDynamicStringKeeps, Zenon
<1>8. ASSUME NEW name \in Strings, NEW n \in {0, 6}, NEW bytes \in BOOLEAN,
             AddNote(1, name, n, bytes)
      PROVE  TableInv'
  BY <1>1, <1>8, AddNoteKeeps, Zenon
<1>9. ASSUME copy_dynamic PROVE TableInv'
  BY <1>1, <1>9, CopyKeeps, Zenon
<1>10. ASSUME save_and_load \/ tutorial \/ dump PROVE TableInv'
  <2>1. UNCHANGED <<class, need_conversion, links, segs, hash, sec, added>>
    BY <1>10 DEF save_and_load, tutorial, dump
  <2> QED
    BY <1>1, <2>1, LoadKeeps, Zenon
<1>11. ASSUME DumpStep \/ Done \/ UNCHANGED vars PROVE TableInv'
  <2>1. UNCHANGED <<class, need_conversion, links, segs, hash, sec, added>>
    BY <1>11 DEF DumpStep, section_headers, segment_headers, symbol_tables,
                 notes, dynamic_tags, section_datas, segment_datas, Dumping,
                 Done, vars
  <2> QED
    BY <1>1, <2>1, LoadKeeps, Zenon
<1> QED
  BY <1>2, <1>3, <1>4, <1>5, <1>6, <1>7, <1>8, <1>9, <1>10, <1>11
     DEF Next

LEMMA AlwaysTables == Spec => []TableInv
<1>1. Init => TableInv
  BY FirstTables
<1>2. TableInv /\ [Next]_vars => TableInv'
  BY TablesKept
<1> QED
  BY <1>1, <1>2, PTL DEF Spec

-----------------------------------------------------------------------------
(* What is read back.                                                      *)

LEMMA Reads ==
    ASSUME TableInv
    PROVE  /\ Opened /\ Tables(sec, added, class, need_conversion)
           /\ sec.strtab.size <= Limit(4) /\ sec.dynstr.size <= Limit(4)
           /\ Indexed(Len(added.symbols), class)
<1>1. PICK f \in Files : /\ Opens(f, added)
                         /\ Tables(sec, added, class, need_conversion)
  BY DEF TableInv
<1>2. Opened /\ class = f.class
  BY <1>1, FilesAssumption DEF File, Opens, Opened
<1>3. Len(added.symbols) + Len(added.dynamic) <= Len(f.symbols) + MaxAdded
  BY <1>1 DEF Opens
<1>4. /\ sec.strtab.size <= Limit(4) /\ sec.dynstr.size <= Limit(4)
      /\ Indexed(Len(added.symbols), f.class)
  BY <1>1, <1>3, StringsFit, Zenon
<1> QED
  BY <1>1, <1>2, <1>4

Read(e, r) ==
    LET x == generic_get_entry(e)
    IN  /\ x.symbol = r.symbol /\ x.type = r.type
        /\ x.offset = FitsAddr(r.offset) /\ x.addend = FitsAddend(r.addend)

LEMMA CalculatedRead ==
    ASSUME Opened,
           SymbolTable(sec.strtab, sec.symtab, added.symbols, class,
                       need_conversion),
           sec.strtab.size <= Limit(4),
           NEW s, NEW k \in Nat, NEW r, r.symbol \in 1..Len(added.symbols),
           Read(s.items[k], r)
    PROVE  get_calculated(s, k - 1) =
             [name |-> added.symbols[r.symbol].name,
              value |-> Sxword(Calculated(r.type,
                                          FitsAddr(added.symbols[r.symbol].value),
                                          FitsAddend(r.addend),
                                          FitsAddr(r.offset)))]
<1> DEFINE x == generic_get_entry(s.items[k])
           y == get_symbol(r.symbol)
           q == added.symbols[r.symbol]
<1>1. get_relocation(s, k - 1) = x
  <2>1. k - 1 + 1 = k
    OBVIOUS
  <2> QED
    BY <2>1 DEF get_relocation
<1>2. /\ x.symbol = r.symbol /\ x.type = r.type
      /\ x.offset = FitsAddr(r.offset) /\ x.addend = FitsAddend(r.addend)
  BY DEF Read
<1>3. y.name = q.name /\ y.value = Narrow(q.value, class \div 8)
  BY SymbolRead
<1>4. y.value = FitsAddr(q.value)
  BY <1>3, WidthIsSmall DEF FitsAddr, Opened
<1> HIDE DEF x, y, q
<1>5. get_calculated(s, k - 1)
        = [name |-> y.name,
           value |-> Signed(Narrow(Calculated(x.type, y.value, x.addend,
                                              x.offset), 8), 8)]
  BY <1>1, <1>2 DEF get_calculated, y
<1> QED
  BY <1>2, <1>3, <1>4, <1>5 DEF Sxword, q

(* RelocationsReachSymbols: in a file of either class and byte order every *)
(* relocation, written with add_entry and read with get_entry, leads to    *)
(* the symbol it was made for and is computed from that symbol's value.    *)
THEOREM EveryRelocationReaches == Spec => []RelocationsReachSymbols
<1>1. TableInv => RelocationsReachSymbols
  <2> SUFFICES ASSUME TableInv PROVE RelocationsReachSymbols
    OBVIOUS
  <2> DEFINE n == Len(added.symbols)
  <2>1. /\ Opened /\ Tables(sec, added, class, need_conversion)
        /\ sec.strtab.size <= Limit(4) /\ Indexed(n, class)
    BY Reads, Zenon
  <2>2. /\ SymbolTable(sec.strtab, sec.symtab, added.symbols, class,
                       need_conversion)
        /\ RelTable(sec.rel, added.rel, n, class, need_conversion)
        /\ RelaTable(sec.rela, added.rela, n, class, need_conversion)
    BY <2>1 DEF Tables
  <2>3. /\ added.rel \in Seq(Wanted) /\ added.rela \in Seq(Wanted)
        /\ DOMAIN added.rel = 1..Len(added.rel)
        /\ DOMAIN added.rela = 1..Len(added.rela)
        /\ Len(added.rel) \in Nat /\ Len(added.rela) \in Nat
    BY <2>2, LenProperties DEF RelTable, RelaTable
  <2> HIDE DEF n
  <2>4. \A v : FitsAddr(v) = Narrow(v, class \div 8)
    BY <2>1, WidthIsSmall DEF FitsAddr, Opened
  <2>5. ASSUME NEW k \in DOMAIN added.rel
        PROVE  Read(sec.rel.items[k], added.rel[k])
               /\ added.rel[k].symbol \in 1..n
    <3> DEFINE r == added.rel[k]
               e == sec.rel.items[k]
    <3>1. r \in Wanted /\ r.addend = 0
          /\ Stores(e, r, n, class, need_conversion)
      BY <2>2, <2>3, ElementOfSeq DEF RelTable
    <3>2. "r_addend" \notin DOMAIN e
      <4>1. sec.rel.items \in Seq(RelItems) /\ k \in 1..Len(sec.rel.items)
        BY <2>2, <2>3 DEF RelTable, Data, Section
      <4>2. e \in RelItems
        BY <4>1, ElementOfSeq
      <4> QED
        BY <4>2 DEF RelItems
    <3> HIDE DEF r, e
    <3>3. LET x == generic_get_entry(e)
          IN  /\ x.symbol = r.symbol /\ x.type = r.type
              /\ x.offset = Narrow(r.offset, class \div 8) /\ x.addend = 0
      BY <2>1, <3>1, <3>2, RelocationRead
    <3>4. FitsAddend(0) = 0
      <4>1. class \div 8 \in {4, 8} /\ Width("Native", class) = class \div 8
        BY <2>1, WidthIsSmall DEF Opened
      <4>2. Limit(class \div 8) \in Nat \ {0}
        BY <4>1, Limits
      <4>3. \A l \in Nat \ {0} : 0 % l = 0 /\ 2 * 0 < l
        OBVIOUS
      <4> QED
        BY <4>1, <4>2, <4>3 DEF FitsAddend, Narrow, Signed
    <3> QED
      BY <2>4, <3>1, <3>3, <3>4 DEF Read, Stores, r, e
  <2>6. ASSUME NEW k \in DOMAIN added.rela
        PROVE  Read(sec.rela.items[k], added.rela[k])
               /\ added.rela[k].symbol \in 1..n
    <3> DEFINE r == added.rela[k]
               e == sec.rela.items[k]
    <3>1. /\ r \in Wanted /\ Stores(e, r, n, class, need_conversion)
          /\ e.r_addend = Kept(r.addend, class \div 8, need_conversion)
      BY <2>2, <2>3, ElementOfSeq DEF RelaTable
    <3>2. "r_addend" \in DOMAIN e
      <4>1. sec.rela.items \in Seq(RelaItems) /\ k \in 1..Len(sec.rela.items)
        BY <2>2, <2>3 DEF RelaTable, Data, Section
      <4>2. e \in RelaItems
        BY <4>1, ElementOfSeq
      <4> QED
        BY <4>2 DEF RelaItems
    <3> HIDE DEF r, e
    <3>3. LET x == generic_get_entry(e)
          IN  /\ x.symbol = r.symbol /\ x.type = r.type
              /\ x.offset = Narrow(r.offset, class \div 8)
              /\ x.addend = FitsAddend(r.addend)
      BY <2>1, <3>1, <3>2, RelocationRead
    <3> QED
      BY <2>4, <3>1, <3>3 DEF Read, Stores, r, e
  <2>7. ASSUME NEW kind \in {"rel", "rela"}, NEW k \in DOMAIN added[kind]
        PROVE  LET r == added[kind][k]
                   s == added.symbols[r.symbol]
               IN  get_calculated(sec[kind], k - 1) =
                     [name |-> s.name,
                      value |-> Sxword(Calculated(r.type, FitsAddr(s.value),
                                                  FitsAddend(r.addend),
                                                  FitsAddr(r.offset)))]
    <3> DEFINE r == added[kind][k]
               t == sec[kind]
    <3>1. k \in Nat /\ Read(t.items[k], r) /\ r.symbol \in 1..n
      BY <2>3, <2>5, <2>6
    <3> HIDE DEF r, t
    <3>2. get_calculated(t, k - 1) =
             [name |-> added.symbols[r.symbol].name,
              value |-> Sxword(Calculated(r.type,
                                          FitsAddr(added.symbols[r.symbol].value),
                                          FitsAddend(r.addend),
                                          FitsAddr(r.offset)))]
      BY <2>1, <2>2, <3>1, CalculatedRead DEF n
    <3> QED
      BY <3>2 DEF r, t
  <2> QED
    BY <2>7 DEF RelocationsReachSymbols
<1> QED
  BY <1>1, AlwaysTables, PTL

(* LookupByName: where the linker's hash table is the first section linked *)
(* to the symbols of a file in the host's byte order, get_symbol by name   *)
(* finds the names that the linker hashed, as symbols of those names, and  *)
(* no others; it always ends, and never leaves the tables.                 *)
THEOREM EveryNameFound == Spec => []LookupByName
<1>1. TableInv => LookupByName
  <2> SUFFICES ASSUME TableInv, links # <<>>, Head(links) = "hash",
                      ~need_conversion, NEW name \in Strings
               PROVE  LET y == get_symbol_by_name(name)
                      IN  /\ (\E k \in 1..added.linked :
                                 added.symbols[k].name = name)
                                <=> y \in 1..added.linked
                          /\ y \in 1..added.linked =>
                                get_symbol(y).name = name
                          /\ y # Wild
    BY DEF LookupByName
  <2>1. PICK f \in Files : Opens(f, added)
    BY DEF TableInv
  <2>2. /\ hash = HashWords(f.symbols, f.nbucket)
        /\ Begins(f.symbols, added.symbols) /\ added.linked = Len(f.symbols)
    BY <2>1 DEF Opens
  <2>3. /\ Opened /\ sec.strtab.size <= Limit(4)
        /\ SymbolTable(sec.strtab, sec.symtab, added.symbols, class,
                       need_conversion)
    BY Reads DEF Tables
  <2> DEFINE y == get_symbol_by_name(name)
  <2>4. y = get_symbol_by_name(name)
    OBVIOUS
  <2> HIDE DEF y
  <2>5. /\ (\E k \in 1..Len(f.symbols) : added.symbols[k].name = name)
              <=> y \in 1..Len(f.symbols)
        /\ y \in 1..Len(f.symbols) => get_symbol(y).name = name
        /\ y # Wild
    BY <2>2, <2>3, <2>4, NamesFound
  <2> QED
    BY <2>2, <2>5 DEF y
<1> QED
  BY <1>1, AlwaysTables, PTL

(* DynamicReadBack: what add_entry of the dynamic section wrote is what    *)
(* get_entry reads, unless a 32-bit file has the other byte order, where   *)
(* every entry is read as the end mark; and a section made of what was     *)
(* read has the same tags, strings and values.                             *)
THEOREM EveryEntryReadBack == Spec => []DynamicReadBack
<1>1. TableInv => DynamicReadBack
  <2> SUFFICES ASSUME TableInv PROVE DynamicReadBack
    OBVIOUS
  <2>1. /\ Opened /\ sec.strtab.size <= Limit(4) /\ sec.dynstr.size <= Limit(4)
        /\ DynTable(sec.dynamic, sec.strtab, added.dynamic, class,
                    need_conversion)
        /\ CopyTable(sec.dynamic1, sec.dynstr, added.dynamic, class,
                     need_conversion)
    BY Reads DEF Tables
  <2>2. /\ DOMAIN added.dynamic = 1..Len(added.dynamic)
        /\ DOMAIN sec.dynamic1.items = 1..Len(sec.dynamic1.items)
    BY <2>1, LenProperties DEF DynTable, CopyTable, Data, Section
  <2>3. \A k \in 1..Len(added.dynamic) :
           get_dynamic(sec.dynamic, sec.strtab, k - 1)
             = ReadAs(added.dynamic[k], class, need_conversion)
    BY <2>1, DynamicRead
  <2>4. ASSUME NEW k \in DOMAIN added.dynamic
        PROVE  LET e == added.dynamic[k]
                   v == IF e.tag \in ValuelessTags THEN 0
                        ELSE Narrow(e.value, Width("Native", class))
               IN  get_dynamic(sec.dynamic, sec.strtab, k - 1) =
                     IF class = 32 /\ need_conversion
                     THEN [tag |-> DT_NULL, value |-> 0, str |-> NoName]
                     ELSE [tag |-> e.tag, value |-> v, str |-> e.str]
    <3>1. Width("Native", class) = class \div 8
      BY <2>1, WidthIsSmall DEF Opened
    <3>2. get_dynamic(sec.dynamic, sec.strtab, k - 1)
            = ReadAs(added.dynamic[k], class, need_conversion)
      BY <2>2, <2>3
    <3> QED
      BY <3>1, <3>2 DEF ReadAs, Swapped, Valued
  <2>5. ASSUME NEW k \in DOMAIN sec.dynamic1.items
        PROVE  LET e == get_dynamic(sec.dynamic, sec.strtab, k - 1)
                   c == get_dynamic(sec.dynamic1, sec.dynstr, k - 1)
               IN  /\ c.tag = e.tag /\ c.str = e.str
                   /\ e.tag \notin StringTags => c.value = e.value
    <3> DEFINE r == ReadAs(added.dynamic[k], class, need_conversion)
               c == get_dynamic(sec.dynamic1, sec.dynstr, k - 1)
    <3>1. /\ k \in 1..Len(added.dynamic) /\ c.tag = r.tag /\ c.str = r.str
          /\ r.tag \notin StringTags => c.value = r.value
      BY <2>1, <2>2, CopyRead
    <3>2. get_dynamic(sec.dynamic, sec.strtab, k - 1) = r
      BY <2>3, <3>1
    <3> HIDE DEF r, c
    <3> QED
      BY <3>1, <3>2 DEF c
  <2> QED
    BY <2>4, <2>5 DEF DynamicReadBack
<1> QED
  BY <1>1, AlwaysTables, PTL

(* NotesReadBack: process_section finds every note where it was added,     *)
(* exactly if each of them but the last one was given the bytes of its     *)
(* description, or has none.                                               *)
THEOREM EveryNoteFound == Spec => []NotesReadBack
<1>1. TableInv => NotesReadBack
  <2> SUFFICES ASSUME TableInv PROVE NotesReadBack
    OBVIOUS
  <2>1. PICK f \in Files : Opens(f, added)
    BY DEF TableInv
  <2>2. Opened /\ NoteTable(sec.note, added.note, need_conversion)
    BY Reads DEF Tables
  <2> QED
    BY <2>2, NotesFound DEF NotesReadBack
<1> QED
  BY <1>1, AlwaysTables, PTL

-----------------------------------------------------------------------------
(* The dump.                                                               *)

(* A note that was given its description is read as it was added.          *)
LEMMA NoteRead ==
    ASSUME Opened, NEW f \in Files, NEW s, NEW asked,
           NoteTable(s, asked, need_conversion), NEW k \in 1..Len(asked),
           Whole(asked[k])
    PROVE  /\ s.items[k].at \in Nat
           /\ get_note(s, s.items[k].at)
                = [type |-> asked[k].type, name |-> asked[k].name,
                   descSize |-> asked[k].descSize]
<1> DEFINE at == s.items[k].at
           r == asked[k]
           e == s.items[k]
<1>1. /\ s.items \in Seq(NoteItems) /\ asked \in Seq(NoteRequests)
      /\ Len(s.items) = Len(asked) /\ s.size \in Nat
      /\ \A j \in 1..Len(asked) :
            /\ s.items[j].at + Bytes(asked[j]) <= s.size
            /\ \A l \in 1..Len(asked) :
                 j < l => s.items[j].at + Bytes(asked[j]) <= s.items[l].at
      /\ IsNote(e, r, need_conversion)
  BY DEF NoteTable, Data, Section
<1>2. DOMAIN s.items = 1..Len(asked) /\ Len(asked) \in Nat
  BY <1>1, LenProperties
<1>3. \A j \in 1..Len(asked) :
         s.items[j].at \in Nat /\ Bytes(asked[j]) \in Nat
         /\ 12 < Bytes(asked[j])
  <2> TAKE j \in 1..Len(asked)
  <2>1. s.items[j] \in NoteItems /\ asked[j] \in NoteRequests
    BY <1>1, ElementOfSeq
  <2> QED
    BY <2>1, NoteBytes DEF NoteItems
<1>4. \A j \in 1..Len(asked) : s.items[j].at = at => j = k
  <2> TAKE j \in 1..Len(asked)
  <2> SUFFICES ASSUME j # k PROVE s.items[j].at # at
    OBVIOUS
  <2>1. \A a, b, n \in Nat : 12 < n /\ a + n <= b => a # b
    OBVIOUS
  <2>2. j < k \/ k < j
    BY <1>2
  <2>3. CASE j < k
    <3>1. s.items[j].at + Bytes(asked[j]) <= at
      BY <1>1, <2>3
    <3> HIDE DEF at
    <3>2. at \in Nat
      BY <1>3 DEF at
    <3> QED
      BY <1>3, <2>1, <3>1, <3>2
  <2>4. CASE k < j
    <3>1. at + Bytes(asked[k]) <= s.items[j].at
      BY <1>1, <2>4
    <3> HIDE DEF at
    <3>2. at \in Nat
      BY <1>3 DEF at
    <3> QED
      BY <1>3, <2>1, <3>1, <3>2
  <2> QED
    BY <2>2, <2>3, <2>4
<1>5. (CHOOSE x \in {s.items[j] : j \in DOMAIN s.items} : x.at = at) = e
  BY <1>2, <1>4
<1>6. r \in NoteRequests
  BY <1>1, ElementOfSeq
<1>7. /\ Fetched(e.note.namesz, "Word") = StringSize(r.name) + 1
      /\ Fetched(e.note.descsz, "Word") = r.descSize
      /\ Fetched(e.note.type, "Word") = 1
  BY <1>1, <1>6, NoteSizesRead
<1>8. e.note.name = r.name /\ r.type = 1
  BY <1>1, <1>6 DEF IsNote, NoteRequests
<1>9. ~(StringSize(r.name) + 1 + r.descSize > s.size - at)
  <2>1. /\ StringSize(r.name) + 1 + r.descSize <= Bytes(r)
        /\ StringSize(r.name) \in Nat
    BY <1>6, NoteBytes
  <2>2. at + Bytes(r) <= s.size /\ at \in Nat /\ Bytes(r) \in Nat
    BY <1>1, <1>3
  <2>3. r.descSize \in Nat
    BY <1>6 DEF NoteRequests
  <2> HIDE DEF at, r
  <2>4. \A a, b, c, d \in Nat : c <= b /\ a + b <= d => ~(c > d - a)
    OBVIOUS
  <2>5. StringSize(r.name) + 1 + r.descSize \in Nat
    BY <2>1, <2>3
  <2> QED
    BY <1>1, <2>1, <2>2, <2>4, <2>5
<1>10. get_note(s, at) = [type |-> 1, name |-> r.name, descSize |-> r.descSize]
  <2> HIDE DEF e, at, r
  <2> QED
    BY <1>5, <1>7, <1>8, <1>9 DEF get_note
<1> QED
  BY <1>3, <1>8, <1>10

(* What the headers count.                                                 *)
LEMMA Counts ==
    ASSUME TableInv
    PROVE  /\ get_entries_num(sec.symtab) = Len(added.symbols) + 1
           /\ get_entries_num(sec.rel) = Len(added.rel)
           /\ get_entries_num(sec.rela) = Len(added.rela)
           /\ get_entries_num(sec.dynamic) = Len(added.dynamic)
           /\ Len(added.symbols) \in Nat \ {0} /\ Len(added.dynamic) \in Nat
<1>1. Opened /\ Tables(sec, added, class, need_conversion)
  BY Reads, Zenon
<1>2. /\ Len(added.symbols) \in Nat \ {0} /\ Len(added.rel) \in Nat
      /\ Len(added.rela) \in Nat /\ Len(added.dynamic) \in Nat
  BY <1>1, Lengths, Zenon
<1>3. /\ SizeOf(Sym, class) \in Nat \ {0} /\ SizeOf(Dyn, class) \in Nat \ {0}
      /\ SizeOf(Rel, class) \in Nat \ {0} /\ SizeOf(Rela, class) \in Nat \ {0}
  BY <1>1, EntrySizes DEF Opened
<1>4. /\ sec.symtab.entry_size = SizeOf(Sym, class)
      /\ sec.symtab.size = (Len(added.symbols) + 1) * SizeOf(Sym, class)
      /\ sec.rel.entry_size = SizeOf(Rel, class)
      /\ sec.rel.size = Len(added.rel) * SizeOf(Rel, class)
      /\ sec.rela.entry_size = SizeOf(Rela, class)
      /\ sec.rela.size = Len(added.rela) * SizeOf(Rela, class)
      /\ sec.dynamic.entry_size = SizeOf(Dyn, class)
      /\ sec.dynamic.size = Len(added.dynamic) * SizeOf(Dyn, class)
  BY <1>1 DEF Tables, SymbolTable, RelTable, RelaTable, DynTable
<1>5. ASSUME NEW s, NEW n \in Nat, NEW z \in Nat \ {0},
             s.entry_size = z, s.size = n * z
      PROVE  get_entries_num(s) = n
  <2>1. (n * z) \div z = n
    OBVIOUS
  <2> QED
    BY <1>5, <2>1 DEF get_entries_num
<1>6. Len(added.symbols) + 1 \in Nat
  BY <1>2
<1> QED
  BY <1>2, <1>3, <1>4, <1>5, <1>6

(* Loading does not move the notes.                                        *)
LEMMA NotesStay ==
    ASSUME NEW s, NEW t, t.items = s.items, t.size = s.size
    PROVE  process_section(t) = process_section(s)
BY DEF process_section

LEMMA FirstDump == Init => DumpInv
BY DEF Init, NothingShown, DumpInv, BySymbols, ByNotes, ByDynamic, ByData

(* What a step does not change says the same after it.                     *)
LEMMA Unmoved ==
    ASSUME UNCHANGED <<class, need_conversion, segs, sec, added>>
    PROVE  /\ process_section(sec.note)' = process_section(sec.note)
           /\ Headers' = Headers /\ AllWhole' = AllWhole
           /\ \A n : Reading(n)' = Reading(n)
           /\ \A k : EndMark(k)' = EndMark(k)
           /\ Entries' = Entries
<1>1. process_section(sec.note)' = process_section(sec.note)
  BY DEF process_section, Fetched
<1>2. Headers' = Headers
  BY DEF Headers
<1>3. AllWhole' = AllWhole /\ \A n : Reading(n)' = Reading(n)
  BY DEF AllWhole, Reading
<1>4. (\A k : EndMark(k)' = EndMark(k)) /\ Entries' = Entries
  BY DEF EndMark, Entries
<1> QED
  BY <1>1, <1>2, <1>3, <1>4

(* Before the dump begins.                                                 *)
LEMMA BuildKeepsDump ==
    ASSUME DumpInv, pc = "build", UNCHANGED <<pc, i, shown>>
    PROVE  DumpInv'
BY DEF DumpInv, BySymbols, ByNotes, ByDynamic, ByData

LEMMA StutterKeepsDump ==
    ASSUME DumpInv, UNCHANGED vars
    PROVE  DumpInv'
<1>1. /\ UNCHANGED <<class, need_conversion, segs, sec, added>>
      /\ UNCHANGED <<note_start_positions, pc, i, shown>>
  BY DEF vars
<1>2. /\ process_section(sec.note)' = process_section(sec.note)
      /\ Headers' = Headers /\ AllWhole' = AllWhole
      /\ \A n : Reading(n)' = Reading(n)
      /\ \A k : EndMark(k)' = EndMark(k)
      /\ Entries' = Entries
  BY <1>1, Unmoved
<1> QED
  BY <1>1, <1>2 DEF DumpInv

LEMMA DumpBegins ==
    ASSUME TableInv, DumpInv, dump
    PROVE  DumpInv'
<1>1. /\ note_start_positions' = process_section(sec.note)
      /\ pc = "build" /\ pc' = "headers"
      /\ UNCHANGED <<class, need_conversion, segs, sec, added, i, shown>>
  BY DEF dump
<1>2. process_section(sec.note)' = process_section(sec.note)
  BY <1>1, Unmoved
<1>3. (note_start_positions = process_section(sec.note))'
  BY <1>1, <1>2
<1> QED
  BY <1>1, <1>3 DEF DumpInv, BySymbols, ByNotes, ByDynamic, ByData

LEMMA Listed ==
    ASSUME TableInv, DumpInv, tutorial
    PROVE  DumpInv'
<1>1. /\ pc = "build" /\ pc' = "listed" /\ added' = added
      /\ shown' = [shown EXCEPT !.headers = Headers, !.segments = segs,
                     !.symbols = 0..(get_entries_num(sec.symtab) - 1)]
  BY DEF tutorial
<1>2. get_entries_num(sec.symtab) - 1 = Len(added.symbols)
  BY Counts
<1>3. DOMAIN shown = {"headers", "segments", "segdata", "symbols", "notes",
                      "dynamic", "data"}
  BY DEF DumpInv
<1>4. /\ shown'.symbols = 0..Len(added.symbols)
      /\ DOMAIN shown' = DOMAIN shown
  BY <1>1, <1>2, <1>3
<1> QED
  BY <1>1, <1>3, <1>4 DEF DumpInv, BySymbols, ByNotes, ByDynamic, ByData

LEMMA HeadersShown ==
    ASSUME DumpInv, section_headers \/ segment_headers
    PROVE  DumpInv'
<1>1. /\ UNCHANGED <<class, need_conversion, segs, sec, added>>
      /\ note_start_positions' = note_start_positions
  BY DEF section_headers, segment_headers, Dumping
<1>2. /\ process_section(sec.note)' = process_section(sec.note)
      /\ Headers' = Headers
  BY <1>1, Unmoved
<1>3. CASE section_headers
  <2>1. /\ pc = "headers" /\ pc' = "segments" /\ i' = i
        /\ shown' = [shown EXCEPT !.headers = Headers]
    BY <1>3 DEF section_headers, Dumping
  <2> QED
    BY <1>1, <1>2, <2>1 DEF DumpInv, BySymbols, ByNotes, ByDynamic, ByData
<1>4. CASE segment_headers
  <2>1. /\ pc = "segments" /\ pc' = "symbols" /\ i' = 0
        /\ shown' = [shown EXCEPT !.segments = segs]
    BY <1>4 DEF segment_headers, Dumping
  <2>2. Limit(2) \in Nat \ {0} /\ 0 \in 0..(Limit(2) - 1) /\ 0..(0 - 1) = {}
    BY Limits
  <2> QED
    BY <1>1, <1>2, <2>1, <2>2 DEF DumpInv, BySymbols, ByNotes, ByDynamic, ByData
<1> QED
  BY <1>3, <1>4

LEMMA SymbolsShown ==
    ASSUME TableInv, DumpInv, symbol_tables
    PROVE  DumpInv'
<1> DEFINE n == Len(added.symbols)
<1>1. /\ UNCHANGED <<class, need_conversion, segs, sec, added>>
      /\ note_start_positions' = note_start_positions /\ pc = "symbols"
  BY DEF symbol_tables, Dumping
<1>2. /\ process_section(sec.note)' = process_section(sec.note)
      /\ Headers' = Headers /\ AllWhole' = AllWhole
      /\ \A m : Reading(m)' = Reading(m)
  BY <1>1, Unmoved
<1>3. get_entries_num(sec.symtab) = n + 1 /\ n \in Nat
  BY Counts
<1>4. Limit(2) \in Nat \ {0} /\ Width("Half", class) = 2
  <2>1. class \in Classes
    BY Reads DEF Opened
  <2> QED
    BY <2>1, Limits, WidthIsSmall
<1>5. /\ i \in 0..(Limit(2) - 1)
      /\ n + 1 < Limit(2) => i <= n + 1 /\ shown.symbols = 0..(i - 1)
  BY <1>1 DEF DumpInv
<1> HIDE DEF n
<1>6. CASE i < n + 1
  <2>1. /\ shown' = [shown EXCEPT !.symbols = @ \cup {i}]
        /\ i' = (i + 1) % Limit(2) /\ pc' = pc
    BY <1>3, <1>4, <1>6 DEF symbol_tables, Narrow
  <2>2. DOMAIN shown = {"headers", "segments", "segdata", "symbols", "notes",
                        "dynamic", "data"}
    BY DEF DumpInv
  <2>3. i' \in 0..(Limit(2) - 1)
    <3>1. \A v \in Nat, l \in Nat \ {0} : v % l \in 0..(l - 1)
      OBVIOUS
    <3>2. i + 1 \in Nat
      BY <1>4, <1>5
    <3> QED
      BY <1>4, <2>1, <3>1, <3>2
  <2>4. n + 1 < Limit(2) => i' <= n + 1 /\ shown'.symbols = 0..(i' - 1)
    <3> SUFFICES ASSUME n + 1 < Limit(2)
                 PROVE  i' <= n + 1 /\ shown'.symbols = 0..(i' - 1)
      OBVIOUS
    <3>1. i \in Nat /\ i + 1 \in 0..(Limit(2) - 1)
      BY <1>3, <1>4, <1>5, <1>6
    <3>2. \A l \in Nat \ {0} : \A v \in 0..(l - 1) : v % l = v
      OBVIOUS
    <3>3. i' = i + 1
      BY <1>4, <2>1, <3>1, <3>2
    <3>4. 0..(i - 1) \cup {i} = 0..(i + 1 - 1)
      BY <3>1
    <3> QED
      BY <1>3, <1>5, <1>6, <2>1, <2>2, <3>1, <3>3, <3>4
  <2> QED
    BY <1>1, <1>2, <2>1, <2>2, <2>3, <2>4
       DEF DumpInv, BySymbols, ByNotes, ByDynamic, ByData, n
<1>7. CASE ~(i < n + 1)
  <2>1. pc' = "notes" /\ i' = 0 /\ shown' = shown
    BY <1>3, <1>7 DEF symbol_tables
  <2>2. shown.symbols = 0..n
    <3>1. n + 1 < Limit(2) /\ i = n + 1 /\ i - 1 = n
      BY <1>3, <1>4, <1>5, <1>7
    <3> QED
      BY <1>5, <3>1
  <2>3. Reading(0) = <<>>
    BY DEF Reading
  <2>4. 0 \in 0..Len(added.note)
    <3>1. Len(added.note) \in Nat
      <4>1. Tables(sec, added, class, need_conversion)
        BY Reads, Zenon
      <4> QED
        BY <4>1, Lengths, Zenon
    <3> QED
      BY <3>1
  <2> QED
    BY <1>1, <1>2, <2>1, <2>2, <2>3, <2>4
       DEF DumpInv, BySymbols, ByNotes, ByDynamic, ByData, n
<1> QED
  BY <1>6, <1>7

LEMMA OneMoreReading ==
    ASSUME NEW n \in Nat
    PROVE  Append(Reading(n), [type |-> added.note[n + 1].type,
                               name |-> added.note[n + 1].name,
                               descSize |-> added.note[n + 1].descSize])
             = Reading(n + 1)
<1> DEFINE R(k) == [type |-> added.note[k].type, name |-> added.note[k].name,
                    descSize |-> added.note[k].descSize]
           S == {R(k) : k \in 1..(n + 1)}
           x == R(n + 1)
           s == Append(Reading(n), x)
<1>1. \A k \in 1..(n + 1) : R(k) \in S
  OBVIOUS
<1>2. \A m : Reading(m) = [k \in 1..m |-> R(k)]
  BY DEF Reading
<1> HIDE DEF R, S
<1>3. Reading(n) \in Seq(S) /\ Len(Reading(n)) = n
  BY <1>1, <1>2
<1>4. x \in S
  BY <1>1
<1>5. /\ s \in Seq(S) /\ Len(s) = n + 1
      /\ \A k \in 1..n : s[k] = Reading(n)[k]
      /\ s[n + 1] = x
  BY <1>3, <1>4, AppendProperties
<1> HIDE DEF s, x
<1>6. \A k \in 1..(n + 1) : s[k] = R(k)
  <2> TAKE k \in 1..(n + 1)
  <2>1. CASE k = n + 1
    BY <1>5, <2>1 DEF x
  <2>2. CASE k \in 1..n
    BY <1>2, <1>5, <2>2
  <2> QED
    BY <2>1, <2>2
<1>7. s = [k \in 1..(n + 1) |-> R(k)]
  BY <1>5, <1>6
<1>8. s = Reading(n + 1)
  BY <1>2, <1>7
<1> QED
  BY <1>8 DEF s, x, R

LEMMA NotesShown ==
    ASSUME TableInv, DumpInv, notes
    PROVE  DumpInv'
<1> DEFINE n == Len(added.note)
<1>1. /\ UNCHANGED <<class, need_conversion, segs, sec, added>>
      /\ note_start_positions' = note_start_positions /\ pc = "notes"
  BY DEF notes, Dumping
<1>2. /\ process_section(sec.note)' = process_section(sec.note)
      /\ Headers' = Headers /\ AllWhole' = AllWhole
      /\ \A m : Reading(m)' = Reading(m)
  BY <1>1, Unmoved
<1>3. PICK f \in Files : Opens(f, added)
  BY DEF TableInv
<1>4. Opened /\ NoteTable(sec.note, added.note, need_conversion)
      /\ Tables(sec, added, class, need_conversion)
  BY Reads DEF Tables
<1>5. n \in Nat /\ DOMAIN added.note = 1..n /\ sec.note.items \in Seq(NoteItems)
      /\ Len(sec.note.items) = n /\ DOMAIN sec.note.items = 1..n
  BY <1>4, LenProperties DEF NoteTable, Data, Section
<1>6. ASSUME AllWhole
      PROVE  /\ Len(note_start_positions) = n
             /\ \A k \in 1..n : note_start_positions[k] = sec.note.items[k].at
             /\ i \in 0..n /\ shown.notes = Reading(i)
  <2>1. \A k \in 1..(n - 1) : Whole(added.note[k])
    BY <1>5, <1>6 DEF AllWhole
  <2>2. process_section(sec.note) = StartsOf(sec.note)
    BY <1>3, <1>4, <2>1, NotesFound
  <2>3. note_start_positions = [k \in 1..n |-> sec.note.items[k].at]
    BY <1>1, <1>5, <2>2 DEF StartsOf, DumpInv, BySymbols
  <2> QED
    BY <1>1, <1>5, <1>6, <2>3 DEF DumpInv
<1> HIDE DEF n
<1>7. CASE i < Len(note_start_positions)
  <2> DEFINE at == note_start_positions[i + 1]
             note == IF at = Wild THEN NoNote ELSE get_note(sec.note, at)
  <2>1. /\ shown' = [shown EXCEPT !.notes =
                       IF note = NoNote THEN @ ELSE Append(@, note)]
        /\ i' = i + 1 /\ pc' = pc
    BY <1>7 DEF notes
  <2> HIDE DEF note
  <2>2. ASSUME AllWhole
        PROVE  i' \in 0..n /\ shown'.notes = Reading(i')
    <3>1. i \in Nat /\ i + 1 \in 1..n /\ i' \in 0..n
      BY <1>5, <1>6, <1>7, <2>1, <2>2
    <3> DEFINE k == i + 1
               r == [type |-> added.note[k].type, name |-> added.note[k].name,
                     descSize |-> added.note[k].descSize]
    <3>2. Whole(added.note[k])
      BY <1>5, <2>2, <3>1 DEF AllWhole
    <3>3. at = sec.note.items[k].at
      BY <1>6, <2>2, <3>1
    <3>4. at \in Nat /\ get_note(sec.note, at) = r
      BY <1>3, <1>4, <3>1, <3>2, <3>3, NoteRead DEF n
    <3>5. r.type = 1
      <4>1. added.note[k] \in NoteRequests
        <5>1. added.note \in Seq(NoteRequests)
          BY <1>4 DEF NoteTable
        <5> QED
          BY <3>1, <5>1, ElementOfSeq DEF n
      <4> QED
        BY <4>1 DEF NoteRequests
    <3>6. r # NoNote /\ at # Wild
      BY <3>4, <3>5 DEF NoNote, Wild
    <3>7. note = r
      BY <3>4, <3>6 DEF note
    <3>8. DOMAIN shown = {"headers", "segments", "segdata", "symbols",
                          "notes", "dynamic", "data"}
      BY DEF DumpInv
    <3>9. shown'.notes = Append(shown.notes, r)
      BY <2>1, <3>6, <3>7, <3>8
    <3> QED
      BY <1>6, <2>1, <2>2, <3>1, <3>9, OneMoreReading
  <2>3. /\ DOMAIN shown' = DOMAIN shown /\ shown'.headers = shown.headers
        /\ shown'.segments = shown.segments /\ shown'.symbols = shown.symbols
        /\ shown'.dynamic = shown.dynamic
    BY <2>1 DEF DumpInv
  <2> QED
    BY <1>1, <1>2, <2>1, <2>2, <2>3
       DEF DumpInv, BySymbols, ByNotes, ByDynamic, ByData, n
<1>8. CASE ~(i < Len(note_start_positions))
  <2>1. pc' = "dynamic" /\ i' = 0 /\ shown' = shown
    BY <1>8 DEF notes
  <2>2. AllWhole => shown.notes = Reading(n)
    <3> SUFFICES ASSUME AllWhole PROVE shown.notes = Reading(n)
      OBVIOUS
    <3>1. i = n
      BY <1>5, <1>6, <1>8
    <3> QED
      BY <1>6, <3>1
  <2>3. shown.dynamic = <<>> /\ Len(<<>>) = 0 /\ <<>> \in Seq(Entries)
    BY <1>1 DEF DumpInv
  <2>4. 0 \in 0..Len(added.dynamic)
    <3>1. Len(added.dynamic) \in Nat
      BY Counts
    <3> QED
      BY <3>1
  <2>5. Entries' = Entries
    BY <1>1, Unmoved
  <2> QED
    BY <1>1, <1>2, <2>1, <2>2, <2>3, <2>4, <2>5
       DEF DumpInv, BySymbols, ByNotes, ByDynamic, ByData, n
<1> QED
  BY <1>7, <1>8

LEMMA DynamicShown ==
    ASSUME TableInv, DumpInv, dynamic_tags
    PROVE  DumpInv'
<1> DEFINE n == Len(added.dynamic)
           e == get_dynamic(sec.dynamic, sec.strtab, i)
<1>1. /\ UNCHANGED <<class, need_conversion, segs, sec, added>>
      /\ note_start_positions' = note_start_positions /\ pc = "dynamic"
  BY DEF dynamic_tags, Dumping
<1>2. /\ process_section(sec.note)' = process_section(sec.note)
      /\ Headers' = Headers /\ AllWhole' = AllWhole
      /\ \A m : Reading(m)' = Reading(m)
      /\ \A k : EndMark(k)' = EndMark(k)
      /\ Entries' = Entries
  BY <1>1, Unmoved
<1>3. get_entries_num(sec.dynamic) = n /\ n \in Nat
  BY Counts
<1>4. /\ i \in 0..n /\ Len(shown.dynamic) = i
      /\ shown.dynamic \in Seq(Entries) /\ \A k \in 1..i : ~EndMark(k)
      /\ DOMAIN shown = {"headers", "segments", "segdata", "symbols",
                         "notes", "dynamic", "data"}
  BY <1>1 DEF DumpInv
<1> HIDE DEF n, e
<1>5. CASE i < n
  <2>1. /\ shown' = [shown EXCEPT !.dynamic = Append(@, e)] /\ i' = i + 1
        /\ pc' = IF e.tag = DT_NULL THEN "data" ELSE pc
    BY <1>3, <1>5 DEF dynamic_tags, e
  <2>2. i + 1 \in 1..n /\ i + 1 \in 0..n /\ i + 1 - 1 = i
    BY <1>3, <1>4, <1>5
  <2>3. e = ReadAs(added.dynamic[i + 1], class, need_conversion)
    <3>1. /\ Opened /\ sec.strtab.size <= Limit(4)
          /\ DynTable(sec.dynamic, sec.strtab, added.dynamic, class,
                      need_conversion)
      BY Reads DEF Tables
    <3>2. \A k \in 1..n : get_dynamic(sec.dynamic, sec.strtab, k - 1)
                            = ReadAs(added.dynamic[k], class, need_conversion)
      BY <3>1, DynamicRead DEF n
    <3>3. get_dynamic(sec.dynamic, sec.strtab, (i + 1) - 1)
            = ReadAs(added.dynamic[i + 1], class, need_conversion)
      BY <2>2, <3>2, Zenon
    <3>4. (i + 1) - 1 = i
      BY <1>3, <1>4
    <3>5. e = get_dynamic(sec.dynamic, sec.strtab, (i + 1) - 1)
      BY <3>4, Zenon DEF e
    <3> QED
      BY <3>3, <3>5, Zenon
  <2>4. e \in Entries
    BY <2>2, <2>3 DEF Entries, n
  <2>5. e.tag = DT_NULL <=> EndMark(i + 1)
    BY <2>3 DEF ReadAs, EndMark
  <2>6. /\ shown'.dynamic \in Seq(Entries) /\ Len(shown'.dynamic) = i + 1
        /\ DOMAIN shown' = DOMAIN shown /\ shown'.headers = shown.headers
        /\ shown'.segments = shown.segments /\ shown'.symbols = shown.symbols
        /\ shown'.notes = shown.notes
    BY <1>4, <2>1, <2>4, AppendProperties
  <2>7. CASE ~EndMark(i + 1)
    <3>1. pc' = pc
      BY <2>1, <2>5, <2>7
    <3>2. \A k \in 1..(i + 1) : ~EndMark(k)
      <4> TAKE k \in 1..(i + 1)
      <4>1. k \in 1..i \/ k = i + 1
        BY <1>3, <1>4
      <4> QED
        BY <1>4, <2>7, <4>1
    <3> QED
      BY <1>1, <1>2, <2>1, <2>2, <2>6, <3>1, <3>2
         DEF DumpInv, BySymbols, ByNotes, ByDynamic, ByData, n
  <2>8. CASE EndMark(i + 1)
    <3>1. pc' = "data"
      BY <2>1, <2>5, <2>8
    <3>2. \A k \in 1..n : k > i + 1 <=> \E l \in 1..(k - 1) : EndMark(l)
      <4> TAKE k \in 1..n
      <4>1. ASSUME k > i + 1 PROVE \E l \in 1..(k - 1) : EndMark(l)
        <5>1. i + 1 \in 1..(k - 1)
          BY <1>3, <1>4, <4>1
        <5> QED
          BY <2>8, <5>1
      <4>2. ASSUME NEW l \in 1..(k - 1), EndMark(l) PROVE k > i + 1
        <5>1. l \notin 1..i
          BY <1>4, <4>2
        <5> QED
          BY <1>3, <1>4, <5>1
      <4> QED
        BY <4>1, <4>2
    <3> QED
      BY <1>1, <1>2, <2>1, <2>6, <3>1, <3>2
         DEF DumpInv, BySymbols, ByNotes, ByDynamic, ByData, n
  <2> QED
    BY <2>7, <2>8
<1>6. CASE ~(i < n)
  <2>1. pc' = "data" /\ i' = i /\ shown' = shown
    BY <1>3, <1>6 DEF dynamic_tags
  <2>2. \A k \in 1..n : k > Len(shown.dynamic)
                          <=> \E l \in 1..(k - 1) : EndMark(l)
    <3>1. i = n
      BY <1>3, <1>4, <1>6
    <3> TAKE k \in 1..n
    <3>2. ~(k > i) /\ \A l \in 1..(k - 1) : l \in 1..i
      BY <1>3, <3>1
    <3> QED
      BY <1>4, <3>2
  <2> QED
    BY <1>1, <1>2, <2>1, <2>2
       DEF DumpInv, BySymbols, ByNotes, ByDynamic, ByData, n
<1> QED
  BY <1>5, <1>6

LEMMA DatasShown ==
    ASSUME TableInv, DumpInv, section_datas \/ segment_datas
    PROVE  DumpInv'
<1>1. /\ UNCHANGED <<class, need_conversion, segs, sec, added>>
      /\ note_start_positions' = note_start_positions /\ i' = i
  BY DEF section_datas, segment_datas, Dumping
<1>2. /\ process_section(sec.note)' = process_section(sec.note)
      /\ Headers' = Headers /\ AllWhole' = AllWhole
      /\ \A m : Reading(m)' = Reading(m)
      /\ \A k : EndMark(k)' = EndMark(k)
  BY <1>1, Unmoved
<1>3. CASE section_datas
  <2>1. /\ pc = "data" /\ pc' = "segdata"
        /\ DOMAIN shown' = DOMAIN shown /\ shown'.headers = shown.headers
        /\ shown'.segments = shown.segments /\ shown'.symbols = shown.symbols
        /\ shown'.notes = shown.notes /\ shown'.dynamic = shown.dynamic
    BY <1>3 DEF section_datas, Dumping, DumpInv
  <2> QED
    BY <1>1, <1>2, <2>1 DEF DumpInv, BySymbols, ByNotes, ByDynamic, ByData
<1>4. CASE segment_datas
  <2>1. /\ pc = "segdata" /\ pc' = "dumped"
        /\ shown' = [shown EXCEPT !.segdata =
                       [k \in DOMAIN segs |->
                          IF segs[k].null THEN 0 ELSE AtMost(segs[k].filesz)]]
    BY <1>4 DEF segment_datas, Dumping
  <2>2. /\ DOMAIN shown' = DOMAIN shown /\ shown'.headers = shown.headers
        /\ shown'.segments = shown.segments /\ shown'.symbols = shown.symbols
        /\ shown'.notes = shown.notes /\ shown'.dynamic = shown.dynamic
        /\ shown'.segdata = [k \in DOMAIN segs |->
                          IF segs[k].null THEN 0 ELSE AtMost(segs[k].filesz)]
    BY <2>1 DEF DumpInv
  <2>3. segs \in Seq([null : BOOLEAN, filesz : Nat])
    BY FilesAssumption DEF TableInv, Opens, File
  <2>4. \A k \in DOMAIN segs : shown'.segdata[k] <= segs[k].filesz
    <3> TAKE k \in DOMAIN segs
    <3>1. segs[k] \in [null : BOOLEAN, filesz : Nat]
      BY <2>3, LenProperties, ElementOfSeq
    <3>2. segs[k].filesz \in Nat
      BY <3>1
    <3>3. \A m \in Nat : 0 <= m /\ AtMost(m) <= m
      BY DEF AtMost, MAX_DATA_ENTRIES
    <3> QED
      BY <2>2, <3>2, <3>3
  <2> QED
    BY <1>1, <1>2, <2>1, <2>2, <2>4
       DEF DumpInv, BySymbols, ByNotes, ByDynamic, ByData
<1> QED
  BY <1>3, <1>4

LEMMA DumpKept ==
    ASSUME TableInv, DumpInv, [Next]_vars
    PROVE  DumpInv'
<1>1. ASSUME NEW str \in Strings, NEW value \in Numbers,
             AddSymbol(str, value, value, 1, 2)
      PROVE  DumpInv'
  BY <1>1, BuildKeepsDump DEF AddSymbol, Building
<1>2. ASSUME NEW symbol \in {1, Len(added.symbols)}, NEW offset \in Numbers,
             NEW type \in RelTypes, AddRel(symbol, offset, type)
      PROVE  DumpInv'
  BY <1>2, BuildKeepsDump DEF AddRel, Building
<1>3. ASSUME NEW symbol \in {1, Len(added.symbols)}, NEW offset \in Numbers,
             NEW type \in RelTypes, NEW addend \in Addends,
             AddRela(symbol, offset, type, addend)
      PROVE  DumpInv'
  BY <1>3, BuildKeepsDump DEF AddRela, Building
<1>4. ASSUME NEW str \in Strings, NEW value \in Numbers,
             NEW offset \in Numbers,
             AddRelWithSymbol(str, value, offset, R_386_32)
      PROVE  DumpInv'
  BY <1>4, BuildKeepsDump DEF AddRelWithSymbol, Building
<1>5. ASSUME NEW tag \in Tags \ StringTags, NEW value \in Numbers,
             AddDynamic(tag, value)
      PROVE  DumpInv'
  BY <1>5, BuildKeepsDump DEF AddDynamic, Building
<1>6. ASSUME NEW tag \in Tags \cap StringTags, NEW str \in Strings,
             AddDynamicString(tag, str)
      PROVE  DumpInv'
  BY <1>6, BuildKeepsDump DEF AddDynamicString, Building
<1>7. ASSUME NEW name \in Strings, NEW n \in {0, 6}, NEW bytes \in BOOLEAN,
             AddNote(1, name, n, bytes)
      PROVE  DumpInv'
  BY <1>7, BuildKeepsDump DEF AddNote, Building
<1>8. ASSUME copy_dynamic \/ save_and_load PROVE DumpInv'
  BY <1>8, BuildKeepsDump DEF copy_dynamic, save_and_load
<1>9. ASSUME tutorial PROVE DumpInv'
  BY <1>9, Listed
<1>10. ASSUME dump PROVE DumpInv'
  BY <1>10, DumpBegins
<1>11. ASSUME DumpStep PROVE DumpInv'
  BY <1>11, HeadersShown, SymbolsShown, NotesShown, DynamicShown, DatasShown
     DEF DumpStep
<1>12. ASSUME Done \/ UNCHANGED vars PROVE DumpInv'
  BY <1>12, StutterKeepsDump DEF Done
<1> QED
  BY <1>1, <1>2, <1>3, <1>4, <1>5, <1>6, <1>7, <1>8, <1>9, <1>10, <1>11,
     <1>12 DEF Next

(* DumpedAll: a dump that ends has counted what was added, shown every     *)
(* symbol, every note if all can be found, and the dynamic entries up to   *)
(* the first end mark; the tutorial has listed every symbol.               *)
THEOREM DumpShowsAll == Spec => []DumpedAll
<1>1. Init => DumpInv
  BY FirstDump
<1>2. TableInv /\ DumpInv /\ [Next]_vars => DumpInv'
  BY DumpKept
<1>3. TableInv /\ DumpInv => DumpedAll
  <2> SUFFICES ASSUME TableInv, DumpInv PROVE DumpedAll
    OBVIOUS
  <2>1. /\ get_entries_num(sec.symtab) = Len(added.symbols) + 1
        /\ get_entries_num(sec.rel) = Len(added.rel)
        /\ get_entries_num(sec.rela) = Len(added.rela)
        /\ get_entries_num(sec.dynamic) = Len(added.dynamic)
    BY Counts
  <2>2. pc = "listed" => shown.symbols = 0..Len(added.symbols)
    BY DEF DumpInv
  <2>3. ASSUME pc = "dumped"
        PROVE  /\ shown.headers = Headers /\ shown.segments = segs
               /\ shown.symbols = 0..Len(added.symbols)
               /\ AllWhole => shown.notes = Reading(Len(added.note))
               /\ \A k \in 1..Len(added.dynamic) :
                     k > Len(shown.dynamic)
                        <=> \E l \in 1..(k - 1) : EndMark(l)
               /\ \A k \in DOMAIN segs : shown.segdata[k] <= segs[k].filesz
    BY <2>3 DEF DumpInv, BySymbols, ByNotes, ByDynamic, ByData
  <2>4. ASSUME pc = "dumped"
        PROVE  [k \in 2..5 |-> shown.headers[k].entries] =
                 [k \in 2..5 |-> (IF k = 2 THEN Len(added.symbols) + 1
                                  ELSE Len(added[SectionOrder[k]]))]
    <3>1. \A k \in 2..5 : k = 2 \/ k = 3 \/ k = 4 \/ k = 5
      OBVIOUS
    <3>2. /\ DOMAIN SectionOrder = 1..6 /\ SectionOrder[2] = "symtab"
          /\ SectionOrder[3] = "rel" /\ SectionOrder[4] = "rela"
          /\ SectionOrder[5] = "dynamic"
      BY DEF SectionOrder
    <3>3. \A k \in 2..5 :
             shown.headers[k].entries = get_entries_num(sec[SectionOrder[k]])
      BY <2>3, <2>4, <3>2 DEF Headers
    <3>4. \A k \in 2..5 :
             shown.headers[k].entries = IF k = 2 THEN Len(added.symbols) + 1
                                        ELSE Len(added[SectionOrder[k]])
      BY <2>1, <3>1, <3>2, <3>3
    <3> QED
      BY <3>4
  <2>5. Reading(Len(added.note)) =
          [k \in DOMAIN added.note |->
             [type |-> added.note[k].type, name |-> added.note[k].name,
              descSize |-> added.note[k].descSize]]
    <3>1. NoteTable(sec.note, added.note, need_conversion)
      BY Reads DEF Tables
    <3>2. DOMAIN added.note = 1..Len(added.note)
      BY <3>1, LenProperties DEF NoteTable
    <3> QED
      BY <3>2 DEF Reading
  <2>6. \A l : EndMark(l) <=> added.dynamic[l].tag = DT_NULL
                                \/ (class = 32 /\ need_conversion)
    BY DEF EndMark, Swapped
  <2>7. ASSUME pc = "dumped"
        PROVE  \A k \in 1..Len(added.dynamic) :
                 k > Len(shown.dynamic)
                    <=> \E l \in 1..(k - 1) :
                          added.dynamic[l].tag = DT_NULL
                            \/ (class = 32 /\ need_conversion)
    BY <2>3, <2>6, <2>7
  <2>8. ASSUME pc = "dumped", \A k \in DOMAIN added.note : Whole(added.note[k])
        PROVE  shown.notes = [k \in DOMAIN added.note |->
                   [type |-> added.note[k].type, name |-> added.note[k].name,
                    descSize |-> added.note[k].descSize]]
    BY <2>3, <2>5, <2>8 DEF AllWhole
  <2>9. ASSUME pc = "dumped"
        PROVE  \A k \in DOMAIN segs : /\ shown.segments[k] = segs[k]
                                      /\ shown.segdata[k] <= segs[k].filesz
    BY <2>3, <2>9
  <2> HIDE DEF TableInv, DumpInv
  <2> QED
    BY <2>2, <2>3, <2>4, <2>7, <2>8, <2>9 DEF DumpedAll
<1> QED
  BY <1>1, <1>2, <1>3, AlwaysTables, PTL DEF Spec

-----------------------------------------------------------------------------
(* The buffer of one section (ElfBuffer), for all sizes.                   *)

Usual == ~past.bare /\ ~past.starved /\ ~past.large

(* What the operations go by: as long as nothing unusual has happened, the *)
(* buffer is as long as data_size says and holds the data; a file may have *)
(* longer data than data_size can tell.                                    *)
RoomInv ==
    /\ class \in Classes
    /\ buf \in [size : Nat, data_size : Nat, room : Nat, reach : Nat]
    /\ past \in [bare : BOOLEAN, starved : BOOLEAN, large : BOOLEAN]
    /\ Usual => /\ buf.size <= buf.room /\ buf.reach <= buf.room
                /\ buf.size < Limit(4) =>
                      buf.data_size = buf.room

LEMMA RoomNumbers ==
    ASSUME class \in Classes
    PROVE  /\ Limit(4) \in Nat \ {0}
           /\ \A v : Buffer!Narrow(v, 4) = v % Limit(4)
           /\ Buffer!Limit(4) = Limit(4)
           /\ Buffer!Width("Native", class) \in {4, 8}
           /\ \A v \in Nat : v < Limit(4) => Buffer!Header(v) = v
           /\ \A v \in Nat : Buffer!Header(v) \in Nat
           /\ Buffer!Values(4) \subseteq Nat
           /\ Buffer!Values(Buffer!Width("Native", class)) \subseteq Nat
<1>1. /\ Buffer!Limit(4) = Limit(4) /\ Buffer!Limit(8) = Limit(8)
      /\ Limit(4) \in Nat \ {0} /\ Limit(8) \in Nat \ {0}
      /\ Limit(8) = Limit(4) * Limit(4)
  BY Limits DEF Limit, Buffer!Limit
<1>2. Limit(4) <= Limit(8)
  <2>1. \A a, b \in Nat \ {0} : b = a * a => a <= b
    OBVIOUS
  <2> QED
    BY <1>1, <2>1
<1>3. Buffer!Width("Native", class) \in {4, 8}
  <2>1. class \div 8 \in {4, 8}
    BY DEF Classes
  <2> QED
    BY <2>1 DEF Buffer!Width
<1>4. ASSUME NEW v \in Nat
      PROVE  /\ Buffer!Header(v) \in Nat
             /\ v < Limit(4) => Buffer!Header(v) = v
  <2> DEFINE w == Buffer!Width("Native", class)
             most == Buffer!Limit(w)
  <2>1. w = 4 \/ w = 8
    BY <1>3
  <2>2. most \in Nat \ {0} /\ Limit(4) <= most
    BY <1>1, <1>2, <2>1
  <2>3. Buffer!Header(v) = v % most
    BY DEF Buffer!Header, Buffer!Narrow
  <2> HIDE DEF most
  <2>4. v % most \in Nat /\ (v < most => v % most = v)
    BY <2>2
  <2> QED
    BY <1>1, <2>2, <2>3, <2>4
<1>5. /\ Buffer!Values(4) \subseteq Nat
      /\ Buffer!Values(Buffer!Width("Native", class)) \subseteq Nat
  BY <1>1, <1>3 DEF Buffer!Values
<1>6. \A v : Buffer!Narrow(v, 4) = v % Limit(4)
  BY <1>1 DEF Buffer!Narrow
<1> QED
  BY <1>1, <1>3, <1>4, <1>5, <1>6

LEMMA RoomFirst ==
    ASSUME Buffer!Init
    PROVE  RoomInv
BY DEF Buffer!Init, Buffer!NewSection, Buffer!Nothing, RoomInv, Usual,
       Classes, Buffer!Classes

LEMMA RoomLoaded ==
    ASSUME RoomInv, NEW n, NEW allocated \in BOOLEAN,
           Buffer!load(n, allocated)
    PROVE  RoomInv'
<1>1. class \in Classes /\ class' = class
  BY DEF RoomInv, Buffer!load, Buffer!Intact
<1>2. n \in Nat /\ Buffer!Narrow(n, 4) = n % Limit(4)
      /\ Limit(4) \in Nat \ {0}
  BY <1>1, RoomNumbers DEF Buffer!load
<1>3. /\ buf' = [size |-> n, data_size |-> n % Limit(4),
                 room |-> IF allocated THEN n ELSE 0, reach |-> n]
      /\ past' = [past EXCEPT !.starved = ~allocated]
      /\ past = [bare |-> FALSE, starved |-> FALSE, large |-> FALSE]
  BY <1>2 DEF Buffer!load, Buffer!Nothing
<1>4. n % Limit(4) \in Nat /\ (n < Limit(4) => n % Limit(4) = n)
  BY <1>2
<1>5. /\ past' = [bare |-> FALSE, starved |-> ~allocated, large |-> FALSE]
      /\ buf'.size = n /\ buf'.reach = n /\ buf'.data_size = n % Limit(4)
      /\ allocated => buf'.room = n
  BY <1>3
<1>6. /\ buf' \in [size : Nat, data_size : Nat, room : Nat, reach : Nat]
      /\ past' \in [bare : BOOLEAN, starved : BOOLEAN, large : BOOLEAN]
  <2>1. (IF allocated THEN n ELSE 0) \in Nat
    BY <1>2
  <2> QED
    BY <1>2, <1>3, <1>4, <1>5, <2>1
<1>7. Usual' => allocated
  BY <1>5 DEF Usual
<1>8. Usual' => /\ buf'.size <= buf'.room /\ buf'.reach <= buf'.room
                /\ buf'.size < Limit(4) => buf'.data_size = buf'.room
  BY <1>2, <1>4, <1>5, <1>7
<1> QED
  BY <1>1, <1>6, <1>8 DEF RoomInv

LEMMA RoomSet ==
    ASSUME RoomInv, NEW n \in Nat, NEW raw \in BOOLEAN,
           NEW allocated \in BOOLEAN, Buffer!set_data(n, raw, allocated)
    PROVE  RoomInv'
<1>1. class \in Classes /\ class' = class /\ buf.data_size \in Nat
  BY DEF RoomInv, Buffer!set_data, Buffer!Intact
<1>2. past' = [bare |-> allocated /\ ~raw, starved |-> FALSE, large |-> FALSE]
  BY DEF Buffer!set_data, Buffer!Nothing
<1>3. CASE allocated
  <2>1. buf' = [size |-> n, data_size |-> IF raw THEN n ELSE buf.data_size,
                room |-> n, reach |-> IF raw THEN n ELSE 0]
    BY <1>3 DEF Buffer!set_data
  <2>2. /\ (IF raw THEN n ELSE buf.data_size) \in Nat
        /\ (IF raw THEN n ELSE 0) \in Nat
    BY <1>1
  <2>3. /\ buf' \in [size : Nat, data_size : Nat, room : Nat, reach : Nat]
        /\ past' \in [bare : BOOLEAN, starved : BOOLEAN, large : BOOLEAN]
    BY <1>2, <2>1, <2>2
  <2>4. Usual' => raw
    BY <1>2, <1>3 DEF Usual
  <2>5. raw => /\ buf'.size <= buf'.room /\ buf'.reach <= buf'.room
               /\ buf'.data_size = buf'.room
    BY <2>1
  <2> QED
    BY <1>1, <2>3, <2>4, <2>5 DEF RoomInv
<1>4. CASE ~allocated
  <2>1. buf' = [size |-> 0, data_size |-> 0, room |-> 0, reach |-> 0]
    BY <1>4 DEF Buffer!set_data, Buffer!NewSection
  <2>2. /\ buf' \in [size : Nat, data_size : Nat, room : Nat, reach : Nat]
        /\ past' \in [bare : BOOLEAN, starved : BOOLEAN, large : BOOLEAN]
    BY <1>2, <2>1
  <2> QED
    BY <1>1, <2>1, <2>2 DEF RoomInv
<1> QED
  BY <1>3, <1>4

LEMMA RoomAppended ==
    ASSUME RoomInv, NEW n \in Nat, NEW allocated \in BOOLEAN,
           Buffer!append_data(n, allocated)
    PROVE  RoomInv'
<1> DEFINE size == buf.size + n
           doubled == Buffer!Doubled(n)
           fits == Buffer!Fits(n)
           big == Buffer!Big(n)
<1>1. /\ class \in Classes /\ class' = class
      /\ buf \in [size : Nat, data_size : Nat, room : Nat, reach : Nat]
      /\ past \in [bare : BOOLEAN, starved : BOOLEAN, large : BOOLEAN]
  BY DEF RoomInv, Buffer!append_data, Buffer!Intact
<1>2. /\ size \in Nat /\ buf.data_size \in Nat /\ buf.size \in Nat
      /\ buf.room \in Nat
  BY <1>1
<1>3. Limit(4) \in Nat \ {0}
  BY <1>1, RoomNumbers
<1>4. doubled = (2 * (buf.data_size + n)) % Limit(4)
  BY <1>1, RoomNumbers DEF Buffer!Doubled
<1>5. doubled \in Nat
  BY <1>2, <1>3, <1>4
<1>6. /\ Buffer!Header(size) \in Nat
      /\ size < Limit(4) => Buffer!Header(size) = size
  BY <1>1, <1>2, RoomNumbers
<1>7. /\ fits <=> size < buf.data_size
      /\ big <=> 4 * size >= Limit(4)
  BY <1>1, RoomNumbers DEF Buffer!Fits, Buffer!Big
<1>8. /\ past' = [past EXCEPT !.large = @ \/ big,
                              !.starved = @ \/ (~fits /\ ~allocated)]
      /\ fits => buf' = [buf EXCEPT !.size = Buffer!Header(size),
                                    !.reach = size]
      /\ ~fits /\ allocated =>
           buf' = [size |-> Buffer!Header(size), data_size |-> doubled,
                   room |-> doubled, reach |-> size]
      /\ ~fits /\ ~allocated => buf' = [buf EXCEPT !.data_size = doubled]
  BY DEF Buffer!append_data
<1>9. /\ past'.bare = past.bare
      /\ past'.large = (past.large \/ big)
      /\ past'.starved = (past.starved \/ (~fits /\ ~allocated))
  BY <1>1, <1>8
<1> HIDE DEF size, doubled, fits, big
<1>10. /\ buf' \in [size : Nat, data_size : Nat, room : Nat, reach : Nat]
       /\ past' \in [bare : BOOLEAN, starved : BOOLEAN, large : BOOLEAN]
  <2>1. fits \in BOOLEAN /\ big \in BOOLEAN
    BY DEF fits, big, Buffer!Fits, Buffer!Big
  <2>2. past' \in [bare : BOOLEAN, starved : BOOLEAN, large : BOOLEAN]
    BY <1>1, <1>8, <2>1
  <2>3. buf' \in [size : Nat, data_size : Nat, room : Nat, reach : Nat]
    <3>1. CASE fits
      BY <1>1, <1>2, <1>6, <1>8, <3>1
    <3>2. CASE ~fits /\ allocated
      BY <1>2, <1>5, <1>6, <1>8, <3>2
    <3>3. CASE ~fits /\ ~allocated
      BY <1>1, <1>5, <1>8, <3>3
    <3> QED
      BY <3>1, <3>2, <3>3
  <2> QED
    BY <2>2, <2>3
<1>11. ASSUME Usual'
       PROVE  /\ buf'.size <= buf'.room /\ buf'.reach <= buf'.room
              /\ buf'.data_size = buf'.room
  <2>1. Usual /\ ~big /\ (fits \/ allocated)
    BY <1>9, <1>11 DEF Usual
  <2>2. 4 * size < Limit(4) /\ buf.size <= size /\ n <= size
    BY <1>2, <1>3, <1>7, <2>1 DEF size
  <2>3. size < Limit(4) /\ Buffer!Header(size) = size
    BY <1>2, <1>3, <1>6, <2>2
  <2>4. /\ buf.size <= buf.room /\ buf.reach <= buf.room
        /\ buf.data_size = buf.room
    <3>1. buf.size < Limit(4)
      BY <1>2, <1>3, <2>2, <2>3
    <3> QED
      BY <2>1, <3>1 DEF RoomInv
  <2>5. CASE fits
    <3>1. size < buf.room
      BY <1>7, <2>4, <2>5
    <3>2. /\ buf'.size = size /\ buf'.reach = size
          /\ buf'.room = buf.room /\ buf'.data_size = buf.data_size
      BY <1>1, <1>8, <2>3, <2>5
    <3> QED
      BY <1>2, <2>4, <3>1, <3>2
  <2>6. CASE ~fits
    <3>1. buf.data_size <= size
      BY <1>2, <1>7, <2>6
    <3>2. 2 * (buf.data_size + n) < Limit(4) /\ size <= 2 * (buf.data_size + n)
      BY <1>2, <1>3, <2>2, <2>4, <3>1 DEF size
    <3>3. doubled = 2 * (buf.data_size + n)
      <4>1. \A v \in Nat : v < Limit(4) => v % Limit(4) = v
        BY <1>3
      <4>2. 2 * (buf.data_size + n) \in Nat
        BY <1>2
      <4> QED
        BY <1>4, <3>2, <4>1, <4>2
    <3>4. buf' = [size |-> size, data_size |-> doubled, room |-> doubled,
                  reach |-> size]
      BY <1>8, <2>1, <2>3, <2>6
    <3> QED
      BY <3>2, <3>3, <3>4
  <2> QED
    BY <2>5, <2>6
<1> QED
  BY <1>1, <1>10, <1>11 DEF RoomInv

(* RoomForAll: for all sizes, whatever is loaded, set and appended, the    *)
(* buffer holds what is copied into it, unless a size was set without      *)
(* bytes, an allocation failed, or the data are a quarter as long as an    *)
(* Elf_Word can tell.                                                      *)
THEOREM NoOverrun == SectionsSpec => []RoomForAll
<1>1. SectionsInit => Init /\ RoomInv
  BY RoomFirst DEF SectionsInit
<1>2. [SectionsNext]_<<sectionVars, vars>> => [Next]_vars
  BY DEF SectionsNext, OnTables, OnSection, Overrun
<1>3. TableInv => class \in Classes
  BY Reads DEF Opened
<1>4. RoomInv /\ (class \in Classes)' /\ [SectionsNext]_<<sectionVars, vars>>
        => RoomInv'
  <2> SUFFICES ASSUME RoomInv, class' \in Classes,
                      [SectionsNext]_<<sectionVars, vars>>
               PROVE  RoomInv'
    OBVIOUS
  <2>1. CASE Buffer!Next
    <3>1. Buffer!Values(4) \subseteq Nat
      BY RoomNumbers DEF RoomInv
    <3>2. PICK n \in Sizes, allocated \in BOOLEAN :
            \/ Buffer!load(n, allocated)
            \/ /\ n \in Buffer!Values(4)
               /\ \/ Buffer!append_data(n, allocated)
                  \/ \E raw \in BOOLEAN : Buffer!set_data(n, raw, allocated)
      BY <2>1, Zenon DEF Buffer!Next
    <3>3. CASE Buffer!load(n, allocated)
      BY <3>3, RoomLoaded, Zenon
    <3>4. CASE n \in Buffer!Values(4) /\ Buffer!append_data(n, allocated)
      <4>1. n \in Nat
        BY <3>1, <3>4
      <4> QED
        BY <3>4, <4>1, RoomAppended, Zenon
    <3>5. CASE /\ n \in Buffer!Values(4)
               /\ \E raw \in BOOLEAN : Buffer!set_data(n, raw, allocated)
      <4>1. n \in Nat
        BY <3>1, <3>5
      <4> QED
        BY <3>5, <4>1, RoomSet, Zenon
    <3> QED
      BY <3>2, <3>3, <3>4, <3>5, Zenon
  <2>2. CASE UNCHANGED <<buf, past>>
    BY <2>2 DEF RoomInv, Usual
  <2>3. Buffer!Next \/ UNCHANGED <<buf, past>>
    BY DEF SectionsNext, OnTables, OnSection, Overrun, sectionVars
  <2> QED
    BY <2>1, <2>2, <2>3
<1>5. RoomInv => RoomForAll
  BY DEF RoomInv, Usual, RoomForAll, Buffer!RoomForAll
<1>6. Spec => []TableInv
  BY AlwaysTables
<1> QED
  BY <1>1, <1>2, <1>3, <1>4, <1>5, <1>6, PTL DEF SectionsSpec, Spec
=============================================================================
