--------------------------- MODULE ProcessProofs ----------------------------
(***************************************************************************)
(* What holds of the process, from its command line to its exit.           *)
(*                                                                         *)
(* Startup: whatever the options, the panel's configuration and the host,  *)
(* no accepted number but a buffer below half of the shortest request      *)
(* hurts the code that uses it, a path is found unless it holds an escape, *)
(* and the automatic limit is the largest one that fits the host.          *)
(*                                                                         *)
(* Lifecycle: for every number of connections, every amount of traffic and *)
(* either transport, no unit of traffic is lost or invented, no registered *)
(* node is left behind, and what is left unreported at exit has one of the *)
(* three known reasons.                                                    *)
(***************************************************************************)
EXTENDS Startup, Lifecycle, SequenceTheorems, FiniteSetTheorems, WellFoundedInduction, TLAPS

-----------------------------------------------------------------------------
(* Arithmetic with a divisor that is not known.                            *)

\* Division leaves a remainder smaller than the divisor.
LEMMA DivRemainder ==
  ASSUME NEW a \in Nat, NEW b \in Nat, b # 0
  PROVE  a \div b \in Nat /\ (a \div b) * b <= a /\ a < (a \div b) * b + b
OBVIOUS

\* Products grow with their factors.
LEMMA ProductsGrow ==
  ASSUME NEW m \in Nat, NEW n \in Nat, NEW b \in Nat, m <= n
  PROVE  m * b <= n * b
OBVIOUS

\* n units of b fit into a just when n is at most the quotient.
LEMMA FitsQuotient ==
  ASSUME NEW n \in Nat, NEW a \in Nat, NEW b \in Nat, b # 0
  PROVE  n * b <= a <=> n <= a \div b
<1> DEFINE q == a \div b
<1>1. q \in Nat /\ q * b <= a /\ a < q * b + b
  BY DivRemainder
<1> HIDE DEF q
<1>2. ASSUME n <= q PROVE n * b <= a
  <2>1. n * b <= q * b
    BY <1>1, <1>2, ProductsGrow
  <2>2. QED
    BY <1>1, <2>1
<1>3. ASSUME ~(n <= q) PROVE ~(n * b <= a)
  <2>1. (q + 1) * b <= n * b
    BY <1>1, <1>3, ProductsGrow
  <2>2. (q + 1) * b = q * b + b
    BY <1>1
  <2>3. QED
    BY <1>1, <2>1, <2>2
<1>4. QED
  BY <1>2, <1>3 DEF q

\* saturating_mul: the product, or the largest number if that is smaller.
LEMMA SatMulIs ==
  ASSUME NEW a \in Nat, NEW b \in Nat
  PROVE  /\ SatMul(a, b) \in Nat /\ SatMul(a, b) <= MaxU64
         /\ a * b <= MaxU64 => SatMul(a, b) = a * b
<1> USE StartupAssumption
<1>1. CASE b = 0
  BY <1>1 DEF SatMul
<1>2. CASE b # 0
  <2>1. a * b <= MaxU64 <=> a <= MaxU64 \div b
    BY <1>2, FitsQuotient
  <2>2. MaxU64 \div b \in Nat /\ a * b \in Nat
    BY <1>2, DivRemainder
  <2>3. QED
    BY <1>2, <2>1, <2>2 DEF SatMul
<1>3. QED
  BY <1>1, <1>2

-----------------------------------------------------------------------------
(* What a start finds.                                                     *)

\* The command line and the host of a start, by field.
LEMMA CaseIs ==
  ASSUME case \in Cases
  PROVE  /\ cli.buffer_size \in Nat /\ cli.max.n \in 0 .. MaxU64 /\ cli.d \in [Durations -> Nat]
         /\ case.panel.path \in Optional(Seq(STRING))
         /\ host.cpus \in Optional(Nat \ {0}) /\ host.nofile \in Optional(0 .. MaxU64)
         /\ host.mem \in Optional([pages : Nat, page_size : Nat])
<1>1. case \in [cli : Clis, panel : Panels, host : Hosts]
  BY CasesAssumption
<1>2. case.cli \in Clis /\ case.panel \in Panels /\ case.host \in Hosts
  BY <1>1
<1>3. cli.buffer_size \in Nat /\ cli.max \in [text : STRING, n : 0 .. MaxU64]
      /\ cli.d \in [Durations -> Nat]
  BY <1>2 DEF Clis, cli
<1>4. case.panel.path \in Optional(Seq(STRING))
  BY <1>2 DEF Panels
<1>5. /\ host.cpus \in Optional(Nat \ {0}) /\ host.nofile \in Optional(0 .. MaxU64)
      /\ host.mem \in Optional([pages : Nat, page_size : Nat])
  BY <1>2 DEF Hosts, host
<1>6. QED
  BY <1>3, <1>4, <1>5

\* An option that is there holds a value.
LEMMA OptionIs ==
  ASSUME NEW S, NEW o \in Optional(S), o # None
  PROVE  o[1] \in S
BY DEF Optional

\* What the host answers, or the fallbacks, are numbers (config_auto.rs:182-188).
LEMMA ResourcesAre ==
  ASSUME case \in Cases
  PROVE  Cpus \in Nat \ {0} /\ TotalMem \in Nat /\ NoFile \in Nat
<1> USE StartupAssumption
<1>1. Cpus \in Nat \ {0}
  BY CaseIs, OptionIs DEF Cpus
<1>2. TotalMem \in Nat
  <2> DEFINE answers == host.mem # None /\ host.mem[1].pages > 0 /\ host.mem[1].page_size > 0
  <2>1. CASE ~answers
    BY <2>1 DEF TotalMem
  <2>2. CASE answers
    <3> DEFINE m == host.mem[1]
    <3>1. m.pages \in Nat /\ m.page_size \in Nat
      BY <2>2, CaseIs, OptionIs
    <3>2. SatMul(m.pages, m.page_size) \in Nat
      BY <3>1, SatMulIs, Zenon
    <3>3. SatMul(m.pages, m.page_size) \div 1024 \in Nat
      BY <3>2
    <3>4. QED
      BY <2>2, <3>3 DEF TotalMem
  <2>3. QED
    BY <2>1, <2>2
<1>3. NoFile \in Nat
  <2>1. CASE host.nofile = None
    BY <2>1, SMT DEF NoFile
  <2>2. CASE host.nofile # None
    <3>1. host.nofile[1] \in 0 .. MaxU64
      BY <2>2, CaseIs, OptionIs, Zenon
    <3>2. QED
      BY <2>2, <3>1 DEF NoFile
  <2>3. QED
    BY <2>1, <2>2
<1>4. QED
  BY <1>1, <1>2, <1>3

-----------------------------------------------------------------------------
(* compute_auto.                                                           *)

CpuCap(c) == SatMul(SatMul(Most(c, 1), PER_CORE_MBPS), 1000) \div PER_USER_KBPS
MemCap(m) == (SatMul(m, MEM_BUDGET_PCT) \div 100) \div PER_SESSION_KB
FdCap(f)  == SatSub(f, FdReserve(f)) \div FD_PER_SESSION

\* The limit from the processors: within the limiter's range, and exact where
\* no product saturates.
LEMMA CpuCapIs ==
  ASSUME NEW c \in Nat \ {0}
  PROVE  /\ CpuCap(c) \in Nat /\ CpuCap(c) <= MAX_PERMITS
         /\ c <= MaxU64 \div (1000 * PER_CORE_MBPS) =>
              \A n \in Nat : n * PER_USER_KBPS <= Most(c, 1) * PER_CORE_MBPS * 1000
                               <=> n <= CpuCap(c)
<1> USE StartupAssumption
<1> DEFINE Q == PER_CORE_MBPS
           s == SatMul(SatMul(Most(c, 1), Q), 1000)
<1>1. Most(c, 1) = c
  BY DEF Most
<1>2. c \in Nat /\ Q \in Nat /\ 1000 \in Nat
  OBVIOUS
<1>3. s \in Nat /\ s <= MaxU64
  <2>1. SatMul(c, Q) \in Nat
    BY <1>2, SatMulIs, Zenon
  <2> DEFINE k == 1000
  <2>2. SatMul(SatMul(c, Q), k) \in Nat /\ SatMul(SatMul(c, Q), k) <= MaxU64
    <3>1. k \in Nat
      BY <1>2
    <3> HIDE DEF k
    <3>2. QED
      BY <2>1, <3>1, SatMulIs, Zenon
  <2>3. QED
    BY <1>1, <2>2
<1>4. CpuCap(c) = s \div PER_USER_KBPS
  BY DEF CpuCap
<1>5. c <= MaxU64 \div (1000 * Q) => s = c * Q * 1000
  <2> SUFFICES ASSUME c <= MaxU64 \div (1000 * Q) PROVE s = c * Q * 1000
    OBVIOUS
  <2>1. 1000 * Q \in Nat /\ 1000 * Q # 0
    OBVIOUS
  <2>2. c * (1000 * Q) <= MaxU64
    BY <2>1, FitsQuotient
  <2>3. c * Q \in Nat /\ c * (1000 * Q) = (c * Q) * 1000
    OBVIOUS
  <2>4. c * Q <= MaxU64
    BY <2>2, <2>3
  <2>5. SatMul(c, Q) = c * Q
    BY <2>4, SatMulIs
  <2>6. SatMul(c * Q, 1000) = c * Q * 1000
    BY <2>2, <2>3, SatMulIs
  <2>7. QED
    BY <1>1, <2>5, <2>6
<1> HIDE DEF s
<1>6. CpuCap(c) \in Nat /\ CpuCap(c) <= MAX_PERMITS
  <2> DEFINE k == s \div PER_USER_KBPS
  <2>1. k \in Nat /\ k * PER_USER_KBPS <= s
    BY <1>3, DivRemainder
  <2> HIDE DEF k
  <2>2. 8 * k <= PER_USER_KBPS * k
    BY <2>1, ProductsGrow
  <2>3. k * 8 <= MaxU64
    BY <1>3, <2>1, <2>2
  <2>4. k <= MaxU64 \div 8
    BY <2>1, <2>3, FitsQuotient
  <2>5. QED
    BY <1>4, <2>1, <2>4 DEF k, MAX_PERMITS
<1>7. c <= MaxU64 \div (1000 * Q) =>
        \A n \in Nat : n * PER_USER_KBPS <= Most(c, 1) * Q * 1000 <=> n <= CpuCap(c)
  <2> SUFFICES ASSUME c <= MaxU64 \div (1000 * Q), NEW n \in Nat
               PROVE  n * PER_USER_KBPS <= Most(c, 1) * Q * 1000 <=> n <= CpuCap(c)
    OBVIOUS
  <2>1. n * PER_USER_KBPS <= s <=> n <= s \div PER_USER_KBPS
    BY <1>3, FitsQuotient
  <2>2. QED
    BY <1>1, <1>4, <1>5, <2>1
<1>8. QED
  BY <1>6, <1>7

\* The limit from the memory.
LEMMA MemCapIs ==
  ASSUME NEW m \in Nat
  PROVE  /\ MemCap(m) \in Nat
         /\ m <= MaxU64 \div MEM_BUDGET_PCT =>
              \A n \in Nat : n * PER_SESSION_KB <= (m * MEM_BUDGET_PCT) \div 100 <=> n <= MemCap(m)
<1> USE StartupAssumption
<1> DEFINE P == MEM_BUDGET_PCT
           b == SatMul(m, P) \div 100
<1>1. SatMul(m, P) \in Nat
  <2>1. P \in Nat
    OBVIOUS
  <2>2. QED
    BY <2>1, SatMulIs, Zenon
<1>2. b \in Nat
  BY <1>1
<1>3. m <= MaxU64 \div P => SatMul(m, P) = m * P
  <2>1. m <= MaxU64 \div P => m * P <= MaxU64
    BY FitsQuotient
  <2>2. QED
    BY <2>1, SatMulIs
<1>4. MemCap(m) = b \div PER_SESSION_KB
  BY DEF MemCap
<1>5. m <= MaxU64 \div P => b = (m * P) \div 100
  BY <1>3
<1> HIDE DEF b
<1>6. \A n \in Nat : n * PER_SESSION_KB <= b <=> n <= b \div PER_SESSION_KB
  BY <1>2, FitsQuotient
<1>7. b \div PER_SESSION_KB \in Nat
  BY <1>2, DivRemainder
<1>8. QED
  BY <1>4, <1>5, <1>6, <1>7

\* The limit from the file descriptors, where nothing saturates.
LEMMA FdCapIs ==
  ASSUME NEW f \in Nat
  PROVE  /\ FdCap(f) \in Nat
         /\ \A n \in Nat : n * FD_PER_SESSION + Least(FD_RESERVE_DEFAULT, f \div 4) <= f
                             <=> n <= FdCap(f)
<1> USE StartupAssumption
<1> DEFINE r == Least(FD_RESERVE_DEFAULT, f \div 4)
<1>1. r \in Nat /\ r <= f
  BY DEF Least
<1>2. SatSub(f, r) = f - r /\ f - r \in Nat
  BY <1>1 DEF SatSub
<1>3. FdCap(f) = (f - r) \div FD_PER_SESSION
  BY <1>2 DEF FdCap, FdReserve
<1> HIDE DEF r
<1>4. (f - r) \div FD_PER_SESSION \in Nat
  BY <1>2, DivRemainder
<1>5. ASSUME NEW n \in Nat
      PROVE  n * FD_PER_SESSION + r <= f <=> n <= FdCap(f)
  <2>1. n * FD_PER_SESSION <= f - r <=> n <= (f - r) \div FD_PER_SESSION
    BY <1>2, FitsQuotient
  <2>2. n * FD_PER_SESSION \in Nat
    OBVIOUS
  <2>3. QED
    BY <1>1, <1>3, <2>1, <2>2
<1>6. QED
  BY <1>3, <1>4, <1>5 DEF r

\* The automatic limit is the least of the three, and at least one.
LEMMA ComputeAutoIs ==
  ASSUME NEW c \in Nat \ {0}, NEW m \in Nat, NEW f \in Nat, NEW bd, bd = ComputeAuto(c, m, f)
  PROVE  /\ bd.cpu_cap = CpuCap(c) /\ bd.mem_cap = MemCap(m) /\ bd.fd_cap = FdCap(f)
         /\ bd.value \in Nat /\ bd.value >= 1 /\ bd.value <= MAX_PERMITS
         /\ bd.value = 1 \/ (bd.value <= CpuCap(c) /\ bd.value <= MemCap(m) /\ bd.value <= FdCap(f))
         /\ \/ bd.value >= CpuCap(c) \/ bd.value >= MemCap(m) \/ bd.value >= FdCap(f)
<1> USE StartupAssumption
<1>1. CpuCap(c) \in Nat /\ CpuCap(c) <= MAX_PERMITS /\ MemCap(m) \in Nat /\ FdCap(f) \in Nat
  BY CpuCapIs, MemCapIs, FdCapIs
<1>2. MAX_PERMITS \in Nat /\ MAX_PERMITS >= 1
  BY DEF MAX_PERMITS
<1> DEFINE v == Most(Least(Least(CpuCap(c), MemCap(m)), FdCap(f)), 1)
<1>3. bd.cpu_cap = CpuCap(c) /\ bd.mem_cap = MemCap(m) /\ bd.fd_cap = FdCap(f) /\ bd.value = v
  BY Zenon DEF ComputeAuto, CpuCap, MemCap, FdCap
<1>4. /\ v \in Nat /\ v >= 1 /\ v <= MAX_PERMITS
      /\ v = 1 \/ (v <= CpuCap(c) /\ v <= MemCap(m) /\ v <= FdCap(f))
      /\ v >= CpuCap(c) \/ v >= MemCap(m) \/ v >= FdCap(f)
  BY <1>1, <1>2 DEF Most, Least
<1> HIDE DEF v
<1>5. QED
  BY <1>3, <1>4

\* resolve, of either kind of limit (config_auto.rs:178-215, main.rs:150-161).
LEMMA ResolveIs ==
  LET bd == ComputeAuto(Cpus, TotalMem, NoFile) IN
  /\ Resolve.breakdown = bd
  /\ cli.max.text = "auto" => Resolve.value = bd.value /\ Resolve.mode = "auto"
  /\ cli.max.text # "auto" => /\ Resolve.value = cli.max.n /\ Resolve.mode = "fixed"
                              /\ Resolve.warned = FixedExceedsAutoCap(cli.max.n, bd)
<1> DEFINE b == ComputeAuto(Cpus, TotalMem, NoFile)
<1>1. Resolve = IF cli.max.text = "auto"
                THEN [value |-> b.value, mode |-> "auto", breakdown |-> b, warned |-> FALSE]
                ELSE [value |-> cli.max.n, mode |-> "fixed", breakdown |-> b,
                      warned |-> FixedExceedsAutoCap(cli.max.n, b)]
  BY Zenon DEF Resolve
<1> HIDE DEF b
<1>2. CASE cli.max.text = "auto"
  <2>1. Resolve.breakdown = b /\ Resolve.value = b.value /\ Resolve.mode = "auto"
    BY <1>1, <1>2
  <2>2. QED
    BY <1>2, <2>1 DEF b
<1>3. CASE cli.max.text # "auto"
  <2>1. Resolve.breakdown = b /\ Resolve.value = cli.max.n /\ Resolve.mode = "fixed"
        /\ Resolve.warned = FixedExceedsAutoCap(cli.max.n, b)
    BY <1>1, <1>3
  <2>2. QED
    BY <1>3, <2>1 DEF b
<1>4. QED
  BY <1>2, <1>3

\* What a host carries, and that the breakdown says so.
LEMMA FitsIs ==
  ASSUME case \in Cases, Exact, NEW n \in Nat
  PROVE  /\ n * PER_USER_KBPS <= Most(Cpus, 1) * PER_CORE_MBPS * 1000
         /\ n * PER_SESSION_KB <= (TotalMem * MEM_BUDGET_PCT) \div 100
         /\ n * FD_PER_SESSION + Least(FD_RESERVE_DEFAULT, NoFile \div 4) <= NoFile
         <=> n <= CpuCap(Cpus) /\ n <= MemCap(TotalMem) /\ n <= FdCap(NoFile)
<1>1. Cpus \in Nat \ {0} /\ TotalMem \in Nat /\ NoFile \in Nat
  BY ResourcesAre
<1>2. n * PER_USER_KBPS <= Most(Cpus, 1) * PER_CORE_MBPS * 1000 <=> n <= CpuCap(Cpus)
  <2>1. Cpus <= MaxU64 \div (1000 * PER_CORE_MBPS)
    BY Zenon DEF Exact
  <2>2. QED
    BY <1>1, <2>1, CpuCapIs
<1>3. n * PER_SESSION_KB <= (TotalMem * MEM_BUDGET_PCT) \div 100 <=> n <= MemCap(TotalMem)
  BY <1>1, MemCapIs, Zenon DEF Exact
<1>4. n * FD_PER_SESSION + Least(FD_RESERVE_DEFAULT, NoFile \div 4) <= NoFile <=> n <= FdCap(NoFile)
  BY <1>1, FdCapIs, Zenon
<1>5. QED
  BY <1>2, <1>3, <1>4, Zenon

\* Whatever resolve returns satisfies the property of the automatic limit.
LEMMA ResolveIsSafe ==
  ASSUME case \in Cases, resolved = Resolve
  PROVE  AutoIsSafe
<1> DEFINE quarter == Least(FD_RESERVE_DEFAULT, NoFile \div 4)
           v == resolved.breakdown.value
           fits(n) == /\ n * PER_USER_KBPS <= Most(Cpus, 1) * PER_CORE_MBPS * 1000
                      /\ n * PER_SESSION_KB <= (TotalMem * MEM_BUDGET_PCT) \div 100
                      /\ n * FD_PER_SESSION + quarter <= NoFile
           b == ComputeAuto(Cpus, TotalMem, NoFile)
           A == CpuCap(Cpus)
           B == MemCap(TotalMem)
           C == FdCap(NoFile)
<1>1. Cpus \in Nat \ {0} /\ TotalMem \in Nat /\ NoFile \in Nat
  BY ResourcesAre
<1>2. A \in Nat /\ B \in Nat /\ C \in Nat
  BY <1>1, CpuCapIs, MemCapIs, FdCapIs, Zenon
<1>3. resolved.breakdown = b
  BY ResolveIs, Zenon
<1>4. /\ resolved.breakdown.cpu_cap = A /\ resolved.breakdown.mem_cap = B
      /\ resolved.breakdown.fd_cap = C
      /\ v \in Nat /\ v >= 1 /\ v <= MAX_PERMITS
      /\ v = 1 \/ (v <= A /\ v <= B /\ v <= C)
      /\ v >= A \/ v >= B \/ v >= C
  <2> DEFINE d == resolved.breakdown
  <2>1. d = ComputeAuto(Cpus, TotalMem, NoFile)
    BY <1>3
  <2> HIDE DEF d, A, B, C
  <2>2. /\ d.cpu_cap = A /\ d.mem_cap = B /\ d.fd_cap = C
        /\ d.value \in Nat /\ d.value >= 1 /\ d.value <= MAX_PERMITS
        /\ d.value = 1 \/ (d.value <= A /\ d.value <= B /\ d.value <= C)
        /\ d.value >= A \/ d.value >= B \/ d.value >= C
    BY <1>1, <2>1, ComputeAutoIs DEF A, B, C
  <2>3. QED
    BY <2>2, Zenon DEF d
<1>5. v * FD_PER_SESSION + quarter <= NoFile \/ v = 1
  BY <1>1, <1>4, FdCapIs, Zenon
<1>6. ASSUME Exact, NEW n \in Nat
      PROVE  fits(n) <=> n <= A /\ n <= B /\ n <= C
  BY <1>6, FitsIs, Zenon
<1>7. ASSUME resolved.mode = "fixed"
      PROVE  /\ resolved.value \in Nat
             /\ resolved.warned = (resolved.value > A \/ resolved.value > B \/ resolved.value > C)
  <2>1. cli.max.text # "auto"
    <3>1. cli.max.text = "auto" => resolved.mode = "auto"
      BY ResolveIs, Zenon
    <3>2. QED
      BY <1>7, <3>1
  <2>2. resolved.value = cli.max.n /\ resolved.warned = FixedExceedsAutoCap(cli.max.n, b)
    BY <2>1, ResolveIs, Zenon
  <2>3. cli.max.n \in Nat
    BY CaseIs, StartupAssumption
  <2>4. QED
    BY <1>3, <1>4, <2>2, <2>3, Zenon DEF FixedExceedsAutoCap
<1> HIDE DEF fits, v, A, B, C, quarter
<1>8. ASSUME Exact
      PROVE  v = 1 \/ fits(v)
  BY <1>4, <1>6, <1>8, Zenon
<1>9. ASSUME Exact
      PROVE  ~fits(v + 1)
  <2>1. v + 1 \in Nat /\ ~(v + 1 <= A /\ v + 1 <= B /\ v + 1 <= C)
    BY <1>2, <1>4
  <2>2. QED
    BY <1>6, <1>9, <2>1, Zenon
<1>10. ASSUME Exact, resolved.mode = "fixed"
       PROVE  resolved.warned <=> ~fits(resolved.value)
  <2> DEFINE w == resolved.value
  <2>1. w \in Nat
    BY <1>7, <1>10
  <2> HIDE DEF w
  <2>2. (w > A \/ w > B \/ w > C) <=> ~(w <= A /\ w <= B /\ w <= C)
    BY <1>2, <2>1
  <2>3. QED
    BY <1>6, <1>7, <1>10, <2>1, <2>2, Zenon DEF w
<1>11. /\ v >= 1 /\ v <= MAX_PERMITS
       /\ v * FD_PER_SESSION + quarter <= NoFile \/ v = 1
       /\ Exact => /\ v = 1 \/ fits(v)
                   /\ ~fits(v + 1)
                   /\ resolved.mode = "fixed" /\ InReach(resolved.value) =>
                        (resolved.warned <=> ~fits(resolved.value))
  BY <1>4, <1>5, <1>8, <1>9, <1>10, Zenon
<1>12. QED
  BY <1>11, Zenon DEF AutoIsSafe, fits, v, quarter

-----------------------------------------------------------------------------
(* normalize_ws_path.                                                      *)

\* A set of positions has a first one.
LEMMA FirstPosition ==
  ASSUME NEW T \in SUBSET Nat, T # {}
  PROVE  MinOf(T) \in T /\ \A y \in T : MinOf(T) <= y
<1>1. PICK x \in T : \A y \in T : ~(<<y, x>> \in OpToRel(<, Nat))
  BY WFMin, NatLessThanWellFounded, Zenon
<1>2. \A y \in T : ~(y < x)
  BY <1>1, Zenon DEF OpToRel
<1>3. \A y \in T : x <= y
  BY <1>2
<1>4. QED
  BY <1>3, Zenon DEF MinOf

\* s holds no blank.
Solid(s) == \A i \in 1 .. Len(s) : s[i] # Blank

\* Trimming leaves such a string alone.
LEMMA TrimSolid ==
  ASSUME NEW s \in Seq(STRING), Solid(s)
  PROVE  Trim(s) = s
<1>1. Skips(s) = 1 .. Len(s)
  BY DEF Skips, Solid
<1>2. CASE s = <<>>
  <2>1. Skips(s) = {}
    BY <1>1, <1>2
  <2>2. QED
    BY <1>2, <2>1 DEF Trim
<1>3. CASE s # <<>>
  <2>1. Len(s) \in Nat /\ Len(s) >= 1
    BY <1>3
  <2>2. MinOf(1 .. Len(s)) = 1
    <3>1. 1 \in 1 .. Len(s) /\ \A y \in 1 .. Len(s) : 1 <= y
      BY <2>1
    <3>2. \A x \in 1 .. Len(s) : (\A y \in 1 .. Len(s) : x <= y) => x = 1
      BY <2>1
    <3>3. QED
      BY <3>1, <3>2, Zenon DEF MinOf
  <2>3. MaxOf(1 .. Len(s)) = Len(s)
    <3>1. Len(s) \in 1 .. Len(s) /\ \A y \in 1 .. Len(s) : Len(s) >= y
      BY <2>1
    <3>2. \A x \in 1 .. Len(s) : (\A y \in 1 .. Len(s) : x >= y) => x = Len(s)
      BY <2>1
    <3>3. QED
      BY <3>1, <3>2, Zenon DEF MaxOf
  <2>4. Trim(s) = SubSeq(s, 1, Len(s))
    BY <1>1, <2>1, <2>2, <2>3 DEF Trim
  <2>5. QED
    BY <2>4
<1>4. QED
  BY <1>2, <1>3

\* What stands before the query is a beginning of the path.
LEMMA BeforeQueryIs ==
  ASSUME NEW s \in Seq(STRING)
  PROVE  /\ BeforeQuery(s) \in Seq(STRING) /\ Len(BeforeQuery(s)) <= Len(s)
         /\ \A i \in 1 .. Len(BeforeQuery(s)) : BeforeQuery(s)[i] = s[i]
<1> DEFINE marks == {i \in 1 .. Len(s) : s[i] = "?"}
<1>1. BeforeQuery(s) = IF marks = {} THEN s ELSE SubSeq(s, 1, MinOf(marks) - 1)
  BY DEF BeforeQuery
<1>2. CASE marks = {}
  BY <1>1, <1>2
<1>3. CASE marks # {}
  <2> DEFINE k == MinOf(marks)
  <2>1. k \in 1 .. Len(s)
    <3>1. marks \in SUBSET Nat /\ marks \subseteq 1 .. Len(s)
      OBVIOUS
    <3>2. k \in marks
      BY <1>3, <3>1, FirstPosition, Zenon
    <3>3. QED
      BY <3>1, <3>2, Zenon
  <2>2. BeforeQuery(s) = SubSeq(s, 1, k - 1)
    BY <1>1, <1>3
  <2> HIDE DEF k, marks
  <2>3. QED
    BY <2>1, <2>2
<1>4. QED
  BY <1>2, <1>3

\* The path the server listens on is the one that a client asks for.
LEMMA PathIsFound ==
  ASSUME NEW p, p.path \in Optional(Seq(STRING)), p.path # None, Solid(p.path[1])
  PROVE  FromRemote(p).ws_path = ClientAsksFor(p.path[1])
<1> DEFINE raw == p.path[1]
           q == BeforeQuery(raw)
<1>1. raw \in Seq(STRING)
  BY OptionIs
<1>2. /\ q \in Seq(STRING) /\ Len(q) <= Len(raw) /\ \A i \in 1 .. Len(q) : q[i] = raw[i]
  BY <1>1, BeforeQueryIs
<1>3. Solid(raw)
  OBVIOUS
<1>4. Trim(raw) = raw
  BY <1>1, <1>3, TrimSolid
<1>5. Trim(BeforeQuery(Trim(raw))) = q
  <2>1. Solid(q)
    BY <1>1, <1>2, <1>3 DEF Solid
  <2>2. Trim(q) = q
    BY <1>2, <2>1, TrimSolid
  <2>3. QED
    BY <1>4, <2>2, Zenon
<1>6. NormalizeWsPath(raw) = IF q = <<>> \/ q[1] = "/" THEN q ELSE <<"/">> \o q
  BY <1>5, Zenon DEF NormalizeWsPath
<1>7. FromRemote(p).ws_path = IF NormalizeWsPath(raw) # <<>> THEN NormalizeWsPath(raw)
                              ELSE DefaultWsPath
  BY Zenon DEF FromRemote
<1>8. ClientAsksFor(raw) = IF q = <<>> THEN <<"/">> ELSE IF raw[1] = "/" THEN q ELSE <<"/">> \o q
  BY Zenon DEF ClientAsksFor
<1> HIDE DEF q, raw
<1>9. CASE q = <<>>
  BY <1>6, <1>7, <1>8, <1>9 DEF DefaultWsPath, raw
<1>10. CASE q # <<>>
  <2>1. q[1] = raw[1]
    BY <1>2, <1>10
  <2>2. <<"/">> \o q # <<>>
    BY <1>2
  <2>3. NormalizeWsPath(raw) = IF q[1] = "/" THEN q ELSE <<"/">> \o q
    BY <1>6, <1>10, Zenon
  <2>4. NormalizeWsPath(raw) # <<>>
    BY <1>10, <2>2, <2>3, Zenon
  <2>5. FromRemote(p).ws_path = ClientAsksFor(raw)
    BY <1>7, <1>8, <1>10, <2>1, <2>3, <2>4, Zenon
  <2>6. QED
    BY <2>5 DEF raw
<1>11. QED
  BY <1>9, <1>10

-----------------------------------------------------------------------------
(* percent_decode_str.                                                     *)

\* Nothing is taken out of a string without an escape, and of one with an
\* escape at least the first of its digits.
LEMMA KeptIs ==
  ASSUME NEW S, NEW s \in Seq(S)
  PROVE  /\ IsFiniteSet(Kept(s)) /\ Cardinality(Kept(s)) \in Nat
         /\ Escapes(s) = {} => Kept(s) = 1 .. Len(s)
         /\ Escapes(s) # {} => Cardinality(Kept(s)) # Len(s)
<1> DEFINE all == 1 .. Len(s)
<1>1. Len(s) \in Nat
  OBVIOUS
<1>2. IsFiniteSet(all) /\ Cardinality(all) = Len(s)
  <2>1. 1 \in Int /\ Len(s) \in Int
    BY <1>1
  <2>2. IsFiniteSet(all) /\ Cardinality(all) = IF 1 > Len(s) THEN 0 ELSE Len(s) - 1 + 1
    BY <2>1, FS_Interval, Zenon
  <2>3. QED
    BY <1>1, <2>2
<1>3. Kept(s) \in SUBSET all
  BY Zenon DEF Kept
<1>4. /\ IsFiniteSet(Kept(s)) /\ Cardinality(Kept(s)) \in Nat
      /\ Cardinality(all) = Cardinality(Kept(s)) => all = Kept(s)
  BY <1>2, <1>3, FS_Subset, FS_CardinalityType, Zenon
<1>5. Escapes(s) = {} => Kept(s) = all
  BY Zenon DEF Kept
<1>6. ASSUME Escapes(s) # {} PROVE Cardinality(Kept(s)) # Len(s)
  <2>1. PICK e \in Escapes(s) : TRUE
    BY <1>6, Zenon
  <2>2. e \in 1 .. Len(s) /\ e + 2 <= Len(s)
    BY Zenon DEF Escapes
  <2>3. e + 1 \in all
    BY <1>1, <2>2
  <2>4. e + 1 \notin Kept(s)
    BY Zenon DEF Kept
  <2>5. QED
    BY <1>2, <1>4, <2>3, <2>4, Zenon
<1>7. QED
  BY <1>4, <1>5, <1>6, Zenon

\* The k-th position of a whole string is k.
LEMMA NthOfAll ==
  ASSUME NEW n \in Nat, NEW k \in 1 .. n
  PROVE  Nth(1 .. n, k) = k
<1>1. ASSUME NEW i \in 1 .. n
      PROVE  Cardinality({j \in 1 .. n : j <= i}) = i
  <2>1. {j \in 1 .. n : j <= i} = 1 .. i
    OBVIOUS
  <2>2. 1 \in Int /\ i \in Int /\ i >= 1
    OBVIOUS
  <2>3. Cardinality(1 .. i) = IF 1 > i THEN 0 ELSE i - 1 + 1
    BY <2>2, FS_Interval, Zenon
  <2>4. Cardinality(1 .. i) = i
    BY <2>2, <2>3
  <2>5. QED
    BY <2>1, <2>4, Zenon
<1>2. QED
  BY <1>1, Zenon DEF Nth

\* A string is decoded to itself just when it holds no escape (ws.rs:97).
LEMMA DecodesToItself ==
  ASSUME NEW S, NEW s \in Seq(S)
  PROVE  PercentDecode(s) = s <=> Escapes(s) = {}
<1>1. /\ Cardinality(Kept(s)) \in Nat
      /\ Escapes(s) = {} => Kept(s) = 1 .. Len(s)
      /\ Escapes(s) # {} => Cardinality(Kept(s)) # Len(s)
  BY KeptIs
<1>2. Len(s) \in Nat /\ s = [k \in 1 .. Len(s) |-> s[k]]
  OBVIOUS
<1>3. DOMAIN PercentDecode(s) = 1 .. Cardinality(Kept(s))
  BY Zenon DEF PercentDecode
<1>4. ASSUME Escapes(s) # {} PROVE PercentDecode(s) # s
  <2>1. DOMAIN s = 1 .. Len(s)
    OBVIOUS
  <2>2. \A m, n \in Nat : 1 .. m = 1 .. n => m = n
    <3>1. ASSUME NEW m \in Nat, NEW n \in Nat, 1 .. m = 1 .. n PROVE m <= n
      <4>1. m = 0 \/ m \in 1 .. m
        OBVIOUS
      <4>2. QED
        BY <3>1, <4>1
    <3>2. QED
      BY <3>1
  <2>3. QED
    BY <1>1, <1>2, <1>3, <1>4, <2>1, <2>2, Zenon
<1>5. ASSUME Escapes(s) = {} PROVE PercentDecode(s) = s
  <2>1. Kept(s) = 1 .. Len(s)
    BY <1>1, <1>5
  <2>2. Cardinality(Kept(s)) = Len(s)
    <3>1. 1 \in Int /\ Len(s) \in Int
      BY <1>2
    <3>2. Cardinality(1 .. Len(s)) = IF 1 > Len(s) THEN 0 ELSE Len(s) - 1 + 1
      BY <3>1, FS_Interval, Zenon
    <3>3. QED
      BY <1>2, <2>1, <3>2
  <2>3. \A k \in 1 .. Len(s) : PercentDecode(s)[k] = s[k]
    <3>1. \A k \in 1 .. Len(s) : Nth(Kept(s), k) = k
      BY <1>2, <2>1, NthOfAll, Zenon
    <3>2. QED
      BY <1>5, <2>2, <3>1, Zenon DEF PercentDecode
  <2>4. PercentDecode(s) = [k \in 1 .. Len(s) |-> PercentDecode(s)[k]]
    BY <2>2, Zenon DEF PercentDecode
  <2>5. QED
    BY <1>2, <2>3, <2>4, Zenon
<1>6. QED
  BY <1>4, <1>5, Zenon

-----------------------------------------------------------------------------
(* The invariant of a start: what each stage has established.              *)

PastServing    == {"running", "served"}
PastResolved   == PastServing \cup {"resolved"}
PastLoaded     == PastResolved \cup {"loaded"}
PastConfigured == PastLoaded \cup {"configured"}
PastValid      == PastConfigured \cup {"valid"}
PastParsed     == PastValid \cup {"parsed"}
PastDefs       == PastParsed \cup {"args", "exit"}

StartInv ==
  /\ case \in Cases /\ stage \in PastDefs /\ listener \in {"none", "dual", "ipv4"}
  /\ stage \in PastParsed => ParsesMax(cli.max)
  /\ stage \in PastValid => Validate(cli)
  /\ stage \in PastConfigured => config = FromRemote(case.panel)
  /\ stage \in PastLoaded => alpn = AlpnForTransport(TransportType)
  /\ resolved = None \/ resolved = Resolve
  /\ stage \in PastResolved => resolved = Resolve
  /\ limiter = None \/ limiter = <<Resolve.value>>
  /\ stage \in PastServing => limiter # None
  /\ (stage \in PastServing) = (listener # "none")
  /\ fault = IF stage = "served" /\ 2 * cli.buffer_size < MIN_SIZE
             THEN {<<"refuses", "buffer_size">>} ELSE {}

\* A limit that was parsed and validated is one the semaphore takes.
LEMMA LimitIsSound ==
  ASSUME case \in Cases, ParsesMax(cli.max), Validate(cli)
  PROVE  Resolve.value \in 1 .. MAX_PERMITS
<1>1. MAX_PERMITS \in Nat
  BY StartupAssumption DEF MAX_PERMITS
<1>2. CASE cli.max.text = "auto"
  <2> DEFINE d == ComputeAuto(Cpus, TotalMem, NoFile)
  <2>1. Resolve.value = d.value
    BY <1>2, ResolveIs, Zenon
  <2>2. Cpus \in Nat \ {0} /\ TotalMem \in Nat /\ NoFile \in Nat
    BY ResourcesAre
  <2> DEFINE e == d
  <2>3. e = ComputeAuto(Cpus, TotalMem, NoFile)
    OBVIOUS
  <2>4. Resolve.value = e.value
    BY <2>1
  <2> HIDE DEF d, e
  <2>5. e.value \in Nat /\ e.value >= 1 /\ e.value <= MAX_PERMITS
    BY <2>2, <2>3, ComputeAutoIs
  <2>6. QED
    BY <1>1, <2>4, <2>5
<1>3. CASE cli.max.text # "auto"
  <2>1. Resolve.value = cli.max.n
    BY <1>3, ResolveIs, Zenon
  <2>2. cli.max.text = "number" /\ cli.max.n > 0
    BY <1>3 DEF ParsesMax
  <2>3. cli.max.n <= MAX_PERMITS
    BY <2>2, Zenon DEF Validate
  <2>4. cli.max.n \in Nat
    BY CaseIs, StartupAssumption
  <2>5. QED
    BY <1>1, <2>1, <2>2, <2>3, <2>4
<1>4. QED
  BY <1>2, <1>3

\* No consumer meets a number that it cannot take, but for a small buffer
\* (config.rs:202-330, handler.rs:97).
LEMMA NumbersAreUsable ==
  ASSUME case \in Cases, Validate(cli)
  PROVE  /\ RelayFaults = {} /\ ConnectFaults = {} /\ TlsFaults = {}
         /\ IdleTickFaults = {} /\ PanelFaults = {}
         /\ RequestFaults = IF 2 * cli.buffer_size < MIN_SIZE
                            THEN {<<"refuses", "buffer_size">>} ELSE {}
<1> USE StartupAssumption
<1>1. cli.d \in [Durations -> Nat]
  BY CaseIs
<1>2. \A n \in WholeSecond : cli.d[n] \in Nat /\ cli.d[n] >= Second /\ cli.d[n] <= MAX_DURATION
  BY <1>1 DEF Validate, AtLeastSecond, Durations
<1>3. \A n \in Intervals \cup Handshakes : cli.d[n] > 0 /\ cli.d[n] \in Nat
  BY <1>1 DEF Validate, Durations
<1>4. ASSUME NEW n \in WholeSecond
      PROVE  AsSecs(cli.d[n]) # 0 /\ ~(AsSecs(cli.d[n]) * Second > InstantLimit)
  <2> DEFINE a == cli.d[n]
             k == a \div Second
  <2>1. a \in Nat /\ 1 * Second <= a /\ a <= MAX_DURATION
    BY <1>2
  <2> HIDE DEF a
  <2>2. k \in Nat /\ k * Second <= a
    BY <2>1, DivRemainder
  <2>3. 1 <= k
    BY <2>1, FitsQuotient
  <2> HIDE DEF k
  <2>4. k # 0 /\ ~(k * Second > InstantLimit)
    BY <2>1, <2>2, <2>3
  <2>5. QED
    BY <2>4 DEF AsSecs, k, a
<1>5. RelayFaults = {}
  <2>1. cli.buffer_size # 0
    <3>1. cli.buffer_size > 0
      BY Zenon DEF Validate
    <3>2. cli.buffer_size \in Nat
      BY CaseIs
    <3>3. QED
      BY <3>1, <3>2
  <2>2. RelayTimers \subseteq WholeSecond
    BY DEF WholeSecond, RelayTimers
  <2>3. {m \in RelayTimers : AsSecs(cli.d[m]) = 0} = {}
    BY <1>4, <2>2, Zenon
  <2>4. {m \in RelayTimers : AsSecs(cli.d[m]) * Second > InstantLimit} = {}
    BY <1>4, <2>2, Zenon
  <2>5. QED
    BY <2>1, <2>3, <2>4, Zenon DEF RelayFaults
<1>6. \A n \in Handshakes : EndsAtOnce({n}) = {}
  <2>1. ASSUME NEW n \in Handshakes PROVE {m \in {n} : cli.d[m] = 0} = {}
    <3>1. cli.d[n] # 0
      BY <1>3
    <3>2. QED
      BY <3>1, Zenon
  <2>2. QED
    BY <2>1, Zenon DEF EndsAtOnce
<1>7. ConnectFaults = {} /\ TlsFaults = {}
  BY <1>6, Zenon DEF ConnectFaults, TlsFaults, Handshakes
<1>8. RequestFaults = IF 2 * cli.buffer_size < MIN_SIZE
                      THEN {<<"refuses", "buffer_size">>} ELSE {}
  <2>1. EndsAtOnce({"request"}) = {}
    BY <1>6, Zenon DEF Handshakes
  <2>2. QED
    BY <2>1, Zenon DEF RequestFaults
<1>9. IdleTickFaults = {}
  <2>1. cli.d["conn_idle"] \in Nat /\ cli.d["conn_idle"] >= 2
    BY <1>2 DEF WholeSecond
  <2>2. cli.d["conn_idle"] \div 2 # 0
    BY <2>1
  <2>3. QED
    BY <2>2, Zenon DEF IdleTickFaults
<1>10. PanelFaults = {}
  <2>1. {m \in Intervals : cli.d[m] = 0} = {}
    BY <1>3
  <2>2. {m \in {"api"} : AsSecs(cli.d[m]) = 0} = {}
    BY <1>4, Zenon DEF WholeSecond
  <2>3. QED
    BY <2>1, <2>2, Zenon DEF PanelFaults
<1>11. QED
  BY <1>5, <1>7, <1>8, <1>9, <1>10

\* Nothing is established before the command line is read.
LEMMA StartInvInit == StartupInit => StartInv
BY DEF StartupInit, StartInv, PastDefs, PastParsed, PastValid, PastConfigured, PastLoaded,
             PastResolved, PastServing

\* What depends on the inputs alone stays with them.
LEMMA InputsStay ==
  ASSUME UNCHANGED case
  PROVE  /\ cli' = cli /\ Resolve' = Resolve
         /\ ParsesMax(cli.max)' = ParsesMax(cli.max) /\ Validate(cli)' = Validate(cli)
         /\ FromRemote(case.panel)' = FromRemote(case.panel)
<1>1. cli' = cli /\ host' = host
  BY DEF cli, host
<1>2. QED
  BY <1>1 DEF Resolve, Cpus, TotalMem, NoFile

\* Every step of a start preserves what the stages before it established.
LEMMA StartInvNext == StartInv /\ [StartupNext]_startup_vars => StartInv'
<1> SUFFICES ASSUME StartInv, [StartupNext]_startup_vars PROVE StartInv'
  OBVIOUS
<1> USE DEF PastDefs, PastParsed, PastValid, PastConfigured, PastLoaded, PastResolved, PastServing
<1>0. UNCHANGED case
  BY Zenon DEF StartupNext, startup_vars, ParseArgs, ValidateArgs, ParseTrojanConfig, LoadLocal,
     ResolveMax,
               StartLimiter, BindDualStack, UseConfig
<1>a. UNCHANGED config => TransportType' = TransportType
  BY DEF TransportType
<1> HIDE DEF StartInv
<1>1. CASE ParseArgs
  BY <1>1, <1>0, <1>a, InputsStay DEF ParseArgs, StartInv
<1>2. CASE ValidateArgs
  BY <1>2, <1>0, <1>a, InputsStay DEF ValidateArgs, StartInv
<1>3. CASE ParseTrojanConfig
  BY <1>3, <1>0, <1>a, InputsStay DEF ParseTrojanConfig, StartInv
<1>4. CASE LoadLocal
  BY <1>4, <1>0, <1>a, InputsStay DEF LoadLocal, StartInv
<1>5. CASE ResolveMax
  BY <1>5, <1>0, <1>a, InputsStay DEF ResolveMax, StartInv
<1>6. CASE StartLimiter
  <2>1. resolved = Resolve /\ case \in Cases /\ ParsesMax(cli.max) /\ Validate(cli)
    BY <1>6 DEF StartLimiter, StartInv
  <2>2. Resolve.value \in 1 .. MAX_PERMITS
    BY <2>1, LimitIsSound
  <2>3. ~(resolved.value > MAX_PERMITS)
    BY <2>1, <2>2, StartupAssumption DEF MAX_PERMITS
  <2>4. limiter' = <<Resolve.value>> /\ UNCHANGED stage
    BY <1>6, <2>1, <2>3 DEF StartLimiter
  <2>5. stage = "resolved" /\ UNCHANGED <<config, alpn, resolved, listener, fault>>
    BY <1>6 DEF StartLimiter
  <2>6. QED
    BY <2>4, <2>5, <1>0, <1>a, InputsStay DEF StartInv
<1>7. CASE BindDualStack
  <2>1. resolved = Resolve /\ case \in Cases /\ ParsesMax(cli.max) /\ Validate(cli)
    BY <1>7 DEF BindDualStack, StartInv
  <2>2. Resolve.value \in 1 .. MAX_PERMITS
    BY <2>1, LimitIsSound
  <2>3. ~(resolved.value = 0)
    BY <2>1, <2>2, StartupAssumption DEF MAX_PERMITS
  <2>4. limiter # None
    BY <1>7, <2>3 DEF BindDualStack
  <2>5. stage = "resolved" /\ UNCHANGED <<config, alpn, resolved, limiter, fault>>
    BY <1>7 DEF BindDualStack
  <2>6. \/ stage' = "running" /\ listener' \in {"dual", "ipv4"}
        \/ stage' = "exit" /\ UNCHANGED listener
    BY <1>7 DEF BindDualStack
  <2>7. QED
    BY <2>4, <2>5, <2>6, <1>0, <1>a, InputsStay DEF StartInv
<1>8. CASE UseConfig
  <2>1. case \in Cases /\ Validate(cli)
    BY <1>8 DEF UseConfig, StartInv
  <2> DEFINE refused == IF 2 * cli.buffer_size < MIN_SIZE THEN {<<"refuses", "buffer_size">>} ELSE {}
  <2>2. /\ RelayFaults = {} /\ ConnectFaults = {} /\ TlsFaults = {} /\ IdleTickFaults = {}
        /\ PanelFaults = {} /\ RequestFaults = refused
    BY <2>1, NumbersAreUsable
  <2>3. stage = "running" /\ stage' = "served"
        /\ UNCHANGED <<config, alpn, resolved, limiter, listener>>
    BY <1>8 DEF UseConfig
  <2>4. fault' = refused
    BY <1>8, <2>2, Zenon DEF UseConfig
  <2>5. QED
    BY <2>3, <2>4, <1>0, <1>a, InputsStay DEF StartInv
<1>9. CASE UNCHANGED startup_vars
  BY <1>9, <1>0, <1>a, InputsStay DEF startup_vars, StartInv
<1>10. QED
  BY <1>1, <1>2, <1>3, <1>4, <1>5, <1>6, <1>7, <1>8, <1>9 DEF StartupNext

\* Every reachable state of a start satisfies the invariant.
LEMMA StartInvHolds == StartupSpec => []StartInv
BY StartInvInit, StartInvNext, PTL DEF StartupSpec

\* A start that the invariant holds of serves what it promised.
LEMMA StartInvIsUsable ==
  ASSUME StartInv
  PROVE  AcceptedIsUsable
<1> USE DEF PastDefs, PastParsed, PastValid, PastConfigured, PastLoaded, PastResolved, PastServing
<1>1. StartupTypeOK
  <2>1. Len(None) <= 1 /\ Len(<<Resolve.value>>) <= 1
    BY DEF None
  <2>2. Len(limiter) <= 1
    BY <2>1 DEF StartInv
  <2>3. QED
    BY <2>2 DEF StartInv, StartupTypeOK, StartupStages
<1>2. /\ stage # "crashed"
      /\ fault = IF stage = "served" /\ 2 * cli.buffer_size < MIN_SIZE
                 THEN {<<"refuses", "buffer_size">>} ELSE {}
  BY DEF StartInv
<1>3. ASSUME stage = "served"
      PROVE  limiter # None /\ limiter[1] = resolved.value /\ limiter[1] \in 1 .. MAX_PERMITS
  <2>1. limiter = <<Resolve.value>> /\ limiter # None /\ resolved = Resolve
    BY <1>3 DEF StartInv
  <2>2. case \in Cases /\ ParsesMax(cli.max) /\ Validate(cli)
    BY <1>3 DEF StartInv
  <2>3. Resolve.value \in 1 .. MAX_PERMITS
    BY <2>2, LimitIsSound
  <2>4. limiter[1] = Resolve.value
    BY <2>1
  <2>5. QED
    BY <2>1, <2>3, <2>4, Zenon
<1>4. ASSUME stage = "served", case.panel.path # None, FitsUri(case.panel.path[1])
      PROVE  AcceptsPath(ClientAsksFor(case.panel.path[1])) <=> Escapes(config.ws_path) = {}
  <2> DEFINE raw == case.panel.path[1]
  <2>1. config = FromRemote(case.panel) /\ case \in Cases
    BY <1>4 DEF StartInv
  <2>2. case.panel.path \in Optional(Seq(STRING))
    BY <2>1, CaseIs
  <2>3. Solid(raw)
    BY <1>4, Zenon DEF Solid, FitsUri, NotInUris
  <2>4. config.ws_path = ClientAsksFor(raw)
    BY <1>4, <2>1, <2>2, <2>3, PathIsFound
  <2> DEFINE Chars == STRING \cup {"/"}
  <2>5. ClientAsksFor(raw) \in Seq(Chars)
    <3>1. BeforeQuery(raw) \in Seq(STRING)
      BY <1>4, <2>2, OptionIs, BeforeQueryIs, Zenon
    <3>2. ASSUME NEW S, NEW c, NEW q \in Seq(S)
          PROVE  {q, <<c>>, <<c>> \o q} \subseteq Seq(S \cup {c})
      <4>1. q \in Seq(S \cup {c}) /\ <<c>> \in Seq(S \cup {c})
        OBVIOUS
      <4>2. QED
        BY <4>1
    <3>3. {BeforeQuery(raw), <<"/">>, <<"/">> \o BeforeQuery(raw)} \subseteq Seq(Chars)
      BY <3>1, <3>2, Zenon
    <3>4. QED
      BY <3>3, Zenon DEF ClientAsksFor
  <2>6. QED
    BY <2>4, <2>5, DecodesToItself, Zenon DEF AcceptsPath
<1>5. ASSUME stage = "served"
      PROVE  /\ TransportType = "ws" => alpn # <<"h2">>
             /\ TransportType = "grpc" => alpn = <<"h2">>
  <2>1. alpn = AlpnForTransport(TransportType)
    BY <1>5 DEF StartInv
  <2>2. AlpnForTransport("grpc") = <<"h2">> /\ AlpnForTransport("ws") = <<"http/1.1">>
    BY DEF AlpnForTransport
  <2>3. <<"http/1.1">> # <<"h2">>
    OBVIOUS
  <2>4. QED
    BY <2>1, <2>2, <2>3
<1>6. QED
  BY <1>1, <1>2, <1>3, <1>4, <1>5, Zenon DEF AcceptedIsUsable

(* Whatever the command line, the panel and the host, a start that is      *)
(* accepted runs with a limit the semaphore takes, the ALPN of its         *)
(* transport, and timers and buffers no consumer trips over, except that a *)
(* buffer below half of MIN_SIZE refuses every request; and it lets in the *)
(* client that sends the panel's path as it stands unless the path holds a *)
(* percent escape (config.rs:202-330, handler.rs:97, ws.rs:94-104).        *)
THEOREM AcceptedStartsAreUsable == StartupSpec => []AcceptedIsUsable
<1>1. StartInv => AcceptedIsUsable
  BY StartInvIsUsable
<1>2. QED
  BY <1>1, StartInvHolds, PTL

(* On every host the automatic limit is the largest that fits the budgets, *)
(* and a fixed one is warned about just when it does not                   *)
(* (config_auto.rs:76-160).                                                *)
THEOREM AutomaticLimitIsSafe == StartupSpec => []AutoIsSafe
<1>1. StartInv => AutoIsSafe
  <2>1. CASE resolved = None
    BY <2>1, Zenon DEF AutoIsSafe
  <2>2. ASSUME StartInv, resolved = Resolve
        PROVE  AutoIsSafe
    BY <2>2, ResolveIsSafe, Zenon DEF StartInv
  <2>3. QED
    BY <2>1, <2>2, Zenon DEF StartInv
<1>2. QED
  BY <1>1, StartInvHolds, PTL

-----------------------------------------------------------------------------
(* The inductive invariant, by parts.                                      *)

\* Before the server is built no task and no reporter exists.
Building == pc \in {"fetch_config", "local_setup", "initialize", "fetch_users", "abort"}

\* A batch is held only while it is being submitted.
BatchesSettled ==
  /\ pc # "submit" => main_batch = 0
  /\ bg # "submitting" => bg_batch = 0

\* The reporter lives from the end of the start-up to the end of the shutdown.
ReporterStage ==
  /\ Building => bg = "off"
  /\ bg = "off" => Building \/ pc = "exited"
  /\ bg = "done" => pc \in {"stop_background", "exited"}
  /\ pc = "exited" => bg \in {"off", "done"}

\* Without the reporter there was no task either, and nothing was recorded.
NothingBefore ==
  bg = "off" => collector = 0 /\ \A c \in Conns : conn[c] = "none"

\* From the final snapshot on, what is in the collector has a reason to be there.
LateIsExcused ==
  Flushed \/ pc = "exited" => (collector > 0 => excused # {})

\* The register_id exists from initialize to the unregister call.
RegistrationStage ==
  /\ pc \in {"fetch_config", "local_setup", "initialize"} => ~registered
  /\ pc \in {"stop_background", "exited"} => ~registered \/ unregister_failed

Stages == BatchesSettled /\ ReporterStage /\ NothingBefore

LInv == TrafficConserved /\ Stages /\ LateIsExcused /\ RegistrationStage

-----------------------------------------------------------------------------
(* The initial state and one lemma per part.                               *)

\* The process starts with nothing recorded, no task and no registration.
LEMMA InitLInv == Init => LInv
<1> SUFFICES ASSUME Init PROVE LInv
  OBVIOUS
<1>1. TrafficConserved
  <2>1. /\ recorded \in 0 .. MaxTraffic /\ reports \in 0 .. MaxRetries
        /\ recorded + booked_twice = collector + main_batch + bg_batch + panel
    BY BoundsAssumption DEF Init
  <2>2. conn \in [Conns -> {"none", "reading", "serving", "gone"}]
    BY DEF Init
  <2>3. QED
    BY <2>1, <2>2 DEF Init, TrafficConserved, TypeOK, PcValues
<1>2. Stages
  BY DEF Init, Stages, BatchesSettled, ReporterStage, NothingBefore, Building
<1>3. LateIsExcused /\ RegistrationStage
  BY DEF Init, LateIsExcused, Flushed, RegistrationStage
<1>4. QED
  BY <1>1, <1>2, <1>3 DEF LInv

\* Every step moves units between the collector, the two batches and the panel
\* and creates or drops none (mod.rs:22-54, main.rs:262-296).
LEMMA NextConserved ==
  ASSUME TrafficConserved, Stages, [Next]_vars
  PROVE  TrafficConserved'
<1> USE BoundsAssumption DEF TrafficConserved, TypeOK, PcValues, Stages, BatchesSettled,
      conn_vars, traffic_vars, bg_vars
<1>1. CASE FetchConfig
  BY <1>1 DEF FetchConfig
<1>2. CASE LocalSetup
  BY <1>2 DEF LocalSetup
<1>3. CASE Initialize
  BY <1>3 DEF Initialize
<1>4. CASE FetchUsers
  BY <1>4 DEF FetchUsers, UsersFailed
<1>5. CASE Abort
  BY <1>5 DEF Abort, Unregister
<1>6. CASE Stop
  BY <1>6 DEF Stop
<1>7. CASE CancelAll
  BY <1>7 DEF CancelAll, Registered, SkipsDrain
<1>8. CASE DrainSleep
  BY <1>8 DEF DrainSleep
<1>9. CASE DrainDone
  BY <1>9 DEF DrainDone
<1>10. CASE FlushTake
  BY <1>10 DEF FlushTake
<1>11. CASE FlushSettle
  BY <1>11 DEF FlushSettle, Settle, Booked, AnswerLost, Restored
<1>12. CASE UnregisterNode
  BY <1>12 DEF UnregisterNode, Unregister
<1>13. CASE FinalReport
  BY <1>13 DEF FinalReport
<1>14. CASE Exit
  BY <1>14 DEF Exit
<1>15. CASE BgTake
  BY <1>15 DEF BgTake, Alive
<1>16. CASE BgSettle
  BY <1>16 DEF BgSettle, Alive, Settle, Booked, AnswerLost, Restored
<1>17. ASSUME NEW c \in Conns, Accept(c) PROVE TrafficConserved'
  BY <1>17 DEF Accept, Accepting, Alive
<1>18. ASSUME NEW c \in Conns, Serve(c) PROVE TrafficConserved'
  BY <1>18 DEF Serve, Alive
<1>19. ASSUME NEW c \in Conns, Record(c) PROVE TrafficConserved'
  BY <1>19 DEF Record, Alive
<1>20. ASSUME NEW c \in Conns, Finish(c) PROVE TrafficConserved'
  BY <1>20 DEF Finish, Alive
<1>21. CASE UNCHANGED vars
  BY <1>21 DEF vars
<1>22. QED
  BY <1>1, <1>2, <1>3, <1>4, <1>5, <1>6, <1>7, <1>8, <1>9, <1>10, <1>11, <1>12, <1>13, <1>14,
     <1>15, <1>16, <1>17, <1>18, <1>19, <1>20, <1>21 DEF Next, Startup, Shutdown, Tasks,
     Background

\* Batches are settled before the next stage, and tasks and reporter exist only
\* between the end of the start-up and the exit of the process.
LEMMA NextStages ==
  ASSUME TrafficConserved, Stages, [Next]_vars
  PROVE  Stages'
<1> USE DEF TrafficConserved, TypeOK, Stages, BatchesSettled, ReporterStage, NothingBefore, Building, conn_vars,
      traffic_vars, bg_vars
<1>1. CASE FetchConfig
  BY <1>1 DEF FetchConfig
<1>2. CASE LocalSetup
  BY <1>2 DEF LocalSetup
<1>3. CASE Initialize
  BY <1>3 DEF Initialize
<1>4. CASE FetchUsers
  BY <1>4 DEF FetchUsers, UsersFailed
<1>5. CASE Abort
  BY <1>5 DEF Abort, Unregister
<1>6. CASE Stop
  BY <1>6 DEF Stop
<1>7. CASE CancelAll
  BY <1>7 DEF CancelAll, Registered, SkipsDrain
<1>8. CASE DrainSleep
  BY <1>8 DEF DrainSleep
<1>9. CASE DrainDone
  BY <1>9 DEF DrainDone
<1>10. CASE FlushTake
  BY <1>10 DEF FlushTake
<1>11. CASE FlushSettle
  BY <1>11 DEF FlushSettle, Settle, Booked, AnswerLost, Restored
<1>12. CASE UnregisterNode
  BY <1>12 DEF UnregisterNode, Unregister
<1>13. CASE FinalReport
  BY <1>13 DEF FinalReport
<1>14. CASE Exit
  BY <1>14 DEF Exit
<1>15. CASE BgTake
  BY <1>15 DEF BgTake, Alive
<1>16. CASE BgSettle
  BY <1>16 DEF BgSettle, Alive, Settle, Booked, AnswerLost, Restored
<1>17. ASSUME NEW c \in Conns, Accept(c) PROVE Stages'
  BY <1>17 DEF Accept, Accepting, Alive
<1>18. ASSUME NEW c \in Conns, Serve(c) PROVE Stages'
  BY <1>18 DEF Serve, Alive
<1>19. ASSUME NEW c \in Conns, Record(c) PROVE Stages'
  BY <1>19 DEF Record, Alive
<1>20. ASSUME NEW c \in Conns, Finish(c) PROVE Stages'
  BY <1>20 DEF Finish, Alive
<1>21. CASE UNCHANGED vars
  BY <1>21 DEF vars
<1>22. QED
  BY <1>1, <1>2, <1>3, <1>4, <1>5, <1>6, <1>7, <1>8, <1>9, <1>10, <1>11, <1>12, <1>13, <1>14,
     <1>15, <1>16, <1>17, <1>18, <1>19, <1>20, <1>21 DEF Next, Startup, Shutdown, Tasks,
     Background

\* What enters the collector after the final snapshot is excused when it enters.
LEMMA NextLateIsExcused ==
  ASSUME TrafficConserved, Stages, LateIsExcused, [Next]_vars
  PROVE  LateIsExcused'
<1> USE DEF TrafficConserved, TypeOK, Stages, BatchesSettled, ReporterStage, NothingBefore, Building, LateIsExcused,
      Flushed, traffic_vars, bg_vars
<1>1. CASE FetchConfig
  BY <1>1 DEF FetchConfig
<1>2. CASE LocalSetup
  BY <1>2 DEF LocalSetup
<1>3. CASE Initialize
  BY <1>3 DEF Initialize
<1>4. CASE FetchUsers
  BY <1>4 DEF FetchUsers, UsersFailed
<1>5. CASE Abort
  BY <1>5 DEF Abort, Unregister
<1>6. CASE Stop
  BY <1>6 DEF Stop
<1>7. CASE CancelAll
  BY <1>7 DEF CancelAll, Registered, SkipsDrain
<1>8. CASE DrainSleep
  BY <1>8 DEF DrainSleep
<1>9. CASE DrainDone
  BY <1>9 DEF DrainDone
<1>10. CASE FlushTake
  BY <1>10 DEF FlushTake
<1>11. CASE FlushSettle
  BY <1>11 DEF FlushSettle, Settle, Booked, AnswerLost, Restored
<1>12. CASE UnregisterNode
  BY <1>12 DEF UnregisterNode, Unregister
<1>13. CASE FinalReport
  BY <1>13 DEF FinalReport
<1>14. CASE Exit
  BY <1>14 DEF Exit
<1>15. CASE BgTake
  BY <1>15 DEF BgTake, Alive
<1>16. CASE BgSettle
  BY <1>16 DEF BgSettle, Alive, Settle, Booked, AnswerLost, Restored
<1>17. ASSUME NEW c \in Conns, Accept(c) PROVE LateIsExcused'
  BY <1>17 DEF Accept, Accepting, Alive
<1>18. ASSUME NEW c \in Conns, Serve(c) PROVE LateIsExcused'
  BY <1>18 DEF Serve, Alive
<1>19. ASSUME NEW c \in Conns, Record(c) PROVE LateIsExcused'
  BY <1>19 DEF Record, Alive
<1>20. ASSUME NEW c \in Conns, Finish(c) PROVE LateIsExcused'
  BY <1>20 DEF Finish, Alive
<1>21. CASE UNCHANGED vars
  BY <1>21 DEF vars
<1>22. QED
  BY <1>1, <1>2, <1>3, <1>4, <1>5, <1>6, <1>7, <1>8, <1>9, <1>10, <1>11, <1>12, <1>13, <1>14,
     <1>15, <1>16, <1>17, <1>18, <1>19, <1>20, <1>21 DEF Next, Startup, Shutdown, Tasks,
     Background

\* Nobody but initialize and unregister touches the register_id.
LEMMA NextRegistration ==
  ASSUME TrafficConserved, Stages, RegistrationStage, [Next]_vars
  PROVE  RegistrationStage'
<1> USE DEF TrafficConserved, TypeOK, Stages, ReporterStage, Building, RegistrationStage, bg_vars
<1>1. CASE FetchConfig
  BY <1>1 DEF FetchConfig
<1>2. CASE LocalSetup
  BY <1>2 DEF LocalSetup
<1>3. CASE Initialize
  <2>1. CASE pc' = "fetch_users"
    BY <2>1
  <2>2. CASE pc' = "exited" /\ UNCHANGED registered
    BY <1>3, <2>2 DEF Initialize
  <2>3. QED
    BY <1>3, <2>1, <2>2 DEF Initialize
<1>4. CASE FetchUsers
  BY <1>4 DEF FetchUsers, UsersFailed
<1>5. CASE Abort
  BY <1>5 DEF Abort, Unregister
<1>6. CASE Stop
  BY <1>6 DEF Stop
<1>7. CASE CancelAll
  BY <1>7 DEF CancelAll, Registered, SkipsDrain
<1>8. CASE DrainSleep
  BY <1>8 DEF DrainSleep
<1>9. CASE DrainDone
  BY <1>9 DEF DrainDone
<1>10. CASE FlushTake
  BY <1>10 DEF FlushTake
<1>11. CASE FlushSettle
  BY <1>11 DEF FlushSettle, Settle, Booked, AnswerLost, Restored
<1>12. CASE UnregisterNode
  BY <1>12 DEF UnregisterNode, Unregister
<1>13. CASE FinalReport
  BY <1>13 DEF FinalReport
<1>14. CASE Exit
  BY <1>14 DEF Exit
<1>15. CASE BgTake
  BY <1>15 DEF BgTake, Alive
<1>16. CASE BgSettle
  BY <1>16 DEF BgSettle, Alive, Settle, Booked, AnswerLost, Restored
<1>17. ASSUME NEW c \in Conns, Accept(c) PROVE RegistrationStage'
  BY <1>17 DEF Accept, Accepting, Alive
<1>18. ASSUME NEW c \in Conns, Serve(c) PROVE RegistrationStage'
  BY <1>18 DEF Serve, Alive
<1>19. ASSUME NEW c \in Conns, Record(c) PROVE RegistrationStage'
  BY <1>19 DEF Record, Alive
<1>20. ASSUME NEW c \in Conns, Finish(c) PROVE RegistrationStage'
  BY <1>20 DEF Finish, Alive
<1>21. CASE UNCHANGED vars
  BY <1>21 DEF vars
<1>22. QED
  BY <1>1, <1>2, <1>3, <1>4, <1>5, <1>6, <1>7, <1>8, <1>9, <1>10, <1>11, <1>12, <1>13, <1>14,
     <1>15, <1>16, <1>17, <1>18, <1>19, <1>20, <1>21 DEF Next, Startup, Shutdown, Tasks,
     Background

-----------------------------------------------------------------------------
(* The theorems.                                                           *)

\* The parts together.
LEMMA NextLInv == LInv /\ [Next]_vars => LInv'
<1> SUFFICES ASSUME LInv, [Next]_vars PROVE LInv'
  OBVIOUS
<1>1. TrafficConserved'
  BY NextConserved DEF LInv
<1>2. Stages'
  BY NextStages DEF LInv
<1>3. LateIsExcused' /\ RegistrationStage'
  BY NextLateIsExcused, NextRegistration DEF LInv
<1>4. QED
  BY <1>1, <1>2, <1>3 DEF LInv

\* The inductive invariant holds throughout.
LEMMA LInvHolds == Spec => []LInv
  BY InitLInv, NextLInv, PTL DEF Spec

\* No unit is lost or invented on the way from a relay to the panel, whatever
\* the order of records, reports, the final flush and their failures; the only
\* excess are batches booked with their answer lost (mod.rs:22-54).
THEOREM TrafficIsConserved == Spec => []TrafficConserved
<1>1. LInv => TrafficConserved
  BY DEF LInv
<1>2. QED
  BY <1>1, LInvHolds, PTL

\* Every way out of main that follows a successful initialize() passes an
\* unregister call (main.rs:104-119, 286-293).
THEOREM NoNodeIsLeftRegistered == Spec => []NoNodeLeftRegistered
<1>1. LInv => NoNodeLeftRegistered
  BY DEF LInv, RegistrationStage, NoNodeLeftRegistered
<1>2. QED
  BY <1>1, LInvHolds, PTL

\* Units still in the collector at exit were recorded after the final snapshot,
\* restored by its failed submission, or in the reporter's hands during it
\* (main.rs:262-296): for any number of connections and reports.
THEOREM LeftBehindExplained == Spec => []LeftBehindIsExplained
<1>1. LInv => LeftBehindIsExplained
  BY DEF LInv, LateIsExcused, LeftBehindIsExplained
<1>2. QED
  BY <1>1, LInvHolds, PTL
=============================================================================
