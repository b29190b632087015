---------------------------- MODULE Radio_proof ----------------------------
(***************************************************************************)
(* Proofs about the library of the radio module: the frames its drivers    *)
(* send, what they make of an answer, and the reports of the WiFi object   *)
(* over them.                                                              *)
(***************************************************************************)
EXTENDS NinaCalls, WiFi, SequenceTheorems, WellFoundedInduction, TLAPS

(***************************************************************************)
(* Frames, built piece by piece.                                           *)
(***************************************************************************)

\* What a frame is so far; nothing follows its end but padding.
Is(f, c, n, b, p, e) ==
  f.cmd = c /\ f.nparams = n /\ f.bytes = b /\ f.params = p /\ f.ends = e /\ f.inside

LEMMA PieceIs ==
  ASSUME NEW c, NEW n, NEW b, NEW p, NEW e
  PROVE  Is(Piece(c, n, b, p, e), c, n, b, p, e)
BY Zenon DEF Is, Piece

LEMMA Fields ==
  ASSUME NEW f, NEW g
  PROVE  /\ (f ++ g).cmd = f.cmd /\ (f ++ g).nparams = f.nparams
         /\ (f ++ g).bytes = f.bytes + g.bytes /\ (f ++ g).params = f.params + g.params
         /\ (f ++ g).ends = f.ends + g.ends
         /\ (f ++ g).inside <=> f.inside /\ (f.ends > 0 => g.params = 0)
<1>1. f ++ g = Joined(f, g)
  BY Zenon DEF ++
<1>2. /\ Joined(f, g).cmd = f.cmd /\ Joined(f, g).nparams = f.nparams
      /\ Joined(f, g).bytes = f.bytes + g.bytes /\ Joined(f, g).params = f.params + g.params
      /\ Joined(f, g).ends = f.ends + g.ends
  BY Zenon DEF Joined
<1>3. Joined(f, g).inside <=> f.inside /\ (f.ends > 0 => g.params = 0)
  BY Zenon DEF Joined
<1> QED BY <1>1, <1>2, <1>3, Zenon

LEMMA JoinedIs ==
  ASSUME NEW f, NEW g, NEW c, NEW n, NEW b, NEW p, NEW e, NEW d, NEW m, NEW x, NEW y, NEW z,
         Is(f, c, n, b, p, e), Is(g, d, m, x, y, z), e > 0 => y = 0
  PROVE  Is(f ++ g, c, n, b + x, p + y, e + z)
<1>1. /\ f.cmd = c /\ f.nparams = n /\ f.bytes = b /\ f.params = p /\ f.ends = e /\ f.inside
      /\ g.bytes = x /\ g.params = y /\ g.ends = z
  BY Zenon DEF Is
<1>2. /\ (f ++ g).cmd = f.cmd /\ (f ++ g).nparams = f.nparams
      /\ (f ++ g).bytes = f.bytes + g.bytes /\ (f ++ g).params = f.params + g.params
      /\ (f ++ g).ends = f.ends + g.ends
  BY Fields, Zenon
<1>3. (f ++ g).inside <=> f.inside /\ (f.ends > 0 => g.params = 0)
  BY Fields, Zenon
<1>4. (f ++ g).inside
  BY <1>1, <1>3, Zenon
<1> QED BY <1>1, <1>2, <1>4, Zenon DEF Is

\* A parameter, the last one, and padding.
LEMMA Adds ==
  ASSUME NEW f, NEW c, NEW n, NEW b, NEW p, NEW x
  PROVE  /\ Is(f, c, n, b, p, 0) => Is(f ++ Piece(0, 0, x, 1, 0), c, n, b + x, p + 1, 0)
         /\ Is(f, c, n, b, p, 0) => Is(f ++ Piece(0, 0, x, 1, 1), c, n, b + x, p + 1, 1)
         /\ Is(f, c, n, b, p, 1) => Is(f ++ Piece(0, 0, x, 0, 0), c, n, b + x, p + 0, 1)
<1>1. 0 + 0 = 0 /\ 0 + 1 = 1 /\ 1 + 0 = 1 /\ ~ 0 > 0
  OBVIOUS
<1> QED BY <1>1, JoinedIs, PieceIs, ZenonT(30)

LEMMA Starts ==
  ASSUME NEW c
  PROVE  /\ Is(SendCmd(c, 0), c, 0, 4, 0, 1)
         /\ \A n \in Nat \ {0} : Is(SendCmd(c, n), c, n, 3, 0, 0)
<1>1. Is(SendCmd(c, 0), c, 0, 4, 0, 1)
  BY PieceIs, Zenon DEF SendCmd
<1>2. ASSUME NEW n \in Nat \ {0} PROVE Is(SendCmd(c, n), c, n, 3, 0, 0)
  <2>1. n # 0
    OBVIOUS
  <2> QED BY <2>1, PieceIs, Zenon DEF SendCmd
<1> QED BY <1>1, <1>2

\* Padding makes whole words of what differs from the size by whole words.
LEMMA PadIs ==
  ASSUME NEW size \in Nat, NEW b \in Nat, NEW q \in Int, size = b + (4 * q)
  PROVE  (b + ((4 - (size % 4)) % 4)) % 4 = 0
OBVIOUS

LEMMA Divided ==
  ASSUME NEW n \in Nat, NEW m \in Nat \ {0}
  PROVE  \E q \in Nat : n = (m * q) + (n % m)
<1>1. n \div m \in Nat /\ n = (m * (n \div m)) + (n % m)
  OBVIOUS
<1> QED BY <1>1, Zenon

\* A length cut to a byte, or to sixteen bits, differs from it by whole words.
LEMMA CutLengths ==
  ASSUME NEW n \in Nat
  PROVE  /\ Len8(n) \in Nat /\ (\E q \in Nat : n = Len8(n) + (4 * q))
         /\ Len16(n) \in Nat /\ (\E q \in Nat : n = Len16(n) + (4 * q))
<1>1. ASSUME NEW m \in Nat \ {0}, NEW w \in Nat, m = 4 * w
      PROVE  n % m \in Nat /\ (\E q \in Nat : n = (n % m) + (4 * q))
  <2>1. PICK p \in Nat : n = (m * p) + (n % m)
    BY Divided, Zenon
  <2>2. m * p = 4 * (w * p) /\ w * p \in Nat
    BY <1>1
  <2>3. n % m \in Nat
    OBVIOUS
  <2>4. PICK r \in Nat, q \in Nat : r = n % m /\ q = w * p
    BY <2>2, <2>3, Zenon
  <2>5. n = r + (4 * q)
    BY <2>1, <2>2, <2>4
  <2> QED BY <2>4, <2>5, Zenon
<1>2. Len8(n) \in Nat /\ (\E q \in Nat : n = Len8(n) + (4 * q))
  <2>1. PICK m : m = 256
    OBVIOUS
  <2>2. PICK w : w = 64
    OBVIOUS
  <2>3. m \in Nat \ {0} /\ w \in Nat /\ m = 4 * w
    BY <2>1, <2>2
  <2>4. Len8(n) = n % m
    BY <2>1 DEF Len8
  <2> QED BY <1>1, <2>3, <2>4, Zenon
<1>3. Len16(n) \in Nat /\ (\E q \in Nat : n = Len16(n) + (4 * q))
  <2>1. PICK m : m = 65536
    OBVIOUS
  <2>2. PICK w : w = 16384
    OBVIOUS
  <2>3. m \in Nat \ {0} /\ w \in Nat /\ m = 4 * w
    BY <2>1, <2>2
  <2>4. Len16(n) = n % m
    BY <2>1 DEF Len16
  <2> QED BY <1>1, <2>3, <2>4, Zenon
<1> QED BY <1>2, <1>3

LEMMA ShortLengths == Len8(1) = 1 /\ Len8(2) = 2 /\ Len8(4) = 4 /\ Len16(1) = 1
BY DEF Len8, Len16

\* A frame of the command that keeps what FrameWhole asks.
Whole(f, cmd) == \E n, b : Is(f, cmd, n, b, n, 1) /\ (b % 4 = 0 \/ cmd \in Unpadded)

LEMMA OneByteFrame ==
  ASSUME NEW cmd
  PROVE  Whole(SendCmd(cmd, 1) ++ LastParam(1) ++ ReadChars(2),
               cmd)
<1>1. 1 \in Nat \ {0} /\ 0 + 1 + 0 = 1
  OBVIOUS
<1>2. Is(SendCmd(cmd, 1) ++ LastParam(1) ++ ReadChars(2),
         cmd, 1, 3 + (2 + Len8(1)) + 2,
         0 + 1 + 0, 1)
  BY <1>1, Starts, Adds, Zenon DEF LastParam, ReadChars
<1>3. (3 + (2 + Len8(1)) + 2) % 4 = 0
  BY DEF Len8, Len16
<1> QED BY <1>1, <1>2, <1>3, Zenon DEF Whole

LEMMA StringFrame ==
  ASSUME NEW cmd, NEW n \in Nat
  PROVE  Whole(SendCmd(cmd, 1) ++ LastParam(n) ++ Pad(5 + n),
               cmd)
<1>1. 1 \in Nat \ {0} /\ 0 + 1 + 0 = 1
  OBVIOUS
<1>2. Is(SendCmd(cmd, 1) ++ LastParam(n) ++ Pad(5 + n),
         cmd, 1, 3 + (2 + Len8(n)) + ((4 - ((5 + n) % 4)) % 4),
         0 + 1 + 0, 1)
  BY <1>1, Starts, Adds, Zenon DEF LastParam, Pad, ReadChars
<1>3. PICK q \in Nat : n = Len8(n) + (4 * q)
  BY CutLengths, Zenon
<1>4. Len8(n) \in Nat
  BY CutLengths
<1>5. PICK b \in Nat : b = 3 + (2 + Len8(n))
  BY <1>4, ShortLengths
<1>6. b = 5 + Len8(n)
  BY <1>4, <1>5, ShortLengths
<1>7. PICK z \in Int, size \in Nat : z = q /\ size = 5 + n
  OBVIOUS
<1>8. size = b + (4 * z)
  BY <1>3, <1>4, <1>6, <1>7
<1>9. (b + ((4 - ((5 + n) % 4)) % 4)) % 4 = 0
  BY <1>7, <1>8, PadIs, Zenon
<1> QED BY <1>1, <1>2, <1>5, <1>9, Zenon DEF Whole

LEMMA TwoStringsFrame ==
  ASSUME NEW cmd, NEW n \in Nat, NEW m \in Nat
  PROVE  Whole(SendCmd(cmd, 2) ++ SendParam(n) ++ LastParam(m) ++ Pad(6 + n + m),
               cmd)
<1>1. 2 \in Nat \ {0} /\ 0 + 1 + 1 + 0 = 2
  OBVIOUS
<1>2. Is(SendCmd(cmd, 2) ++ SendParam(n) ++ LastParam(m) ++ Pad(6 + n + m),
         cmd, 2, 3 + (1 + Len8(n)) + (2 + Len8(m)) + ((4 - ((6 + n + m) % 4)) % 4),
         0 + 1 + 1 + 0, 1)
  BY <1>1, Starts, Adds, Zenon DEF LastParam, Pad, ReadChars, SendParam
<1>3. PICK q \in Nat : n = Len8(n) + (4 * q)
  BY CutLengths, Zenon
<1>r. PICK r \in Nat : m = Len8(m) + (4 * r)
  BY CutLengths, Zenon
<1>4. Len8(n) \in Nat /\ Len8(m) \in Nat
  BY CutLengths
<1>5. PICK b \in Nat : b = 3 + (1 + Len8(n)) + (2 + Len8(m))
  BY <1>4, ShortLengths
<1>6. b = 6 + Len8(n) + Len8(m)
  BY <1>4, <1>5, ShortLengths
<1>7. PICK z \in Int, size \in Nat : z = q + r /\ size = 6 + n + m
  OBVIOUS
<1>8. size = b + (4 * z)
  BY <1>3, <1>r, <1>4, <1>6, <1>7
<1>9. (b + ((4 - ((6 + n + m) % 4)) % 4)) % 4 = 0
  BY <1>7, <1>8, PadIs, Zenon
<1> QED BY <1>1, <1>2, <1>5, <1>9, Zenon DEF Whole

LEMMA KeyFrame ==
  ASSUME NEW cmd, NEW n \in Nat, NEW m \in Nat
  PROVE  Whole(SendCmd(cmd, 3) ++ SendParam(n) ++ SendParam(1) ++ LastParam(m)
               ++ Pad(8 + n + m),
               cmd)
<1>1. 3 \in Nat \ {0} /\ 0 + 1 + 1 + 1 + 0 = 3
  OBVIOUS
<1>2. Is(SendCmd(cmd, 3) ++ SendParam(n) ++ SendParam(1) ++ LastParam(m)
         ++ Pad(8 + n + m),
         cmd, 3, 3 + (1 + Len8(n)) + (1 + Len8(1)) + (2 + Len8(m))
         + ((4 - ((8 + n + m) % 4)) % 4),
         0 + 1 + 1 + 1 + 0, 1)
  BY <1>1, Starts, Adds, Zenon DEF LastParam, Pad, ReadChars, SendParam
<1>3. PICK q \in Nat : n = Len8(n) + (4 * q)
  BY CutLengths, Zenon
<1>r. PICK r \in Nat : m = Len8(m) + (4 * r)
  BY CutLengths, Zenon
<1>4. Len8(n) \in Nat /\ Len8(m) \in Nat
  BY CutLengths
<1>5. PICK b \in Nat : b = 3 + (1 + Len8(n)) + (1 + Len8(1)) + (2 + Len8(m))
  BY <1>4, ShortLengths
<1>6. b = 8 + Len8(n) + Len8(m)
  BY <1>4, <1>5, ShortLengths
<1>7. PICK z \in Int, size \in Nat : z = q + r /\ size = 8 + n + m
  OBVIOUS
<1>8. size = b + (4 * z)
  BY <1>3, <1>r, <1>4, <1>6, <1>7
<1>9. (b + ((4 - ((8 + n + m) % 4)) % 4)) % 4 = 0
  BY <1>7, <1>8, PadIs, Zenon
<1> QED BY <1>1, <1>2, <1>5, <1>9, Zenon DEF Whole

LEMMA ConfigFrame ==
  ASSUME NEW cmd
  PROVE  Whole(SendCmd(cmd, 4) ++ SendParam(1) ++ SendParam(4) ++ SendParam(4)
               ++ LastParam(4) ++ ReadChars(3),
               cmd)
<1>1. 4 \in Nat \ {0} /\ 0 + 1 + 1 + 1 + 1 + 0 = 4
  OBVIOUS
<1>2. Is(SendCmd(cmd, 4) ++ SendParam(1) ++ SendParam(4) ++ SendParam(4)
         ++ LastParam(4) ++ ReadChars(3),
         cmd, 4, 3 + (1 + Len8(1)) + (1 + Len8(4)) + (1 + Len8(4)) + (2 + Len8(4)) + 3,
         0 + 1 + 1 + 1 + 1 + 0, 1)
  BY <1>1, Starts, Adds, Zenon DEF LastParam, ReadChars, SendParam
<1>3. (3 + (1 + Len8(1)) + (1 + Len8(4)) + (1 + Len8(4)) + (2 + Len8(4)) + 3) % 4 = 0
  BY DEF Len8, Len16
<1> QED BY <1>1, <1>2, <1>3, Zenon DEF Whole

LEMMA DnsFrame ==
  ASSUME NEW cmd
  PROVE  Whole(SendCmd(cmd, 3) ++ SendParam(1) ++ SendParam(4) ++ LastParam(4),
               cmd)
<1>1. 3 \in Nat \ {0} /\ 0 + 1 + 1 + 1 = 3
  OBVIOUS
<1>2. Is(SendCmd(cmd, 3) ++ SendParam(1) ++ SendParam(4) ++ LastParam(4),
         cmd, 3, 3 + (1 + Len8(1)) + (1 + Len8(4)) + (2 + Len8(4)),
         0 + 1 + 1 + 1, 1)
  BY <1>1, Starts, Adds, Zenon DEF LastParam, SendParam
<1>3. (3 + (1 + Len8(1)) + (1 + Len8(4)) + (2 + Len8(4))) % 4 = 0
  BY DEF Len8, Len16
<1> QED BY <1>1, <1>2, <1>3, Zenon DEF Whole

LEMMA ApNetFrame ==
  ASSUME NEW cmd, NEW n \in Nat
  PROVE  Whole(SendCmd(cmd, 2) ++ SendParam(n) ++ LastParam(1) ++ Pad(3 + n),
               cmd)
<1>1. 2 \in Nat \ {0} /\ 0 + 1 + 1 + 0 = 2
  OBVIOUS
<1>2. Is(SendCmd(cmd, 2) ++ SendParam(n) ++ LastParam(1) ++ Pad(3 + n),
         cmd, 2, 3 + (1 + Len8(n)) + (2 + Len8(1)) + ((4 - ((3 + n) % 4)) % 4),
         0 + 1 + 1 + 0, 1)
  BY <1>1, Starts, Adds, Zenon DEF LastParam, Pad, ReadChars, SendParam
<1>3. PICK q \in Nat : n = Len8(n) + (4 * q)
  BY CutLengths, Zenon
<1>4. Len8(n) \in Nat
  BY CutLengths
<1>5. PICK b \in Nat : b = 3 + (1 + Len8(n)) + (2 + Len8(1))
  BY <1>4, ShortLengths
<1>6. b = 7 + Len8(n)
  BY <1>4, <1>5, ShortLengths
<1>7. PICK z \in Int, size \in Nat : z = q - 1 /\ size = 3 + n
  OBVIOUS
<1>8. size = b + (4 * z)
  BY <1>3, <1>4, <1>6, <1>7
<1>9. (b + ((4 - ((3 + n) % 4)) % 4)) % 4 = 0
  BY <1>7, <1>8, PadIs, Zenon
<1> QED BY <1>1, <1>2, <1>5, <1>9, Zenon DEF Whole

LEMMA ApPassFrame ==
  ASSUME NEW cmd, NEW n \in Nat, NEW m \in Nat
  PROVE  Whole(SendCmd(cmd, 3) ++ SendParam(n) ++ SendParam(m) ++ LastParam(1)
               ++ Pad(4 + n + m),
               cmd)
<1>1. 3 \in Nat \ {0} /\ 0 + 1 + 1 + 1 + 0 = 3
  OBVIOUS
<1>2. Is(SendCmd(cmd, 3) ++ SendParam(n) ++ SendParam(m) ++ LastParam(1)
         ++ Pad(4 + n + m),
         cmd, 3, 3 + (1 + Len8(n)) + (1 + Len8(m)) + (2 + Len8(1))
         + ((4 - ((4 + n + m) % 4)) % 4),
         0 + 1 + 1 + 1 + 0, 1)
  BY <1>1, Starts, Adds, Zenon DEF LastParam, Pad, ReadChars, SendParam
<1>3. PICK q \in Nat : n = Len8(n) + (4 * q)
  BY CutLengths, Zenon
<1>r. PICK r \in Nat : m = Len8(m) + (4 * r)
  BY CutLengths, Zenon
<1>4. Len8(n) \in Nat /\ Len8(m) \in Nat
  BY CutLengths
<1>5. PICK b \in Nat : b = 3 + (1 + Len8(n)) + (1 + Len8(m)) + (2 + Len8(1))
  BY <1>4, ShortLengths
<1>6. b = 8 + Len8(n) + Len8(m)
  BY <1>4, <1>5, ShortLengths
<1>7. PICK z \in Int, size \in Nat : z = q + r - 1 /\ size = 4 + n + m
  OBVIOUS
<1>8. size = b + (4 * z)
  BY <1>3, <1>r, <1>4, <1>6, <1>7
<1>9. (b + ((4 - ((4 + n + m) % 4)) % 4)) % 4 = 0
  BY <1>7, <1>8, PadIs, Zenon
<1> QED BY <1>1, <1>2, <1>5, <1>9, Zenon DEF Whole

LEMMA PingFrame ==
  ASSUME NEW cmd
  PROVE  Whole(SendCmd(cmd, 2) ++ SendParam(4) ++ LastParam(1) ++ ReadChars(1),
               cmd)
<1>1. 2 \in Nat \ {0} /\ 0 + 1 + 1 + 0 = 2
  OBVIOUS
<1>2. Is(SendCmd(cmd, 2) ++ SendParam(4) ++ LastParam(1) ++ ReadChars(1),
         cmd, 2, 3 + (1 + Len8(4)) + (2 + Len8(1)) + 1,
         0 + 1 + 1 + 0, 1)
  BY <1>1, Starts, Adds, Zenon DEF LastParam, ReadChars, SendParam
<1>3. (3 + (1 + Len8(4)) + (2 + Len8(1)) + 1) % 4 = 0
  BY DEF Len8, Len16
<1> QED BY <1>1, <1>2, <1>3, Zenon DEF Whole

LEMMA FileFrame ==
  ASSUME NEW cmd, NEW n \in Nat
  PROVE  Whole(SendCmd(cmd, 3) ++ SendParam(4) ++ SendParam(4) ++ LastParam(n)
               ++ Pad(4 + 3 + 8 + n),
               cmd)
<1>1. 3 \in Nat \ {0} /\ 0 + 1 + 1 + 1 + 0 = 3
  OBVIOUS
<1>2. Is(SendCmd(cmd, 3) ++ SendParam(4) ++ SendParam(4) ++ LastParam(n)
         ++ Pad(4 + 3 + 8 + n),
         cmd, 3, 3 + (1 + Len8(4)) + (1 + Len8(4)) + (2 + Len8(n))
         + ((4 - ((4 + 3 + 8 + n) % 4)) % 4),
         0 + 1 + 1 + 1 + 0, 1)
  BY <1>1, Starts, Adds, Zenon DEF LastParam, Pad, ReadChars, SendParam
<1>3. PICK q \in Nat : n = Len8(n) + (4 * q)
  BY CutLengths, Zenon
<1>4. Len8(n) \in Nat
  BY CutLengths
<1>5. PICK b \in Nat : b = 3 + (1 + Len8(4)) + (1 + Len8(4)) + (2 + Len8(n))
  BY <1>4, ShortLengths
<1>6. b = 15 + Len8(n)
  BY <1>4, <1>5, ShortLengths
<1>7. PICK z \in Int, size \in Nat : z = q /\ size = 4 + 3 + 8 + n
  OBVIOUS
<1>8. size = b + (4 * z)
  BY <1>3, <1>4, <1>6, <1>7
<1>9. (b + ((4 - ((4 + 3 + 8 + n) % 4)) % 4)) % 4 = 0
  BY <1>7, <1>8, PadIs, Zenon
<1> QED BY <1>1, <1>2, <1>5, <1>9, Zenon DEF Whole

LEMMA ServerFrame ==
  ASSUME NEW cmd
  PROVE  Whole(SendCmd(cmd, 3) ++ SendParam(2) ++ SendParam(1) ++ LastParam(1)
               ++ ReadChars(1),
               cmd)
<1>1. 3 \in Nat \ {0} /\ 0 + 1 + 1 + 1 + 0 = 3
  OBVIOUS
<1>2. Is(SendCmd(cmd, 3) ++ SendParam(2) ++ SendParam(1) ++ LastParam(1)
         ++ ReadChars(1),
         cmd, 3, 3 + (1 + Len8(2)) + (1 + Len8(1)) + (2 + Len8(1)) + 1,
         0 + 1 + 1 + 1 + 0, 1)
  BY <1>1, Starts, Adds, Zenon DEF LastParam, ReadChars, SendParam
<1>3. (3 + (1 + Len8(2)) + (1 + Len8(1)) + (2 + Len8(1)) + 1) % 4 = 0
  BY DEF Len8, Len16
<1> QED BY <1>1, <1>2, <1>3, Zenon DEF Whole

LEMMA AddressFrame ==
  ASSUME NEW cmd
  PROVE  Whole(SendCmd(cmd, 4) ++ SendParam(4) ++ SendParam(2) ++ SendParam(1)
               ++ LastParam(1),
               cmd)
<1>1. 4 \in Nat \ {0} /\ 0 + 1 + 1 + 1 + 1 = 4
  OBVIOUS
<1>2. Is(SendCmd(cmd, 4) ++ SendParam(4) ++ SendParam(2) ++ SendParam(1)
         ++ LastParam(1),
         cmd, 4, 3 + (1 + Len8(4)) + (1 + Len8(2)) + (1 + Len8(1)) + (2 + Len8(1)),
         0 + 1 + 1 + 1 + 1, 1)
  BY <1>1, Starts, Adds, Zenon DEF LastParam, SendParam
<1>3. (3 + (1 + Len8(4)) + (1 + Len8(2)) + (1 + Len8(1)) + (2 + Len8(1))) % 4 = 0
  BY DEF Len8, Len16
<1> QED BY <1>1, <1>2, <1>3, Zenon DEF Whole

LEMMA HostFrame ==
  ASSUME NEW cmd, NEW n \in Nat
  PROVE  Whole(SendCmd(cmd, 5) ++ SendParam(n) ++ SendParam(4) ++ SendParam(2)
               ++ SendParam(1) ++ LastParam(1) ++ Pad(17 + n),
               cmd)
<1>1. 5 \in Nat \ {0} /\ 0 + 1 + 1 + 1 + 1 + 1 + 0 = 5
  OBVIOUS
<1>2. Is(SendCmd(cmd, 5) ++ SendParam(n) ++ SendParam(4) ++ SendParam(2)
         ++ SendParam(1) ++ LastParam(1) ++ Pad(17 + n),
         cmd, 5, 3 + (1 + Len8(n)) + (1 + Len8(4)) + (1 + Len8(2)) + (1 + Len8(1))
         + (2 + Len8(1)) + ((4 - ((17 + n) % 4)) % 4),
         0 + 1 + 1 + 1 + 1 + 1 + 0, 1)
  BY <1>1, Starts, Adds, Zenon DEF LastParam, Pad, ReadChars, SendParam
<1>3. PICK q \in Nat : n = Len8(n) + (4 * q)
  BY CutLengths, Zenon
<1>4. Len8(n) \in Nat
  BY CutLengths
<1>5. PICK b \in Nat : b = 3 + (1 + Len8(n)) + (1 + Len8(4)) + (1 + Len8(2)) + (1 + Len8(1))
      + (2 + Len8(1))
  BY <1>4, ShortLengths
<1>6. b = 17 + Len8(n)
  BY <1>4, <1>5, ShortLengths
<1>7. PICK z \in Int, size \in Nat : z = q /\ size = 17 + n
  OBVIOUS
<1>8. size = b + (4 * z)
  BY <1>3, <1>4, <1>6, <1>7
<1>9. (b + ((4 - ((17 + n) % 4)) % 4)) % 4 = 0
  BY <1>7, <1>8, PadIs, Zenon
<1> QED BY <1>1, <1>2, <1>5, <1>9, Zenon DEF Whole

LEMMA GetDataFrame ==
  ASSUME NEW cmd
  PROVE  Whole(SendCmd(cmd, 2) ++ SendParam(1) ++ LastParam(2) ++ ReadChars(3),
               cmd)
<1>1. 2 \in Nat \ {0} /\ 0 + 1 + 1 + 0 = 2
  OBVIOUS
<1>2. Is(SendCmd(cmd, 2) ++ SendParam(1) ++ LastParam(2) ++ ReadChars(3),
         cmd, 2, 3 + (1 + Len8(1)) + (2 + Len8(2)) + 3,
         0 + 1 + 1 + 0, 1)
  BY <1>1, Starts, Adds, Zenon DEF LastParam, ReadChars, SendParam
<1>3. (3 + (1 + Len8(1)) + (2 + Len8(2)) + 3) % 4 = 0
  BY DEF Len8, Len16
<1> QED BY <1>1, <1>2, <1>3, Zenon DEF Whole

LEMMA GetBufferFrame ==
  ASSUME NEW cmd
  PROVE  Whole(SendCmd(cmd, 2) ++ SendBuffer(1) ++ LastBuffer(2) ++ ReadChars(1),
               cmd)
<1>1. 2 \in Nat \ {0} /\ 0 + 1 + 1 + 0 = 2
  OBVIOUS
<1>2. Is(SendCmd(cmd, 2) ++ SendBuffer(1) ++ LastBuffer(2) ++ ReadChars(1),
         cmd, 2, 3 + (2 + Len16(1)) + (3 + Len16(2)) + 1,
         0 + 1 + 1 + 0, 1)
  BY <1>1, Starts, Adds, Zenon DEF LastBuffer, ReadChars, SendBuffer
<1>3. (3 + (2 + Len16(1)) + (3 + Len16(2)) + 1) % 4 = 0
  BY DEF Len8, Len16
<1> QED BY <1>1, <1>2, <1>3, Zenon DEF Whole

LEMMA SendBufferFrame ==
  ASSUME NEW cmd, NEW n \in Nat
  PROVE  Whole(SendCmd(cmd, 2) ++ SendBuffer(1) ++ LastBuffer(n) ++ Pad(9 + n),
               cmd)
<1>1. 2 \in Nat \ {0} /\ 0 + 1 + 1 + 0 = 2
  OBVIOUS
<1>2. Is(SendCmd(cmd, 2) ++ SendBuffer(1) ++ LastBuffer(n) ++ Pad(9 + n),
         cmd, 2, 3 + (2 + Len16(1)) + (3 + Len16(n)) + ((4 - ((9 + n) % 4)) % 4),
         0 + 1 + 1 + 0, 1)
  BY <1>1, Starts, Adds, Zenon DEF LastBuffer, Pad, ReadChars, SendBuffer
<1>3. PICK q \in Nat : n = Len16(n) + (4 * q)
  BY CutLengths, Zenon
<1>4. Len16(n) \in Nat
  BY CutLengths
<1>5. PICK b \in Nat : b = 3 + (2 + Len16(1)) + (3 + Len16(n))
  BY <1>4, ShortLengths
<1>6. b = 9 + Len16(n)
  BY <1>4, <1>5, ShortLengths
<1>7. PICK z \in Int, size \in Nat : z = q /\ size = 9 + n
  OBVIOUS
<1>8. size = b + (4 * z)
  BY <1>3, <1>4, <1>6, <1>7
<1>9. (b + ((4 - ((9 + n) % 4)) % 4)) % 4 = 0
  BY <1>7, <1>8, PadIs, Zenon
<1> QED BY <1>1, <1>2, <1>5, <1>9, Zenon DEF Whole

LEMMA TwoBytesFrame ==
  ASSUME NEW cmd, cmd \in Unpadded
  PROVE  Whole(SendCmd(cmd, 2) ++ SendParam(1) ++ LastParam(1) ++ ReadChars(1),
               cmd)
<1>1. 2 \in Nat \ {0} /\ 0 + 1 + 1 + 0 = 2
  OBVIOUS
<1>2. Is(SendCmd(cmd, 2) ++ SendParam(1) ++ LastParam(1) ++ ReadChars(1),
         cmd, 2, 3 + (1 + Len8(1)) + (2 + Len8(1)) + 1,
         0 + 1 + 1 + 0, 1)
  BY <1>1, Starts, Adds, Zenon DEF LastParam, ReadChars, SendParam
<1> QED BY <1>1, <1>2, Zenon DEF Whole

LEMMA EnterpriseFrame ==
  ASSUME NEW cmd, NEW n \in Nat, NEW u \in Nat, NEW p \in Nat, NEW i \in Nat, NEW k \in Nat,
         cmd \in Unpadded
  PROVE  Whole(SendCmd(cmd, 6) ++ SendBuffer(1) ++ SendBuffer(n) ++ SendBuffer(u)
               ++ SendBuffer(p) ++ SendBuffer(i) ++ LastBuffer(k)
               ++ Pad(16 + n + u + p + i + k),
               cmd)
<1>1. 6 \in Nat \ {0} /\ 0 + 1 + 1 + 1 + 1 + 1 + 1 + 0 = 6
  OBVIOUS
<1>2. Is(SendCmd(cmd, 6) ++ SendBuffer(1) ++ SendBuffer(n) ++ SendBuffer(u)
         ++ SendBuffer(p) ++ SendBuffer(i) ++ LastBuffer(k)
         ++ Pad(16 + n + u + p + i + k),
         cmd, 6, 3 + (2 + Len16(1)) + (2 + Len16(n)) + (2 + Len16(u)) + (2 + Len16(p))
         + (2 + Len16(i)) + (3 + Len16(k))
         + ((4 - ((16 + n + u + p + i + k) % 4)) % 4),
         0 + 1 + 1 + 1 + 1 + 1 + 1 + 0, 1)
  BY <1>1, Starts, Adds, ZenonT(30) DEF LastBuffer, Pad, ReadChars, SendBuffer
<1> QED BY <1>1, <1>2, Zenon DEF Whole

LEMMA WriteFrame ==
  ASSUME NEW cmd, NEW n \in Nat, NEW k \in Nat, cmd \in Unpadded
  PROVE  Whole(SendCmd(cmd, 4) ++ SendParam(4) ++ SendParam(4) ++ SendParam(n)
               ++ LastParamNoLen(k) ++ Pad(4 + 4 + 8 + n),
               cmd)
<1>1. 4 \in Nat \ {0} /\ 0 + 1 + 1 + 1 + 1 + 0 = 4
  OBVIOUS
<1>2. Is(SendCmd(cmd, 4) ++ SendParam(4) ++ SendParam(4) ++ SendParam(n)
         ++ LastParamNoLen(k) ++ Pad(4 + 4 + 8 + n),
         cmd, 4, 3 + (1 + Len8(4)) + (1 + Len8(4)) + (1 + Len8(n)) + (2 + k)
         + ((4 - ((4 + 4 + 8 + n) % 4)) % 4),
         0 + 1 + 1 + 1 + 1 + 0, 1)
  BY <1>1, Starts, Adds, Zenon DEF LastParamNoLen, Pad, ReadChars, SendParam
<1> QED BY <1>1, <1>2, Zenon DEF Whole

(***************************************************************************)
(* Calls.                                                                  *)
(***************************************************************************)
LEMMA CodesAre ==
  /\ Code.SET_NET_CMD = 16 /\ Code.SET_PASSPHRASE_CMD = 17 /\ Code.SET_KEY_CMD = 18
  /\ Code.SET_IP_CONFIG_CMD = 20 /\ Code.SET_DNS_CONFIG_CMD = 21
  /\ Code.SET_HOSTNAME_CMD = 22 /\ Code.SET_POWER_MODE_CMD = 23
  /\ Code.SET_AP_NET_CMD = 24 /\ Code.SET_AP_PASSPHRASE_CMD = 25
  /\ Code.SET_DEBUG_CMD = 26 /\ Code.GET_TEMPERATURE_CMD = 27
  /\ Code.GET_REASON_CODE_CMD = 31 /\ Code.GET_CONN_STATUS_CMD = 32
  /\ Code.GET_IPADDR_CMD = 33 /\ Code.GET_MACADDR_CMD = 34
  /\ Code.GET_CURR_SSID_CMD = 35 /\ Code.GET_CURR_BSSID_CMD = 36
  /\ Code.GET_CURR_RSSI_CMD = 37 /\ Code.GET_CURR_ENCT_CMD = 38
  /\ Code.SCAN_NETWORKS = 39 /\ Code.START_SERVER_TCP_CMD = 40
  /\ Code.GET_STATE_TCP_CMD = 41 /\ Code.DATA_SENT_TCP_CMD = 42
  /\ Code.AVAIL_DATA_TCP_CMD = 43 /\ Code.GET_DATA_TCP_CMD = 44
  /\ Code.START_CLIENT_TCP_CMD = 45 /\ Code.STOP_CLIENT_TCP_CMD = 46
  /\ Code.GET_CLIENT_STATE_TCP_CMD = 47 /\ Code.DISCONNECT_CMD = 48
  /\ Code.GET_IDX_RSSI_CMD = 50 /\ Code.GET_IDX_ENCT_CMD = 51
  /\ Code.REQ_HOST_BY_NAME_CMD = 52 /\ Code.GET_HOST_BY_NAME_CMD = 53
  /\ Code.START_SCAN_NETWORKS = 54 /\ Code.GET_FW_VERSION_CMD = 55
  /\ Code.SEND_DATA_UDP_CMD = 57 /\ Code.GET_REMOTE_DATA_CMD = 58
  /\ Code.GET_TIME_CMD = 59 /\ Code.GET_IDX_BSSID = 60 /\ Code.GET_IDX_CHANNEL_CMD = 61
  /\ Code.PING_CMD = 62 /\ Code.GET_SOCKET_CMD = 63 /\ Code.SET_ENT_CMD = 64
  /\ Code.SEND_DATA_TCP_CMD = 68 /\ Code.GET_DATABUF_TCP_CMD = 69
  /\ Code.INSERT_DATABUF_CMD = 70 /\ Code.SET_PIN_MODE = 80
  /\ Code.SET_DIGITAL_WRITE = 81 /\ Code.SET_ANALOG_WRITE = 82
  /\ Code.GET_DIGITAL_READ = 83 /\ Code.GET_ANALOG_READ = 84 /\ Code.WRITE_FILE = 96
  /\ Code.READ_FILE = 97 /\ Code.DELETE_FILE = 98 /\ Code.EXISTS_FILE = 99
  /\ Code.DOWNLOAD_FILE = 100 /\ Code.APPLY_OTA_COMMAND = 101 /\ Code.RENAME_FILE = 102
  /\ Code.DOWNLOAD_OTA = 103
BY DEF Code

\* The two properties, of any call: its frame, and when it is a success.
FrameIsWhole(f) ==
  f.cmd # 0 => /\ f.params = f.nparams /\ f.ends = 1 /\ f.inside
               /\ f.bytes % 4 = 0 \/ f.cmd \in Unpadded
Succeeds(c) ==
  \/ c.frame.cmd \in Verdicts /\ c.value # WL_FAILURE
  \/ c.frame.cmd \in YesOrNo /\ c.value = <<1>>
  \/ c.frame.cmd = Code.SEND_DATA_TCP_CMD /\ c.value # <<0>>
  \/ c.frame.cmd = Code.GET_SOCKET_CMD /\ c.value # NO_SOCKET_AVAIL
  \/ c.frame.cmd \in {Code.GET_HOST_BY_NAME_CMD, Code.GET_DATA_TCP_CMD} /\ c.value # <<>>
  \/ c.frame.cmd = Code.PING_CMD /\ c.value # WL_PING_ERROR
  \/ c.frame.cmd \in Counts /\ c.value # <<0>>
  \/ c.frame.cmd = Code.GET_CONN_STATUS_CMD /\ c.value # WL_NO_MODULE
Others == {Code.SEND_DATA_TCP_CMD, Code.GET_SOCKET_CMD, Code.GET_HOST_BY_NAME_CMD,
           Code.GET_DATA_TCP_CMD, Code.PING_CMD, Code.GET_CONN_STATUS_CMD} \cup Counts
Telling == Verdicts \cup YesOrNo \cup Others
Good(c, s) == FrameIsWhole(c.frame) /\ (~ IsReplyTo(c.frame.cmd, s) => ~ Succeeds(c))

LEMMA WholeIs ==
  ASSUME NEW f, NEW cmd, Whole(f, cmd)
  PROVE  f.cmd = cmd /\ FrameIsWhole(f)
<1>1. PICK n, b : Is(f, cmd, n, b, n, 1) /\ (b % 4 = 0 \/ cmd \in Unpadded)
  BY Zenon DEF Whole
<1> QED BY <1>1, Zenon DEF Is, FrameIsWhole

\* The code of a call that is no question of success.
Quiet == {Code.SET_IP_CONFIG_CMD, Code.SET_DNS_CONFIG_CMD, Code.SET_HOSTNAME_CMD,
           Code.SET_POWER_MODE_CMD, Code.SET_DEBUG_CMD, Code.GET_TEMPERATURE_CMD,
           Code.GET_REASON_CODE_CMD, Code.GET_IPADDR_CMD,
           Code.GET_MACADDR_CMD, Code.GET_CURR_SSID_CMD, Code.GET_CURR_BSSID_CMD,
           Code.GET_CURR_RSSI_CMD, Code.GET_CURR_ENCT_CMD, Code.SCAN_NETWORKS,
           Code.START_SERVER_TCP_CMD, Code.START_CLIENT_TCP_CMD, Code.STOP_CLIENT_TCP_CMD,
           Code.GET_IDX_RSSI_CMD, Code.GET_IDX_ENCT_CMD,
           Code.GET_FW_VERSION_CMD, Code.GET_REMOTE_DATA_CMD, Code.GET_TIME_CMD,
           Code.GET_IDX_BSSID, Code.GET_IDX_CHANNEL_CMD, Code.GET_DATABUF_TCP_CMD,
           Code.SET_PIN_MODE, Code.SET_DIGITAL_WRITE, Code.SET_ANALOG_WRITE,
           Code.GET_ANALOG_READ, Code.WRITE_FILE, Code.READ_FILE, Code.DELETE_FILE,
           Code.EXISTS_FILE, Code.APPLY_OTA_COMMAND}
LEMMA QuietIs == \A cmd \in Quiet : cmd \notin Telling
BY CodesAre DEF Quiet, Telling, Verdicts, YesOrNo, Others, Counts

LEMMA NoCallIsGood ==
  ASSUME NEW s, NEW v
  PROVE  Good(NoCall(v), s)
<1>1. NoCall(v).frame.cmd = 0
  BY Zenon DEF NoCall, Call, ReadChars, Piece
<1>2. 0 \notin Telling
  BY CodesAre DEF Telling, Verdicts, YesOrNo, Others, Counts
<1> QED BY <1>1, <1>2, Zenon DEF Good, FrameIsWhole, Succeeds, Telling, Others

LEMMA QuietIsGood ==
  ASSUME NEW c, NEW cmd \in Quiet, NEW s, Whole(c.frame, cmd)
  PROVE  Good(c, s)
<1>1. c.frame.cmd = cmd /\ FrameIsWhole(c.frame)
  BY WholeIs, Zenon
<1>2. cmd \notin Telling
  BY QuietIs
<1> QED BY <1>1, <1>2, Zenon DEF Good, Succeeds, Telling, Others

LEMMA KindsDiffer ==
  /\ \A cmd \in Verdicts : cmd \notin YesOrNo /\ cmd \notin Others
  /\ \A cmd \in YesOrNo : cmd \notin Verdicts /\ cmd \notin Others
  /\ \A cmd \in Others : cmd \notin Verdicts /\ cmd \notin YesOrNo
<1>1. \A cmd \in Verdicts : cmd \notin YesOrNo /\ cmd \notin Others
  BY CodesAre DEF Verdicts, YesOrNo, Others, Counts
<1>2. \A cmd \in YesOrNo : cmd \notin Others
  BY CodesAre DEF Verdicts, YesOrNo, Others, Counts
<1> QED BY <1>1, <1>2, Zenon

LEMMA OthersDiffer ==
  /\ Code.SEND_DATA_TCP_CMD \notin {Code.GET_SOCKET_CMD, Code.GET_HOST_BY_NAME_CMD,
                                    Code.GET_DATA_TCP_CMD, Code.PING_CMD,
                                    Code.GET_CONN_STATUS_CMD}
  /\ Code.GET_SOCKET_CMD \notin {Code.GET_HOST_BY_NAME_CMD, Code.GET_DATA_TCP_CMD,
                                 Code.PING_CMD, Code.GET_CONN_STATUS_CMD}
  /\ Code.PING_CMD \notin {Code.GET_HOST_BY_NAME_CMD, Code.GET_DATA_TCP_CMD,
                           Code.GET_CONN_STATUS_CMD}
  /\ Code.GET_CONN_STATUS_CMD \notin {Code.GET_HOST_BY_NAME_CMD, Code.GET_DATA_TCP_CMD}
  /\ \A cmd \in Counts :
       cmd \notin {Code.SEND_DATA_TCP_CMD, Code.GET_SOCKET_CMD, Code.GET_HOST_BY_NAME_CMD,
                  Code.GET_DATA_TCP_CMD, Code.PING_CMD, Code.GET_CONN_STATUS_CMD}
BY CodesAre DEF Counts

\* What is no success, for each kind of call.
LEMMA VerdictIsGood ==
  ASSUME NEW c, NEW cmd \in Verdicts, NEW s, Whole(c.frame, cmd),
         ~ IsReplyTo(cmd, s) => c.value = WL_FAILURE
  PROVE  Good(c, s)
<1>1. c.frame.cmd = cmd /\ FrameIsWhole(c.frame)
  BY WholeIs, Zenon
<1>2. ASSUME c.value = WL_FAILURE PROVE ~ Succeeds(c)
  BY <1>1, <1>2, KindsDiffer, Zenon DEF Succeeds, Others
<1> QED BY <1>1, <1>2, Zenon DEF Good

LEMMA YesOrNoIsGood ==
  ASSUME NEW c, NEW cmd \in YesOrNo, NEW s, Whole(c.frame, cmd),
         ~ IsReplyTo(cmd, s) => c.value = << 0 >>
  PROVE  Good(c, s)
<1>1. c.frame.cmd = cmd /\ FrameIsWhole(c.frame)
  BY WholeIs, Zenon
<1>2. ASSUME c.value = << 0 >> PROVE ~ Succeeds(c)
  <2>1. <<0>> # <<1>>
    OBVIOUS
  <2> QED BY <1>1, <1>2, <2>1, KindsDiffer, Zenon DEF Succeeds, Others
<1> QED BY <1>1, <1>2, Zenon DEF Good

\* The value with which each of the others fails.
Failing(cmd, v) ==
  \/ cmd = Code.SEND_DATA_TCP_CMD /\ v = <<0>>
  \/ cmd = Code.GET_SOCKET_CMD /\ v = NO_SOCKET_AVAIL
  \/ cmd \in {Code.GET_HOST_BY_NAME_CMD, Code.GET_DATA_TCP_CMD} /\ v = <<>>
  \/ cmd = Code.PING_CMD /\ v = WL_PING_ERROR
  \/ cmd \in Counts /\ v = <<0>>
  \/ cmd = Code.GET_CONN_STATUS_CMD /\ v = WL_NO_MODULE
LEMMA OtherIsGood ==
  ASSUME NEW c, NEW cmd, NEW v, NEW s, Whole(c.frame, cmd), Failing(cmd, v),
         ~ IsReplyTo(cmd, s) => c.value = v
  PROVE  Good(c, s)
<1>1. c.frame.cmd = cmd /\ FrameIsWhole(c.frame)
  BY WholeIs, Zenon
<1>2. cmd \in Others
  BY Zenon DEF Failing, Others
<1>3. ASSUME c.value = v PROVE ~ Succeeds(c)
  BY <1>1, <1>2, <1>3, KindsDiffer, OthersDiffer, Zenon DEF Succeeds, Failing
<1> QED BY <1>1, <1>3, Zenon DEF Good

\* What the readers and the helpers make of no reply.
LEMMA Unanswered ==
  ASSUME NEW cmd, NEW s, ~ IsReplyTo(cmd, s)
  PROVE  /\ \A n : waitResponseCmd(cmd, n, s) = Refused
         /\ waitResponseData8(cmd, s) = Refused
         /\ ~ Refused.ok /\ Refused.data = <<>>
         /\ \A old : Buffer(Refused, old) = old
         /\ OrFailure(Refused) = WL_FAILURE
<1>1. ~ Refused.ok /\ Refused.data = <<>>
  BY Zenon DEF Refused
<1>2. /\ \A n : waitResponseCmd(cmd, n, s) = Refused
      /\ waitResponseData8(cmd, s) = Refused
  BY Zenon DEF waitResponseCmd, waitResponseData8
<1> QED BY <1>1, <1>2, Zenon DEF Buffer, OrFailure

LEMMA CallIs ==
  ASSUME NEW frame, NEW r, NEW value
  PROVE  Call(frame, r, value).frame = frame /\ Call(frame, r, value).value = value
BY Zenon DEF Call

LEMMA HelpersAre ==
  ASSUME NEW cmd, NEW s, NEW old
  PROVE  /\ Whole(Plain(cmd, old, s).frame, cmd) /\ Whole(Asking(cmd, old, s).frame, cmd)
         /\ ~ IsReplyTo(cmd, s) => Plain(cmd, old, s).value = old /\ Asking(cmd, old, s).value = old
<1>1. Whole(SendCmd(cmd, 0), cmd)
  <2>1. 4 % 4 = 0
    OBVIOUS
  <2> QED BY <2>1, Starts, Zenon DEF Whole
<1>2. Whole(OneByte(cmd), cmd)
  BY OneByteFrame, Zenon DEF OneByte
<1>3. PICK r : r = waitResponseCmd(cmd, 1, s)
  OBVIOUS
<1>4. Plain(cmd, old, s).frame = SendCmd(cmd, 0) /\ Plain(cmd, old, s).value = Buffer(r, old)
  BY <1>3, Zenon DEF Plain, Call
<1>5. Asking(cmd, old, s).frame = OneByte(cmd) /\ Asking(cmd, old, s).value = Buffer(r, old)
  BY <1>3, Zenon DEF Asking, Call
<1>6. ~ IsReplyTo(cmd, s) => Buffer(r, old) = old
  BY <1>3, Unanswered, Zenon
<1> QED BY <1>1, <1>2, <1>4, <1>5, <1>6, Zenon

\* A number or a state that is asked for: 0 without a reply.
LEMMA CountIsGood ==
  ASSUME NEW cmd \in Counts, NEW s
  PROVE  Good(Asking(cmd, <<0>>, s), s)
<1>1. Failing(cmd, <<0>>)
  BY Zenon DEF Failing
<1> QED BY <1>1, HelpersAre, OtherIsGood, Zenon

LEMMA SettingIs ==
  ASSUME NEW frame, NEW cmd, NEW s, Whole(frame, cmd)
  PROVE  /\ Whole(Setting(frame, s).frame, cmd)
         /\ ~ IsReplyTo(cmd, s) => Setting(frame, s).value = WL_FAILURE
<1>1. frame.cmd = cmd
  BY WholeIs, Zenon
<1>2. PICK r : r = waitResponseCmd(cmd, 1, s)
  OBVIOUS
<1>3. Setting(frame, s).frame = frame /\ Setting(frame, s).value = OrFailure(r)
  BY <1>1, <1>2, Zenon DEF Setting, Call
<1>4. ~ IsReplyTo(cmd, s) => OrFailure(r) = WL_FAILURE
  BY <1>2, Unanswered, Zenon
<1> QED BY <1>3, <1>4, Zenon

LEMMA QuietCodes ==
  /\ Code.SET_IP_CONFIG_CMD \in Quiet /\ Code.SET_DNS_CONFIG_CMD \in Quiet
  /\ Code.SET_HOSTNAME_CMD \in Quiet /\ Code.SET_POWER_MODE_CMD \in Quiet
  /\ Code.SET_DEBUG_CMD \in Quiet /\ Code.GET_TEMPERATURE_CMD \in Quiet
  /\ Code.GET_REASON_CODE_CMD \in Quiet
  /\ Code.GET_IPADDR_CMD \in Quiet /\ Code.GET_MACADDR_CMD \in Quiet
  /\ Code.GET_CURR_SSID_CMD \in Quiet /\ Code.GET_CURR_BSSID_CMD \in Quiet
  /\ Code.GET_CURR_RSSI_CMD \in Quiet /\ Code.GET_CURR_ENCT_CMD \in Quiet
  /\ Code.SCAN_NETWORKS \in Quiet /\ Code.START_SERVER_TCP_CMD \in Quiet
  /\ Code.START_CLIENT_TCP_CMD \in Quiet /\ Code.STOP_CLIENT_TCP_CMD \in Quiet
  /\ Code.GET_IDX_RSSI_CMD \in Quiet
  /\ Code.GET_IDX_ENCT_CMD \in Quiet /\ Code.GET_FW_VERSION_CMD \in Quiet
  /\ Code.GET_REMOTE_DATA_CMD \in Quiet /\ Code.GET_TIME_CMD \in Quiet
  /\ Code.GET_IDX_BSSID \in Quiet /\ Code.GET_IDX_CHANNEL_CMD \in Quiet
  /\ Code.GET_DATABUF_TCP_CMD \in Quiet /\ Code.SET_PIN_MODE \in Quiet
  /\ Code.SET_DIGITAL_WRITE \in Quiet /\ Code.SET_ANALOG_WRITE \in Quiet
  /\ Code.GET_ANALOG_READ \in Quiet /\ Code.WRITE_FILE \in Quiet
  /\ Code.READ_FILE \in Quiet /\ Code.DELETE_FILE \in Quiet
  /\ Code.EXISTS_FILE \in Quiet /\ Code.APPLY_OTA_COMMAND \in Quiet
BY ZenonT(30) DEF Quiet

LEMMA QuietHelpers ==
  ASSUME NEW cmd \in Quiet, NEW s
  PROVE  /\ \A old : Good(Plain(cmd, old, s), s) /\ Good(Asking(cmd, old, s), s)
         /\ \A frame : Whole(frame, cmd) => Good(Setting(frame, s), s)
<1>1. \A old : Good(Plain(cmd, old, s), s) /\ Good(Asking(cmd, old, s), s)
  BY HelpersAre, QuietIsGood, Zenon
<1>2. \A frame : Whole(frame, cmd) => Good(Setting(frame, s), s)
  BY SettingIs, QuietIsGood, Zenon
<1> QED BY <1>1, <1>2

LEMMA VerdictHelpers ==
  ASSUME NEW cmd \in Verdicts, NEW s, NEW frame, Whole(frame, cmd)
  PROVE  Good(Setting(frame, s), s) /\ Good(Acknowledged(Setting(frame, s)), s)
<1>1. Whole(Setting(frame, s).frame, cmd)
      /\ (~ IsReplyTo(cmd, s) => Setting(frame, s).value = WL_FAILURE)
  BY SettingIs, Zenon
<1>2. /\ Acknowledged(Setting(frame, s)).frame = Setting(frame, s).frame
      /\ Acknowledged(Setting(frame, s)).value
           = IF Setting(frame, s).value = WIFI_SPI_ACK THEN WL_SUCCESS ELSE WL_FAILURE
  <2>1. PICK r : Setting(frame, s) = Call(frame, r, OrFailure(r))
    BY Zenon DEF Setting
  <2>2. PICK x : Setting(frame, s) = [frame |-> frame, answered |-> r.ok, value |-> x]
    BY <2>1, Zenon DEF Call
  <2> QED BY <2>2, Zenon DEF Acknowledged
<1>3. WL_FAILURE # WIFI_SPI_ACK
  BY DEF WL_FAILURE, WIFI_SPI_ACK
<1>4. Good(Setting(frame, s), s)
  BY <1>1, VerdictIsGood, Zenon
<1>5. /\ Whole(Acknowledged(Setting(frame, s)).frame, cmd)
      /\ ~ IsReplyTo(cmd, s) => Acknowledged(Setting(frame, s)).value = WL_FAILURE
  BY <1>1, <1>2, <1>3, Zenon
<1> QED BY <1>4, <1>5, VerdictIsGood, Zenon

LEMMA PlainFrame == \A cmd : Whole(SendCmd(cmd, 0), cmd)
<1> TAKE cmd
<1>1. 4 % 4 = 0
  OBVIOUS
<1> QED BY <1>1, Starts, Zenon DEF Whole

LEMMA OneByteWhole == \A cmd : Whole(OneByte(cmd), cmd)
BY OneByteFrame, Zenon DEF OneByte

LEMMA NoReplyIsGood ==
  ASSUME NEW cmd \in Quiet, NEW r, NEW v, NEW s
  PROVE  Good(Call(SendCmd(cmd, 0), r, v), s)
<1>1. Call(SendCmd(cmd, 0), r, v).frame = SendCmd(cmd, 0)
  BY Zenon DEF Call
<1>2. Whole(Call(SendCmd(cmd, 0), r, v).frame, cmd)
  BY <1>1, PlainFrame, Zenon
<1> QED BY <1>2, QuietIsGood, Zenon

LEMMA OneByteIsGood ==
  ASSUME NEW cmd \in Quiet, NEW r, NEW v, NEW s
  PROVE  Good(Call(OneByte(cmd), r, v), s)
<1>1. Call(OneByte(cmd), r, v).frame = OneByte(cmd)
  BY Zenon DEF Call
<1>2. Whole(Call(OneByte(cmd), r, v).frame, cmd)
  BY <1>1, OneByteWhole, Zenon
<1> QED BY <1>2, QuietIsGood, Zenon

LEMMA SettingRecord ==
  ASSUME NEW frame, NEW s
  PROVE  \E r, v : Setting(frame, s) = [frame |-> frame, answered |-> r, value |-> v]
BY Zenon DEF Setting, Call

LEMMA InsertedIsGood ==
  ASSUME NEW cmd \in YesOrNo, NEW frame, Whole(frame, cmd), NEW s
  PROVE  Good(Inserted(frame, s), s)
<1>1. frame.cmd = cmd
  BY WholeIs, Zenon
<1>2. PICK r : r = waitResponseData8(cmd, s)
  OBVIOUS
<1>3. /\ Inserted(frame, s).frame = frame
      /\ Inserted(frame, s).value = Flag(Len(r.data) > 0 /\ r.data[1] = 1)
  BY <1>1, <1>2, Zenon DEF Inserted, Call
<1>4. ~ IsReplyTo(cmd, s) => Inserted(frame, s).value = <<0>>
  <2>1. ~ IsReplyTo(cmd, s) => r.data = <<>>
    BY <1>2, Unanswered, Zenon
  <2>2. ~ Len(<<>>) > 0
    OBVIOUS
  <2> QED BY <1>3, <2>1, <2>2, Zenon DEF Flag
<1> QED BY <1>3, <1>4, YesOrNoIsGood, Zenon

LEMMA LensAreNat ==
  /\ \A n \in Lens : n \in Nat
  /\ \A n \in FewLens : n \in Nat
  /\ \A n \in StrLens : n \in Nat
  /\ \A n \in BufLens : n \in Nat
<1>1. Lens \subseteq 0..255 /\ FewLens \subseteq Lens /\ StrLens \subseteq Nat
      /\ BufLens \subseteq Nat
  BY LensAssumption, Zenon
<1>2. \A n \in 0..255 : n \in Nat
  OBVIOUS
<1> QED BY <1>1, <1>2, Zenon

\* Every function of WiFiDrv.
LEMMA WiFiCallsAreGood ==
  ASSUME NEW s, NEW x \in WiFiCalls(s)
  PROVE  Good(x, s)
<1>1. Good(getReasonCode(s), s)
  BY QuietCodes, QuietHelpers, Zenon DEF getReasonCode
<1>2. Good(getConnectionStatus(s), s)
  <2>1. Failing(Code.GET_CONN_STATUS_CMD, <<255>>)
    BY Zenon DEF Failing, WL_NO_MODULE
  <2>2. /\ Whole(getConnectionStatus(s).frame, Code.GET_CONN_STATUS_CMD)
        /\ ~ IsReplyTo(Code.GET_CONN_STATUS_CMD, s) => getConnectionStatus(s).value = <<255>>
    BY HelpersAre, Zenon DEF getConnectionStatus
  <2> QED BY <2>1, <2>2, OtherIsGood, Zenon
<1>3. Good(getMacAddress(<<0>>, s), s)
  BY QuietCodes, QuietHelpers, Zenon DEF getMacAddress
<1>4. Good(getCurrentSSID(s), s)
  BY QuietCodes, QuietHelpers, Zenon DEF getCurrentSSID
<1>5. Good(getCurrentBSSID(<<0>>, s), s)
  BY QuietCodes, QuietHelpers, Zenon DEF getCurrentBSSID
<1>6. Good(getCurrentRSSI(s), s)
  BY QuietCodes, QuietHelpers, Zenon DEF getCurrentRSSI
<1>7. Good(getCurrentEncryptionType(s), s)
  BY QuietCodes, QuietHelpers, Zenon DEF getCurrentEncryptionType
<1>8. Good(getFwVersion(<<0>>, s), s)
  BY QuietCodes, QuietHelpers, Zenon DEF getFwVersion
<1>9. Good(getTime(s), s)
  BY QuietCodes, QuietHelpers, Zenon DEF getTime
<1>10. Good(setPowerMode(s), s)
  BY QuietCodes, QuietHelpers, Zenon DEF setPowerMode
<1>11. Good(debug(s), s)
  BY QuietCodes, QuietHelpers, Zenon DEF debug
<1>12. Good(getTemperature(s), s)
  BY QuietCodes, QuietHelpers, Zenon DEF getTemperature
<1>13. Good(analogRead(s), s)
  BY QuietCodes, QuietHelpers, Zenon DEF analogRead
<1>14. Good(config(s), s)
  <2>1. Code.SET_IP_CONFIG_CMD \in Quiet
    BY QuietCodes, Zenon
  <2> QED BY <2>1, ConfigFrame, QuietHelpers, Zenon DEF config
<1>15. Good(setDNS(s), s)
  <2>1. Code.SET_DNS_CONFIG_CMD \in Quiet
    BY QuietCodes, Zenon
  <2> QED BY <2>1, DnsFrame, QuietHelpers, Zenon DEF setDNS
<1>16. Good(pinMode(s), s)
  <2>1. Code.SET_PIN_MODE \in Quiet
    BY QuietCodes, Zenon
  <2>2. Code.SET_PIN_MODE \in Unpadded
    BY Zenon DEF Unpadded
  <2> QED BY <2>1, <2>2, TwoBytesFrame, QuietHelpers, Zenon DEF pinMode, TwoBytes
<1>17. Good(digitalWrite(s), s)
  <2>1. Code.SET_DIGITAL_WRITE \in Quiet
    BY QuietCodes, Zenon
  <2>2. Code.SET_DIGITAL_WRITE \in Unpadded
    BY Zenon DEF Unpadded
  <2> QED BY <2>1, <2>2, TwoBytesFrame, QuietHelpers, Zenon DEF digitalWrite, TwoBytes
<1>18. Good(analogWrite(s), s)
  <2>1. Code.SET_ANALOG_WRITE \in Quiet
    BY QuietCodes, Zenon
  <2>2. Code.SET_ANALOG_WRITE \in Unpadded
    BY Zenon DEF Unpadded
  <2> QED BY <2>1, <2>2, TwoBytesFrame, QuietHelpers, Zenon DEF analogWrite, TwoBytes
<1>19. Good(applyOTA, s)
  BY QuietCodes, NoReplyIsGood, Zenon DEF applyOTA
<1>20. Good(getScanNetworks(s), s)
  BY QuietCodes, NoReplyIsGood, Zenon DEF getScanNetworks
<1>21. Good(getNetworkData(<< <<0>>, <<0>>, <<0>> >>, s), s)
  BY QuietCodes, OneByteIsGood, Zenon DEF getNetworkData
<1>22. Good(getRemoteData(<< <<0>>, <<0>> >>, s), s)
  BY QuietCodes, OneByteIsGood, Zenon DEF getRemoteData
<1>23. Good(startScanNetworks(s), s)
  <2>1. PICK c : c = Setting(SendCmd(Code.START_SCAN_NETWORKS, 0), s)
    OBVIOUS
  <2>2. Code.START_SCAN_NETWORKS \in Verdicts
    BY Zenon DEF Verdicts
  <2>3. Whole(c.frame, Code.START_SCAN_NETWORKS)
        /\ (~ IsReplyTo(Code.START_SCAN_NETWORKS, s) => c.value = WL_FAILURE)
    BY <2>1, PlainFrame, SettingIs, Zenon
  <2>4. /\ startScanNetworks(s).frame = c.frame
        /\ c.value = WL_FAILURE => startScanNetworks(s).value = WL_FAILURE
    <3>1. PICK r, v : c = [frame |-> SendCmd(Code.START_SCAN_NETWORKS, 0), answered |-> r,
                           value |-> v]
      BY <2>1, SettingRecord, Zenon
    <3>2. startScanNetworks(s)
            = [c EXCEPT !.value = IF c.value = WL_FAILURE THEN c.value ELSE WL_SUCCESS]
      BY <2>1, Zenon DEF startScanNetworks
    <3> QED BY <3>1, <3>2, Zenon
  <2> QED BY <2>2, <2>3, <2>4, VerdictIsGood, Zenon
<1>24. Good(digitalRead(s), s)
  <2>1. PICK c : c = Setting(OneByte(Code.GET_DIGITAL_READ), s)
    OBVIOUS
  <2>2. Code.GET_DIGITAL_READ \in YesOrNo
    BY Zenon DEF YesOrNo
  <2>3. Whole(c.frame, Code.GET_DIGITAL_READ)
        /\ (~ IsReplyTo(Code.GET_DIGITAL_READ, s) => c.value = WL_FAILURE)
    BY <2>1, OneByteFrame, SettingIs, Zenon DEF OneByte
  <2>4. digitalRead(s).frame = c.frame /\ digitalRead(s).value = Flag(c.value = <<1>>)
    <3>1. PICK r, v : c = [frame |-> OneByte(Code.GET_DIGITAL_READ), answered |-> r, value |-> v]
      BY <2>1, SettingRecord, Zenon
    <3>2. digitalRead(s) = [c EXCEPT !.value = Flag(c.value = <<1>>)]
      BY <2>1, Zenon DEF digitalRead
    <3> QED BY <3>1, <3>2, Zenon
  <2>5. WL_FAILURE # <<1>>
    BY DEF WL_FAILURE
  <2>6. c.value = WL_FAILURE => digitalRead(s).value = <<0>>
    BY <2>4, <2>5, Zenon DEF Flag
  <2> QED BY <2>2, <2>3, <2>4, <2>6, YesOrNoIsGood, Zenon
<1>25. Good(disconnect(s), s)
  <2>1. Code.DISCONNECT_CMD \in YesOrNo
    BY Zenon DEF YesOrNo
  <2>2. PICK r : r = waitResponseCmd(Code.DISCONNECT_CMD, 1, s)
    OBVIOUS
  <2>3. disconnect(s).frame = OneByte(Code.DISCONNECT_CMD) /\ disconnect(s).value = Flag(r.ok)
    BY <2>2, Zenon DEF disconnect, Call
  <2>4. ~ IsReplyTo(Code.DISCONNECT_CMD, s) => Flag(r.ok) = <<0>>
    BY <2>2, Unanswered, Zenon DEF Flag
  <2> QED BY <2>1, <2>3, <2>4, OneByteWhole, YesOrNoIsGood, Zenon
<1>26. Good(getHostByName(<<9>>, s), s)
  <2>1. PICK r : r = waitResponseCmd(Code.GET_HOST_BY_NAME_CMD, 1, s)
    OBVIOUS
  <2>2. /\ getHostByName(<<9>>, s).frame = SendCmd(Code.GET_HOST_BY_NAME_CMD, 0)
        /\ ~ r.ok => getHostByName(<<9>>, s).value = <<>>
    BY <2>1, Zenon DEF getHostByName, Call
  <2>3. ~ IsReplyTo(Code.GET_HOST_BY_NAME_CMD, s) => ~ r.ok
    BY <2>1, Unanswered, Zenon
  <2>4. Failing(Code.GET_HOST_BY_NAME_CMD, <<>>)
    BY Zenon DEF Failing
  <2> QED BY <2>2, <2>3, <2>4, PlainFrame, OtherIsGood, Zenon
<1>27. Good(ping(<<9>>, s), s)
  <2>1. PICK r : r = waitResponseCmd(Code.PING_CMD, 1, s)
    OBVIOUS
  <2>2. /\ Whole(ping(<<9>>, s).frame, Code.PING_CMD)
        /\ ~ r.ok => ping(<<9>>, s).value = WL_PING_ERROR
    BY <2>1, PingFrame, Zenon DEF ping, Call
  <2>3. ~ IsReplyTo(Code.PING_CMD, s) => ~ r.ok
    BY <2>1, Unanswered, Zenon
  <2>4. Failing(Code.PING_CMD, WL_PING_ERROR)
    BY Zenon DEF Failing
  <2> QED BY <2>2, <2>3, <2>4, OtherIsGood, Zenon
<1>28. \A i \in {9, 10} : Good(getEncTypeNetowrks(i, s), s)
  BY QuietCodes, QuietHelpers, NoCallIsGood, Zenon DEF getEncTypeNetowrks, OfNetwork
<1>29. \A i \in {9, 10} : Good(getBSSIDNetowrks(i, <<0>>, s), s)
  BY QuietCodes, QuietHelpers, NoCallIsGood, Zenon DEF getBSSIDNetowrks, OfNetwork
<1>30. \A i \in {9, 10} : Good(getChannelNetowrks(i, s), s)
  BY QuietCodes, QuietHelpers, NoCallIsGood, Zenon DEF getChannelNetowrks, OfNetwork
<1>31. \A i \in {9, 10} : Good(getRSSINetoworks(i, s), s)
  BY QuietCodes, QuietHelpers, NoCallIsGood, Zenon DEF getRSSINetoworks, OfNetwork
<1>32. \A n \in Lens : Good(wifiSetNetwork(n, s), s)
  <2> TAKE n \in Lens
  <2>1. Code.SET_NET_CMD \in Verdicts
    BY Zenon DEF Verdicts
  <2>2. n \in Nat
    BY LensAreNat, Zenon
  <2> QED BY <2>1, <2>2, StringFrame, VerdictHelpers, Zenon DEF wifiSetNetwork
<1>33. \A n \in Lens, m \in Lens : Good(wifiSetPassphrase(n, m, s), s)
  <2> TAKE n \in Lens, m \in Lens
  <2>1. Code.SET_PASSPHRASE_CMD \in Verdicts
    BY Zenon DEF Verdicts
  <2>2. n \in Nat /\ m \in Nat
    BY LensAreNat, Zenon
  <2> QED BY <2>1, <2>2, TwoStringsFrame, VerdictHelpers, Zenon DEF wifiSetPassphrase
<1>34. \A n \in Lens, m \in Lens : Good(wifiSetKey(n, m, s), s)
  <2> TAKE n \in Lens, m \in Lens
  <2>1. Code.SET_KEY_CMD \in Verdicts
    BY Zenon DEF Verdicts
  <2>2. n \in Nat /\ m \in Nat
    BY LensAreNat, Zenon
  <2> QED BY <2>1, <2>2, KeyFrame, VerdictHelpers, Zenon DEF wifiSetKey
<1>35. \A n \in StrLens : Good(setHostname(n, s), s)
  <2> TAKE n \in StrLens
  <2>1. Code.SET_HOSTNAME_CMD \in Quiet
    BY QuietCodes, Zenon
  <2>2. n \in Nat
    BY LensAreNat, Zenon
  <2> QED BY <2>1, <2>2, StringFrame, QuietHelpers, Zenon DEF setHostname
<1>36. \A n \in Lens : Good(wifiSetApNetwork(n, s), s)
  <2> TAKE n \in Lens
  <2>1. Code.SET_AP_NET_CMD \in Verdicts
    BY Zenon DEF Verdicts
  <2>2. n \in Nat
    BY LensAreNat, Zenon
  <2> QED BY <2>1, <2>2, ApNetFrame, VerdictHelpers, Zenon DEF wifiSetApNetwork
<1>37. \A n \in Lens, m \in Lens : Good(wifiSetApPassphrase(n, m, s), s)
  <2> TAKE n \in Lens, m \in Lens
  <2>1. Code.SET_AP_PASSPHRASE_CMD \in Verdicts
    BY Zenon DEF Verdicts
  <2>2. n \in Nat /\ m \in Nat
    BY LensAreNat, Zenon
  <2> QED BY <2>1, <2>2, ApPassFrame, VerdictHelpers, Zenon DEF wifiSetApPassphrase
<1>38. \A n \in FewLens, u \in FewLens, p \in FewLens, c \in BufLens :
         Good(wifiSetEnterprise(n, u, p, 0, c, s), s)
  <2> TAKE n \in FewLens, u \in FewLens, p \in FewLens, c \in BufLens
  <2>1. Code.SET_ENT_CMD \in Verdicts
    BY Zenon DEF Verdicts
  <2>2. n \in Nat /\ u \in Nat /\ p \in Nat /\ c \in Nat
    BY LensAreNat, Zenon
  <2>3. Code.SET_ENT_CMD \in Unpadded /\ 0 \in Nat
    BY Zenon DEF Unpadded
  <2> QED BY <2>1, <2>2, <2>3, EnterpriseFrame, VerdictHelpers, Zenon DEF wifiSetEnterprise
<1>39. \A n \in FewLens, m \in Lens : Good(downloadFile(n, m, s), s)
  <2> TAKE n \in FewLens, m \in Lens
  <2>1. Code.DOWNLOAD_FILE \in Verdicts
    BY Zenon DEF Verdicts
  <2>2. n \in Nat /\ m \in Nat
    BY LensAreNat, Zenon
  <2> QED BY <2>1, <2>2, TwoStringsFrame, VerdictHelpers, Zenon DEF downloadFile
<1>40. \A n \in Lens : Good(downloadOTA(n, s), s)
  <2> TAKE n \in Lens
  <2>1. Code.DOWNLOAD_OTA \in Verdicts
    BY Zenon DEF Verdicts
  <2>2. n \in Nat
    BY LensAreNat, Zenon
  <2> QED BY <2>1, <2>2, StringFrame, VerdictHelpers, Zenon DEF downloadOTA
<1>41. \A n \in FewLens, m \in Lens : Good(renameFile(n, m, s), s)
  <2> TAKE n \in FewLens, m \in Lens
  <2>1. Code.RENAME_FILE \in Verdicts
    BY Zenon DEF Verdicts
  <2>2. n \in Nat /\ m \in Nat
    BY LensAreNat, Zenon
  <2> QED BY <2>1, <2>2, TwoStringsFrame, VerdictHelpers, Zenon DEF renameFile
<1>42. \A n \in StrLens : Good(reqHostByName(n, s), s)
  <2> TAKE n \in StrLens
  <2>1. Code.REQ_HOST_BY_NAME_CMD \in YesOrNo
    BY Zenon DEF YesOrNo
  <2>2. n \in Nat
    BY LensAreNat, Zenon
  <2>3. PICK r : r = waitResponseCmd(Code.REQ_HOST_BY_NAME_CMD, 1, s)
    OBVIOUS
  <2>4. /\ Whole(reqHostByName(n, s).frame, Code.REQ_HOST_BY_NAME_CMD)
        /\ reqHostByName(n, s).value = Flag(r.ok /\ Buffer(r, <<0>>) = <<1>>)
    BY <2>2, <2>3, StringFrame, Zenon DEF reqHostByName, Call
  <2>5. ~ IsReplyTo(Code.REQ_HOST_BY_NAME_CMD, s) => ~ r.ok
    BY <2>3, Unanswered, Zenon
  <2>6. ~ r.ok => reqHostByName(n, s).value = <<0>>
    BY <2>4, Zenon DEF Flag
  <2> QED BY <2>1, <2>4, <2>5, <2>6, YesOrNoIsGood, Zenon
<1>43. \A cmd \in FileCmds, n \in FewLens, len \in BufLens : Good(fileOperation(cmd, n, len, s), s)
  <2> TAKE cmd \in FileCmds, n \in FewLens, len \in BufLens
  <2>1. n \in Nat /\ len \in Nat
    BY LensAreNat, Zenon
  <2>2. cmd \in Quiet
    BY QuietCodes, Zenon DEF FileCmds
  <2>3. CASE cmd = Code.WRITE_FILE
    <3>1. cmd \in Unpadded
      BY <2>3, Zenon DEF Unpadded
    <3>2. fileOperation(cmd, n, len, s).frame
            = SendCmd(cmd, 4) ++ SendParam(4) ++ SendParam(4) ++ SendParam(n)
              ++ LastParamNoLen(len) ++ Pad(4 + 4 + 8 + n)
      BY <2>3, Zenon DEF fileOperation, Call
    <3> QED BY <2>1, <2>2, <3>1, <3>2, WriteFrame, QuietIsGood, Zenon
  <2>4. CASE cmd # Code.WRITE_FILE
    <3>1. fileOperation(cmd, n, len, s).frame
            = SendCmd(cmd, 3) ++ SendParam(4) ++ SendParam(4) ++ LastParam(n)
              ++ Pad(4 + 3 + 8 + n)
      BY <2>4, Zenon DEF fileOperation, Call
    <3> QED BY <2>1, <2>2, <3>1, FileFrame, QuietIsGood, Zenon
  <2> QED BY <2>3, <2>4
<1>44. CASE x \in {getReasonCode(s), getConnectionStatus(s), getMacAddress(<<0>>, s),
                 getCurrentSSID(s), getCurrentBSSID(<<0>>, s), getCurrentRSSI(s),
                 getCurrentEncryptionType(s), getFwVersion(<<0>>, s), getTime(s),
                 setPowerMode(s), debug(s), getTemperature(s), analogRead(s), config(s),
                 setDNS(s), pinMode(s), digitalWrite(s), analogWrite(s), applyOTA,
                 getScanNetworks(s), getNetworkData(<< <<0>>, <<0>>, <<0>> >>, s),
                 getRemoteData(<< <<0>>, <<0>> >>, s), startScanNetworks(s),
                 digitalRead(s), disconnect(s), getHostByName(<<9>>, s), ping(<<9>>, s)}
  BY <1>44, <1>1, <1>2, <1>3, <1>4, <1>5, <1>6, <1>7, <1>8, <1>9, <1>10, <1>11, <1>12, <1>13,
     <1>14, <1>15, <1>16, <1>17, <1>18, <1>19, <1>20, <1>21, <1>22, <1>23, <1>24, <1>25,
     <1>26, <1>27, Zenon
<1>45. CASE x \in {getEncTypeNetowrks(i, s) : i \in {9, 10}}
  BY <1>28, <1>45
<1>46. CASE x \in {getBSSIDNetowrks(i, <<0>>, s) : i \in {9, 10}}
  BY <1>29, <1>46
<1>47. CASE x \in {getChannelNetowrks(i, s) : i \in {9, 10}}
  BY <1>30, <1>47
<1>48. CASE x \in {getRSSINetoworks(i, s) : i \in {9, 10}}
  BY <1>31, <1>48
<1>49. CASE x \in {wifiSetNetwork(n, s) : n \in Lens}
  BY <1>32, <1>49, Zenon
<1>50. CASE x \in {wifiSetPassphrase(n, m, s) : n \in Lens, m \in Lens}
  BY <1>33, <1>50
<1>51. CASE x \in {wifiSetKey(n, m, s) : n \in Lens, m \in Lens}
  BY <1>34, <1>51
<1>52. CASE x \in {setHostname(n, s) : n \in StrLens}
  BY <1>35, <1>52, Zenon
<1>53. CASE x \in {wifiSetApNetwork(n, s) : n \in Lens}
  BY <1>36, <1>53, Zenon
<1>54. CASE x \in {wifiSetApPassphrase(n, m, s) : n \in Lens, m \in Lens}
  BY <1>37, <1>54
<1>55. CASE x \in {wifiSetEnterprise(n, u, p, 0, c, s) :
                     n \in FewLens, u \in FewLens, p \in FewLens, c \in BufLens}
  BY <1>38, <1>55
<1>56. CASE x \in {downloadFile(n, m, s) : n \in FewLens, m \in Lens}
  BY <1>39, <1>56
<1>57. CASE x \in {downloadOTA(n, s) : n \in Lens}
  BY <1>40, <1>57, Zenon
<1>58. CASE x \in {renameFile(n, m, s) : n \in FewLens, m \in Lens}
  BY <1>41, <1>58
<1>59. CASE x \in {reqHostByName(n, s) : n \in StrLens}
  BY <1>42, <1>59, Zenon
<1>60. CASE x \in {fileOperation(cmd, n, len, s) : cmd \in FileCmds, n \in FewLens, len \in BufLens}
  BY <1>43, <1>60
<1> QED BY <1>44, <1>45, <1>46, <1>47, <1>48, <1>49, <1>50, <1>51, <1>52, <1>53, <1>54,
           <1>55, <1>56, <1>57, <1>58, <1>59, <1>60 DEF WiFiCalls

\* Every function of ServerDrv.
LEMMA ServerCallsAreGood ==
  ASSUME NEW s, NEW x \in ServerCalls(s)
  PROVE  Good(x, s)
<1>1. Good(stopClient(s), s)
  BY QuietCodes, QuietHelpers, Zenon DEF stopClient
<1>2. Good(getServerState(s), s)
  BY CountIsGood, Zenon DEF getServerState, Counts
<1>3. Good(getClientState(s), s)
  BY CountIsGood, Zenon DEF getClientState, Counts
<1>4. \A irq \in BOOLEAN : Good(availData(irq, s), s)
  BY CountIsGood, NoCallIsGood, Zenon DEF availData, Counts
<1>6. Good(startServer(s), s)
  <2>1. Whole(startServer(s).frame, Code.START_SERVER_TCP_CMD)
    BY ServerFrame, Zenon DEF startServer, Call
  <2> QED BY <2>1, QuietCodes, QuietIsGood, Zenon
<1>7. Good(startServerAt(s), s)
  <2>1. Whole(startServerAt(s).frame, Code.START_SERVER_TCP_CMD)
    BY AddressFrame, Zenon DEF startServerAt, Call
  <2> QED BY <2>1, QuietCodes, QuietIsGood, Zenon
<1>8. Good(startClient(s), s)
  <2>1. Whole(startClient(s).frame, Code.START_CLIENT_TCP_CMD)
    BY AddressFrame, Zenon DEF startClient, Call
  <2> QED BY <2>1, QuietCodes, QuietIsGood, Zenon
<1>9. \A n \in Lens : Good(startClientHost(n, s), s)
  <2> TAKE n \in Lens
  <2>1. n \in Nat
    BY LensAreNat, Zenon
  <2>2. Whole(startClientHost(n, s).frame, Code.START_CLIENT_TCP_CMD)
    BY <2>1, HostFrame, Zenon DEF startClientHost, Call
  <2> QED BY <2>2, QuietCodes, QuietIsGood, Zenon
<1>10. Good(getData(s), s)
  <2>1. PICK r : r = waitResponseData8(Code.GET_DATA_TCP_CMD, s)
    OBVIOUS
  <2>2. Whole(getData(s).frame, Code.GET_DATA_TCP_CMD) /\ getData(s).value = r.data
    BY <2>1, GetDataFrame, Zenon DEF getData, Call
  <2>3. ~ IsReplyTo(Code.GET_DATA_TCP_CMD, s) => r.data = <<>>
    BY <2>1, Unanswered, Zenon
  <2>4. Failing(Code.GET_DATA_TCP_CMD, <<>>)
    BY Zenon DEF Failing
  <2> QED BY <2>2, <2>3, <2>4, OtherIsGood, Zenon
<1>11. \A n \in BufLens : Good(insertDataBuf(n, s), s)
  <2> TAKE n \in BufLens
  <2>1. n \in Nat
    BY LensAreNat, Zenon
  <2>2. Code.INSERT_DATABUF_CMD \in YesOrNo
    BY Zenon DEF YesOrNo
  <2> QED BY <2>1, <2>2, SendBufferFrame, InsertedIsGood, Zenon DEF insertDataBuf
<1>12. Good(sendUdpData(s), s)
  <2>1. Code.SEND_DATA_UDP_CMD \in YesOrNo
    BY Zenon DEF YesOrNo
  <2> QED BY <2>1, OneByteWhole, InsertedIsGood, Zenon DEF sendUdpData
<1>13. Good(checkDataSent(<<0>>, s), s)
  <2>1. Code.DATA_SENT_TCP_CMD \in YesOrNo
    BY Zenon DEF YesOrNo
  <2> QED BY <2>1, HelpersAre, YesOrNoIsGood, Zenon DEF checkDataSent
<1>14. \A n \in BufLens : Good(sendData(n, s), s)
  <2> TAKE n \in BufLens
  <2>1. n \in Nat
    BY LensAreNat, Zenon
  <2>2. PICK r : r = waitResponseData8(Code.SEND_DATA_TCP_CMD, s)
    OBVIOUS
  <2>3. Whole(sendData(n, s).frame, Code.SEND_DATA_TCP_CMD)
        /\ sendData(n, s).value = Buffer(r, <<0>>)
    BY <2>1, <2>2, SendBufferFrame, Zenon DEF sendData, Call
  <2>4. ~ IsReplyTo(Code.SEND_DATA_TCP_CMD, s) => Buffer(r, <<0>>) = <<0>>
    BY <2>2, Unanswered, Zenon
  <2>5. Failing(Code.SEND_DATA_TCP_CMD, <<0>>)
    BY Zenon DEF Failing
  <2> QED BY <2>3, <2>4, <2>5, OtherIsGood, Zenon
<1>15. Good(getSocket(s), s)
  <2>1. Failing(Code.GET_SOCKET_CMD, NO_SOCKET_AVAIL)
    BY Zenon DEF Failing
  <2> QED BY <2>1, HelpersAre, OtherIsGood, Zenon DEF getSocket
<1>17. CASE x \in {stopClient(s), getServerState(s), getClientState(s), startServer(s),
                 startServerAt(s), startClient(s), getData(s), sendUdpData(s),
                 checkDataSent(<<0>>, s), getSocket(s)}
  BY <1>17, <1>1, <1>2, <1>3, <1>6, <1>7, <1>8, <1>10, <1>12, <1>13, <1>15, Zenon
<1>18. CASE x \in {availData(irq, s) : irq \in BOOLEAN}
  BY <1>4, <1>18, Zenon
<1>20. CASE x \in {startClientHost(n, s) : n \in Lens}
  BY <1>9, <1>20, Zenon
<1>21. CASE x \in {insertDataBuf(n, s) : n \in BufLens}
  BY <1>11, <1>21, Zenon
<1>22. CASE x \in {sendData(n, s) : n \in BufLens}
  BY <1>14, <1>22, Zenon
<1> QED BY <1>17, <1>18, <1>20, <1>21, <1>22 DEF ServerCalls

\* The two that take silence for a success: what they return then.
LEMMA ServerWaitsAreGood ==
  ASSUME NEW s, NEW x \in ServerWaits(s)
  PROVE  /\ Good(x, s)
         /\ ~ IsReplyTo(x.frame.cmd, s) => x.value \in {<<0>>, NO_SOCKET_AVAIL}
         /\ x.frame.cmd \in Nat
<1>1. PICK irq \in BOOLEAN : x = availServer(irq, s)
  BY Zenon DEF ServerWaits
<1>2. CASE ~ irq
  <2>1. x = NoCall(NO_SOCKET_AVAIL)
    BY <1>1, <1>2, Zenon DEF availServer
  <2>2. x.value = NO_SOCKET_AVAIL /\ x.frame.cmd = 0
    BY <2>1, Zenon DEF NoCall, Call, ReadChars, Piece
  <2> QED BY <2>1, <2>2, NoCallIsGood
<1>3. CASE irq
  <2>1. x = Asking(Code.AVAIL_DATA_TCP_CMD, <<0>>, s)
    BY <1>1, <1>3, Zenon DEF availServer
  <2>2. Good(x, s)
    BY <2>1, CountIsGood, Zenon DEF Counts
  <2>3. Whole(x.frame, Code.AVAIL_DATA_TCP_CMD)
        /\ (~ IsReplyTo(Code.AVAIL_DATA_TCP_CMD, s) => x.value = <<0>>)
    BY <2>1, HelpersAre, Zenon
  <2>4. x.frame.cmd = Code.AVAIL_DATA_TCP_CMD
    BY <2>3, WholeIs, Zenon
  <2>5. x.frame.cmd \in Nat
    BY <2>4, CodesAre
  <2> QED BY <2>2, <2>3, <2>4, <2>5, Zenon
<1> QED BY <1>2, <1>3

LEMMA BufferReadsAreGood ==
  ASSUME NEW s, NEW x \in BufferReads(s)
  PROVE  /\ Good(x, s)
         /\ ~ IsReplyTo(x.frame.cmd, s) => x.value \in {<<>>, OldBytes}
         /\ x.frame.cmd \in Nat
<1>1. PICK irq \in BOOLEAN : x \in getDataBuf(irq, 2, OldBytes, s)
  BY Zenon DEF BufferReads
<1>2. CASE ~ irq
  <2>1. x = NoCall(<<>>)
    BY <1>1, <1>2, Zenon DEF getDataBuf
  <2>2. x.value = <<>> /\ x.frame.cmd = 0
    BY <2>1, Zenon DEF NoCall, Call, ReadChars, Piece
  <2> QED BY <2>1, <2>2, NoCallIsGood
<1>3. CASE irq
  <2> DEFINE cmd == Code.GET_DATABUF_TCP_CMD
             frame == SendCmd(cmd, 2) ++ SendBuffer(1) ++ LastBuffer(2) ++ ReadChars(1)
             F(r) == Call(frame, r, IF r.wrote THEN r.data ELSE SubSeq(OldBytes, 1, 2))
  <2>1. getDataBuf(irq, 2, OldBytes, s) = {F(r) : r \in waitResponseData16(cmd, s)}
    BY <1>3, Zenon DEF getDataBuf
  <2>2. PICK r \in waitResponseData16(cmd, s) : x = F(r)
    <3> HIDE DEF F
    <3> QED BY <1>1, <2>1, Zenon
  <2>3. x.frame = frame /\ x.value = IF r.wrote THEN r.data ELSE SubSeq(OldBytes, 1, 2)
    BY <2>2, Zenon DEF Call
  <2>4. SubSeq(OldBytes, 1, 2) = OldBytes
    <3>1. OldBytes \in Seq(Nat) /\ Len(OldBytes) = 2
      BY DEF OldBytes
    <3>2. SubSeq(OldBytes, 1, Len(OldBytes)) = OldBytes
      BY <3>1, SubSeqFull, Zenon
    <3> QED BY <3>1, <3>2, Zenon
  <2>5. ~ IsReplyTo(cmd, s) => ~ r.wrote
    <3>1. ASSUME ~ IsReplyTo(cmd, s) PROVE ~ r.wrote
      <4>1. PICK y : r = [ok |-> y, wrote |-> FALSE, data |-> <<>>]
        BY <2>2, <3>1, Zenon DEF waitResponseData16
      <4> QED BY <4>1
    <3> QED BY <3>1
  <2>6. Whole(x.frame, cmd)
    BY <2>3, GetBufferFrame, Zenon
  <2>7. x.frame.cmd = cmd
    BY <2>6, WholeIs, Zenon
  <2>8. Good(x, s)
    BY <2>6, QuietCodes, QuietIsGood, Zenon
  <2>9. cmd \in Nat
    BY CodesAre
  <2> HIDE DEF cmd, frame, F
  <2> QED BY <2>3, <2>4, <2>5, <2>7, <2>8, <2>9, Zenon
<1> QED BY <1>2, <1>3

(***************************************************************************)
(* Numbers and sequences of sequences.                                     *)
(***************************************************************************)
\* A set of numbers has a least one; so a set that holds 0, and with a number the next one,
\* holds all.
LEMMA Least ==
  ASSUME NEW T, T \subseteq Nat, T # {}
  PROVE  \E x \in T : \A y \in T : ~ y < x
<1>1. IsWellFoundedOn(OpToRel(<, Nat), Nat)
  BY NatLessThanWellFounded
<1>2. PICK x \in T : \A y \in T : ~ (<<y, x>> \in OpToRel(<, Nat))
  BY <1>1, WFMin
<1>3. \A y \in T : ~ y < x
  BY <1>2 DEF OpToRel
<1> QED BY <1>3

LEMMA Induction ==
  ASSUME NEW P, 0 \in P, \A n \in Nat : n \in P => n + 1 \in P
  PROVE  \A n \in Nat : n \in P
<1> DEFINE T == {n \in Nat : n \notin P}
<1>1. ASSUME T # {} PROVE FALSE
  <2>1. T \subseteq Nat
    OBVIOUS
  <2> HIDE DEF T
  <2>2. PICK x \in T : \A y \in T : ~ y < x
    BY <1>1, <2>1, Least, Zenon
  <2>3. x \in Nat /\ x \notin P
    BY <2>2 DEF T
  <2>4. x # 0
    BY <2>3, Zenon
  <2>5. x - 1 \in Nat /\ x - 1 < x /\ (x - 1) + 1 = x
    BY <2>3, <2>4
  <2>6. x - 1 \in P
    BY <2>2, <2>5 DEF T
  <2>7. (x - 1) + 1 \in P
    BY <2>5, <2>6, Zenon
  <2> QED BY <2>3, <2>5, <2>7, Zenon
<1> QED BY <1>1

\* FlattenSeq adds its sequences one after the other.
LEMMA Flattening ==
  ASSUME NEW S, NEW s \in Seq(Seq(S)), s # <<>>
  PROVE  \E f : /\ FlattenSeq(s) = f[Len(s)] /\ f[1] = s[1]
                /\ \A i \in 2..Len(s) : f[i] = f[i - 1] \o s[i]
<1> DEFINE G(f, k) == f = [i \in 1..k |-> IF i = 1 THEN s[i] ELSE f[i - 1] \o s[i]]
           P == {k \in Nat : \E f : G(f, k)}
<1>1. 0 \in P
  <2>1. G([i \in 1..0 |-> s[i]], 0)
    OBVIOUS
  <2> QED BY <2>1
<1>2. ASSUME NEW k \in Nat, k \in P PROVE k + 1 \in P
  <2>1. PICK f : G(f, k)
    BY <1>2
  <2> DEFINE g == [i \in 1..(k + 1) |-> IF i = 1 THEN s[i] ELSE f[i - 1] \o s[i]]
  <2>2. \A i \in 1..k : f[i] = IF i = 1 THEN s[i] ELSE f[i - 1] \o s[i]
    BY <2>1, Zenon
  <2>3. \A i \in 1..(k + 1) : g[i] = IF i = 1 THEN s[i] ELSE f[i - 1] \o s[i]
    BY Zenon
  <2>4. ASSUME NEW i \in 1..(k + 1), i # 1 PROVE f[i - 1] = g[i - 1]
    <3>1. i - 1 \in 1..k /\ i - 1 \in 1..(k + 1)
      BY <2>4
    <3> HIDE DEF g
    <3> QED BY <2>2, <2>3, <3>1, Zenon
  <2>5. G(g, k + 1)
    <3>1. \A i \in 1..(k + 1) : (IF i = 1 THEN s[i] ELSE f[i - 1] \o s[i])
                               = (IF i = 1 THEN s[i] ELSE g[i - 1] \o s[i])
      BY <2>4, Zenon
    <3> QED BY <3>1, Zenon
  <2> HIDE DEF G, g
  <2> QED BY <2>5
<1> HIDE DEF P
<1>3. \A k \in Nat : k \in P
  BY <1>1, <1>2, Induction, Zenon
<1>4. Len(s) \in Nat /\ Len(s) # 0
  BY EmptySeq, LenProperties
<1>5. \E f : G(f, Len(s))
  BY <1>3, <1>4, Zenon DEF P
<1> DEFINE flatten == CHOOSE f : f = [i \in 1..Len(s) |-> IF i = 1 THEN s[i] ELSE f[i - 1] \o s[i]]
<1>6. FlattenSeq(s) = flatten[Len(s)]
  BY <1>4, Zenon DEF FlattenSeq
<1>7. flatten = [i \in 1..Len(s) |-> IF i = 1 THEN s[i] ELSE flatten[i - 1] \o s[i]]
  BY <1>5, Zenon
<1> HIDE DEF flatten
<1>8. \A i \in 1..Len(s) : flatten[i] = IF i = 1 THEN s[i] ELSE flatten[i - 1] \o s[i]
  BY <1>7, Zenon
<1>9. 1 \in 1..Len(s) /\ \A i \in 2..Len(s) : i \in 1..Len(s) /\ i # 1
  BY <1>4
<1>10. flatten[1] = s[1] /\ \A i \in 2..Len(s) : flatten[i] = flatten[i - 1] \o s[i]
  BY <1>8, <1>9, Zenon
<1> QED BY <1>6, <1>10, Zenon

LEMMA FlattenType ==
  ASSUME NEW S, NEW s \in Seq(Seq(S))
  PROVE  FlattenSeq(s) \in Seq(S)
<1>1. CASE s = <<>>
  <2>1. Len(<<>>) = 0 /\ <<>> \in Seq(S)
    BY EmptySeq
  <2> QED BY <1>1, <2>1, Zenon DEF FlattenSeq
<1>2. CASE s # <<>>
  <2>1. PICK f : /\ FlattenSeq(s) = f[Len(s)] /\ f[1] = s[1]
                 /\ \A i \in 2..Len(s) : f[i] = f[i - 1] \o s[i]
    BY <1>2, Flattening, Zenon
  <2>2. Len(s) \in Nat /\ Len(s) # 0 /\ \A i \in 1..Len(s) : s[i] \in Seq(S)
    BY <1>2, EmptySeq, LenProperties
  <2> DEFINE P == {k \in Nat : k + 1 \in 1..Len(s) => f[k + 1] \in Seq(S)}
  <2>3. 0 \in P
    BY <2>1, <2>2
  <2>4. ASSUME NEW k \in Nat, k \in P PROVE k + 1 \in P
    <3> SUFFICES ASSUME (k + 1) + 1 \in 1..Len(s) PROVE f[(k + 1) + 1] \in Seq(S)
      OBVIOUS
    <3>1. k + 1 \in 1..Len(s) /\ (k + 1) + 1 \in 2..Len(s) /\ ((k + 1) + 1) - 1 = k + 1
      BY <2>2
    <3>2. f[k + 1] \in Seq(S)
      BY <2>4, <3>1, Zenon
    <3>3. f[(k + 1) + 1] = f[k + 1] \o s[(k + 1) + 1]
      BY <2>1, <3>1, Zenon
    <3>4. s[(k + 1) + 1] \in Seq(S)
      BY <2>2, Zenon
    <3> QED BY <3>2, <3>3, <3>4, ConcatProperties, Zenon
  <2> HIDE DEF P
  <2>5. \A k \in Nat : k \in P
    BY <2>3, <2>4, Induction, Zenon
  <2>6. PICK k \in Nat : k + 1 = Len(s) /\ Len(s) \in 1..Len(s)
    <3>1. Len(s) - 1 \in Nat /\ (Len(s) - 1) + 1 = Len(s) /\ Len(s) \in 1..Len(s)
      BY <2>2
    <3> QED BY <3>1, Zenon
  <2> QED BY <2>1, <2>5, <2>6, Zenon DEF P
<1> QED BY <1>1, <1>2
(***************************************************************************)
(* Answers.                                                                *)
(***************************************************************************)
LEMMA CodesAreBytes == \A name \in DOMAIN Code : Code[name] \in 16..103
BY DEF Code

\* The readers look no further than the first START or ERR.
LEMMA StopsAt ==
  ASSUME NEW s, NEW i \in 1..(TimeoutChar + 1), ByteOf(s, i) \in {START_CMD, ERR_CMD},
         \A j \in 1..(TimeoutChar + 1) : j < i => ByteOf(s, j) \notin {START_CMD, ERR_CMD}
  PROVE  Stops(s) # {} /\ Min(Stops(s)) = i
<1>1. i \in Stops(s) /\ \A j \in Stops(s) : j \in Int /\ i <= j
  BY TimeoutAssumption DEF Stops
<1>2. Min(Stops(s)) = CHOOSE x \in Stops(s) : \A y \in Stops(s) : x <= y
  BY Zenon DEF Min
<1>3. \A x \in Stops(s) : (\A y \in Stops(s) : x <= y) => x = i
  BY <1>1
<1> HIDE DEF Stops
<1>4. Min(Stops(s)) = i
  BY <1>1, <1>2, <1>3
<1> QED BY <1>1, <1>4

\* What two sequences put together begin with.
LEMMA Heads ==
  ASSUME NEW a \in Seq(Nat), NEW b \in Seq(Nat)
  PROVE  /\ a \o b \in Seq(Nat) /\ Len(a \o b) = Len(a) + Len(b)
         /\ \A i \in 1..Len(a) : (a \o b)[i] = a[i]
         /\ \A i \in (Len(a) + 1)..(Len(a) + Len(b)) : (a \o b)[i] = b[i - Len(a)]
OBVIOUS

\* Its elements, one by one.
LEMMA InFront ==
  ASSUME NEW a \in Seq(Nat), NEW b \in Seq(Nat), NEW i \in Nat, 1 <= i, i <= Len(a)
  PROVE  (a \o b)[i] = a[i]
<1>1. PICK n \in Nat : n = Len(a)
  BY LenProperties
<1>2. i \in 1..Len(a)
  BY <1>1
<1> QED BY <1>2, Heads, Zenon

LEMMA Behind ==
  ASSUME NEW a \in Seq(Nat), NEW b \in Seq(Nat), NEW i \in Nat, 1 <= i, i <= Len(b)
  PROVE  (a \o b)[Len(a) + i] = b[i]
<1>1. PICK n \in Nat : n = Len(a)
  BY LenProperties
<1>2. PICK m \in Nat : m = Len(b)
  BY LenProperties
<1>3. PICK k \in Nat : k = Len(a) + i
  BY <1>1
<1>4. k \in (Len(a) + 1)..(Len(a) + Len(b)) /\ k - Len(a) = i
  BY <1>1, <1>2, <1>3
<1>5. (a \o b)[k] = b[k - Len(a)]
  BY <1>4, Heads, Zenon
<1> QED BY <1>3, <1>4, <1>5, Zenon

\* Three bytes with something behind them, and something behind that.
LEMMA Joining ==
  ASSUME NEW a \in Seq(Nat), Len(a) = 3, NEW b \in Seq(Nat), NEW c \in Seq(Nat)
  PROVE  /\ (a \o b) \o c \in Seq(Nat) /\ Len((a \o b) \o c) >= 3
         /\ ((a \o b) \o c)[1] = a[1] /\ ((a \o b) \o c)[2] = a[2]
<1>1. PICK x \in Seq(Nat) : x = a \o b
  BY Heads
<1>2. PICK n \in Nat : n = Len(b)
  BY LenProperties
<1>3. PICK m \in Nat : m = Len(c)
  BY LenProperties
<1>4. Len(x) = 3 + n /\ x[1] = a[1] /\ x[2] = a[2]
  <2>1. Len(x) = 3 + n
    <3>1. Len(x) = Len(a) + Len(b)
      BY <1>1, Heads, Zenon
    <3> QED BY <1>2, <3>1
  <2>2. 1 \in Nat /\ 2 \in Nat /\ 1 <= 1 /\ 1 <= 2 /\ 1 <= Len(a) /\ 2 <= Len(a)
    OBVIOUS
  <2>3. x[1] = a[1] /\ x[2] = a[2]
    BY <1>1, <2>2, InFront, Zenon
  <2> QED BY <2>1, <2>3
<1>5. x \o c \in Seq(Nat) /\ Len(x \o c) = 3 + n + m
  <2>1. x \o c \in Seq(Nat) /\ Len(x \o c) = Len(x) + Len(c)
    BY Heads, Zenon
  <2> QED BY <1>2, <1>3, <1>4, <2>1
<1>6. (x \o c)[1] = x[1] /\ (x \o c)[2] = x[2]
  <2>1. 1 \in Nat /\ 2 \in Nat /\ 1 <= 1 /\ 1 <= 2 /\ 1 <= Len(x) /\ 2 <= Len(x)
    BY <1>2, <1>4
  <2> QED BY <2>1, InFront, Zenon
<1> QED BY <1>1, <1>4, <1>5, <1>6

LEMMA AnswerIs ==
  ASSUME NEW cmd \in Nat, NEW params \in Seq(Seq(Nat))
  PROVE  /\ Answer(cmd, params) \in Seq(Nat) /\ Len(Answer(cmd, params)) >= 3
         /\ Answer(cmd, params)[1] = START_CMD
         /\ Answer(cmd, params)[2] = cmd + REPLY_FLAG
<1>1. PICK E : E = Encoded(params)
  OBVIOUS
<1>2. E \in Seq(Nat)
  <2>1. \A i \in 1..Len(params) : <<Len(params[i])>> \o params[i] \in Seq(Nat)
    <3> TAKE i \in 1..Len(params)
    <3>1. params[i] \in Seq(Nat)
      OBVIOUS
    <3>2. <<Len(params[i])>> \in Seq(Nat)
      BY <3>1
    <3> QED BY <3>1, <3>2
  <2>2. [i \in 1..Len(params) |-> <<Len(params[i])>> \o params[i]] \in Seq(Seq(Nat))
    BY <2>1
  <2> QED BY <1>1, <2>2, FlattenType, Zenon DEF Encoded
<1>3. PICK A : A = <<START_CMD, cmd + REPLY_FLAG, Len(params)>>
  OBVIOUS
<1>4. A \in Seq(Nat) /\ Len(A) = 3 /\ A[1] = START_CMD /\ A[2] = cmd + REPLY_FLAG
  BY <1>3 DEF START_CMD, REPLY_FLAG
<1>5. PICK Z : Z = <<END_CMD>>
  OBVIOUS
<1>6. Z \in Seq(Nat)
  BY <1>5 DEF END_CMD
<1>7. Answer(cmd, params) = (A \o E) \o Z
  BY <1>1, <1>3, <1>5, Zenon DEF Answer
<1>8. (A \o E) \o Z \in Seq(Nat) /\ Len((A \o E) \o Z) >= 3
      /\ ((A \o E) \o Z)[1] = A[1] /\ ((A \o E) \o Z)[2] = A[2]
  BY <1>2, <1>4, <1>6, Joining
<1> QED BY <1>4, <1>7, <1>8, Zenon

\* Where an answer begins at once, its second byte tells what it answers.
LEMMA AtOnce ==
  ASSUME NEW s, ByteOf(s, 1) \in {START_CMD, ERR_CMD}
  PROVE  /\ Stops(s) # {} /\ Min(Stops(s)) = 1 /\ ParamPos(s) = 3
         /\ \A cmd \in Nat : IsReplyTo(cmd, s) <=> ByteOf(s, 2) = cmd + REPLY_FLAG
<1>1. 1 \in 1..(TimeoutChar + 1) /\ \A j \in 1..(TimeoutChar + 1) : ~ j < 1
  BY TimeoutAssumption
<1>2. Stops(s) # {} /\ Min(Stops(s)) = 1
  BY <1>1, StopsAt, Zenon
<1>3. 1 + 1 = 2 /\ 1 + 2 = 3
  OBVIOUS
<1> QED BY <1>2, <1>3, Zenon DEF IsReplyTo, ParamPos

\* Nothing, and an error, are a reply to no command.
LEMMA LostIsNoReply ==
  ASSUME NEW s \in Lost, NEW cmd \in Nat
  PROVE  ~ IsReplyTo(cmd, s)
<1>1. CASE s = <<>>
  <2>1. \A i \in 1..(TimeoutChar + 1) : ByteOf(s, i) = 255
    BY <1>1, TimeoutAssumption DEF ByteOf, DUMMY_DATA
  <2>2. Stops(s) = {}
    BY <2>1 DEF Stops, START_CMD, ERR_CMD
  <2> QED BY <2>2, Zenon DEF IsReplyTo
<1>2. CASE s = <<ERR_CMD, 0, END_CMD>>
  <2>1. ByteOf(s, 1) = ERR_CMD /\ ByteOf(s, 2) = 0
    BY <1>2 DEF ByteOf
  <2>2. ByteOf(s, 1) \in {START_CMD, ERR_CMD}
    BY <2>1, Zenon
  <2>3. IsReplyTo(cmd, s) <=> ByteOf(s, 2) = cmd + REPLY_FLAG
    BY <2>2, AtOnce
  <2> QED BY <2>1, <2>3 DEF REPLY_FLAG
<1> QED BY <1>1, <1>2, Zenon DEF Lost

\* An answer that is taken for one to a command was given to it.
LEMMA AnswerTells ==
  ASSUME NEW st \in Answers, NEW cmd \in Nat, IsReplyTo(cmd, st.bytes)
  PROVE  st.of # 0 /\ st.of = cmd
<1>1. PICK s : s = st.bytes
  OBVIOUS
<1>2. Stops(s) # {} /\ ByteOf(s, Min(Stops(s)) + 1) = cmd + REPLY_FLAG
  BY <1>1, Zenon DEF IsReplyTo
<1>3. CASE \E code \in Codes, ps \in Parameters : st = [of |-> code, bytes |-> Answer(code, ps)]
  <2>1. PICK code \in Codes, ps \in Parameters : st = [of |-> code, bytes |-> Answer(code, ps)]
    BY <1>3, Zenon
  <2>2. code \in 16..103
    BY CodesAreBytes, Zenon DEF Codes
  <2>3. code \in Nat /\ code # 0
    BY <2>2
  <2>4. ps \in Seq(Seq(Nat))
    <3>1. \A n \in Nat : <<n>> \in Seq(Nat)
      OBVIOUS
    <3>2. <<>> \in Seq(Nat)
      OBVIOUS
    <3>3. \A q \in Seq(Nat) : <<q>> \in Seq(Seq(Nat))
      OBVIOUS
    <3>4. \A q, p, r \in Seq(Nat) : <<q, p, r>> \in Seq(Seq(Nat))
      OBVIOUS
    <3>5. <<>> \in Seq(Seq(Nat))
      OBVIOUS
    <3>6. 0 \in Nat /\ 1 \in Nat /\ 2 \in Nat /\ 3 \in Nat /\ 7 \in Nat
      OBVIOUS
    <3>7. << <<1>>, <<2>>, <<3>> >> \in Seq(Seq(Nat))
      BY <3>1, <3>4, <3>6, Zenon
    <3> QED BY <3>1, <3>2, <3>3, <3>5, <3>6, <3>7, Zenon DEF Parameters
  <2>5. s = Answer(code, ps) /\ st.of = code
    BY <1>1, <2>1
  <2>6. s \in Seq(Nat) /\ Len(s) >= 3 /\ s[1] = START_CMD /\ s[2] = code + REPLY_FLAG
    BY <2>3, <2>4, <2>5, AnswerIs
  <2>7. ByteOf(s, 1) = START_CMD /\ ByteOf(s, 2) = code + REPLY_FLAG
    BY <2>6 DEF ByteOf
  <2>8. 1 \in 1..(TimeoutChar + 1) /\ \A j \in 1..(TimeoutChar + 1) : ~ j < 1
    BY TimeoutAssumption
  <2>9. Min(Stops(s)) = 1
    BY <2>7, <2>8, StopsAt, Zenon
  <2>10. code + REPLY_FLAG = cmd + REPLY_FLAG
    <3>1. 1 + 1 = 2
      OBVIOUS
    <3> QED BY <1>2, <2>7, <2>9, <3>1, Zenon
  <2>11. code = cmd
    BY <2>3, <2>10 DEF REPLY_FLAG
  <2> QED BY <2>3, <2>5, <2>11
<1>4. CASE st = [of |-> Code.GET_DATABUF_TCP_CMD,
                 bytes |-> <<DUMMY_DATA>> \o Answer16(Code.GET_DATABUF_TCP_CMD, <<1, 2>>)]
  <2>1. s = <<DUMMY_DATA>> \o Answer16(Code.GET_DATABUF_TCP_CMD, <<1, 2>>)
        /\ st.of = Code.GET_DATABUF_TCP_CMD
    BY <1>1, <1>4, Zenon
  <2>2. Answer16(Code.GET_DATABUF_TCP_CMD, <<1, 2>>)
          = (<<224, 197, 1, 0, 2>> \o <<1, 2>>) \o <<238>>
    <3>1. Len(<<1, 2>>) = 2
      OBVIOUS
    <3> QED BY <3>1, CodesAre DEF Answer16, START_CMD, REPLY_FLAG, END_CMD
  <2>3. PICK a : a = (<<224, 197, 1, 0, 2>> \o <<1, 2>>) \o <<238>>
    OBVIOUS
  <2>4. a \in Seq(Nat) /\ Len(a) = 8 /\ a[1] = 224 /\ a[2] = 197
    BY <2>3
  <2>5. <<DUMMY_DATA>> \in Seq(Nat) /\ Len(<<DUMMY_DATA>>) = 1 /\ <<DUMMY_DATA>>[1] = 255
    BY DEF DUMMY_DATA
  <2>6. s = <<DUMMY_DATA>> \o a
    BY <2>1, <2>2, <2>3, Zenon
  <2>7. Len(s) = 9 /\ s[1] = 255 /\ s[2] = 224 /\ s[3] = 197
    <3>1. PICK d : d = <<DUMMY_DATA>>
      OBVIOUS
    <3>2. d \in Seq(Nat) /\ Len(d) = 1 /\ d[1] = 255 /\ s = d \o a
      BY <2>5, <2>6, <3>1, Zenon
    <3>3. d \in Seq(Nat) /\ a \in Seq(Nat) /\ s = d \o a
      BY <2>4, <3>2
    <3>4. Len(s) = 9
      <4>1. Len(s) = Len(d) + Len(a)
        BY <3>3, Heads, Zenon
      <4> QED BY <2>4, <3>2, <4>1
    <3>5. 1 \in Nat /\ 2 \in Nat /\ 1 <= 1 /\ 1 <= 2 /\ 1 <= Len(d) /\ 1 <= Len(a) /\ 2 <= Len(a)
      BY <2>4, <3>2
    <3>6. (d \o a)[1] = d[1]
      BY <3>3, <3>5, InFront, Zenon
    <3>7. (d \o a)[Len(d) + 1] = a[1]
      BY <3>3, <3>5, Behind, Zenon
    <3>8. (d \o a)[Len(d) + 2] = a[2]
      BY <3>3, <3>5, Behind, Zenon
    <3>9. Len(d) + 1 = 2 /\ Len(d) + 2 = 3
      BY <3>2
    <3>10. s[1] = d[1] /\ s[2] = a[1] /\ s[3] = a[2]
      BY <3>3, <3>6, <3>7, <3>8, <3>9, Zenon
    <3> QED BY <2>4, <3>2, <3>4, <3>10
  <2>8. ByteOf(s, 1) = 255 /\ ByteOf(s, 2) = 224 /\ ByteOf(s, 3) = 197
    BY <2>7 DEF ByteOf
  <2>9. TimeoutChar # 0
    BY <1>2, <2>8, TimeoutAssumption DEF Stops, START_CMD, ERR_CMD
  <2>10. /\ 2 \in 1..(TimeoutChar + 1) /\ ByteOf(s, 2) \in {START_CMD, ERR_CMD}
         /\ \A j \in 1..(TimeoutChar + 1) : j < 2 => ByteOf(s, j) \notin {START_CMD, ERR_CMD}
    BY <2>8, <2>9, TimeoutAssumption DEF START_CMD, ERR_CMD
  <2>11. Min(Stops(s)) = 2
    BY <2>10, StopsAt, Zenon
  <2>12. 197 = cmd + 128
    BY <1>2, <2>8, <2>11 DEF REPLY_FLAG
  <2> QED BY <2>1, <2>12, CodesAre
<1>5. CASE st = [of |-> 0, bytes |-> <<>>] \/ st = [of |-> 0, bytes |-> <<ERR_CMD, 0, END_CMD>>]
  <2>1. CASE st = [of |-> 0, bytes |-> <<>>]
    BY <1>1, <2>1, LostIsNoReply, Zenon DEF Lost
  <2>2. CASE st = [of |-> 0, bytes |-> <<ERR_CMD, 0, END_CMD>>]
    BY <1>1, <2>2, LostIsNoReply, Zenon DEF Lost
  <2> QED BY <1>5, <2>1, <2>2
<1> QED BY <1>3, <1>4, <1>5 DEF Answers

(***************************************************************************)
(* The two properties of the calls.                                        *)
(***************************************************************************)
LEMMA CallsKeep ==
  ASSUME CallNext
  PROVE  FrameWhole' /\ NoAnswerNoSuccess'
<1>1. PICK st \in Answers :
        \/ \E c \in WiFiCalls(st.bytes) \cup ServerCalls(st.bytes) : Perform(c, "any", st)
        \/ \E c \in ServerWaits(st.bytes) : Perform(c, "availServer", st)
        \/ \E c \in BufferReads(st.bytes) : Perform(c, "getDataBuf", st)
  BY Zenon DEF CallNext
<1>2. ASSUME NEW c, NEW name, Perform(c, name, st), Good(c, st.bytes),
             name = "availServer" =>
               (/\ c.frame.cmd \in Nat
                /\ ~ IsReplyTo(c.frame.cmd, st.bytes) => c.value \in {<< 0 >>, NO_SOCKET_AVAIL}),
             name = "getDataBuf" =>
               (/\ c.frame.cmd \in Nat
                /\ ~ IsReplyTo(c.frame.cmd, st.bytes) => c.value \in {<<>>, OldBytes})
      PROVE  FrameWhole' /\ NoAnswerNoSuccess'
  <2>1. call' = c /\ function' = name /\ (heard' <=> st.of # 0 /\ st.of = c.frame.cmd)
    BY <1>2, Zenon DEF Perform
  <2>2. FrameWhole'
    BY <1>2, <2>1, Zenon DEF FrameWhole, Good, FrameIsWhole
  <2>3. ASSUME c.frame.cmd \in Nat, IsReplyTo(c.frame.cmd, st.bytes) PROVE heard'
    BY <2>1, <2>3, AnswerTells, Zenon
  <2> DEFINE excepted == \/ name = "availServer" /\ c.value = <<0>>
                         \/ name = "getDataBuf" /\ c.value = OldBytes
  <2>4. ASSUME Success' PROVE heard' \/ excepted
    <3>1. \/ Succeeds(c)
          \/ name = "availServer" /\ c.value # NO_SOCKET_AVAIL
          \/ name = "getDataBuf" /\ c.value # <<>>
      BY <2>1, <2>4, Zenon DEF Success, Succeeds
    <3>2. CASE Succeeds(c)
      <4>1. c.frame.cmd \in Telling
        BY <3>2, Zenon DEF Succeeds, Telling, Others
      <4>2. c.frame.cmd \in Nat
        BY <4>1, CodesAre DEF Telling, Verdicts, YesOrNo, Others, Counts
      <4>3. IsReplyTo(c.frame.cmd, st.bytes)
        BY <1>2, <3>2, Zenon DEF Good
      <4> QED BY <2>3, <4>2, <4>3
    <3>3. CASE name = "availServer" /\ c.value # NO_SOCKET_AVAIL
      BY <1>2, <2>3, <3>3, Zenon
    <3>4. CASE name = "getDataBuf" /\ c.value # <<>>
      BY <1>2, <2>3, <3>4, Zenon
    <3> QED BY <3>1, <3>2, <3>3, <3>4
  <2>5. NoAnswerNoSuccess'
    BY <2>1, <2>4, Zenon DEF NoAnswerNoSuccess
  <2> QED BY <2>2, <2>5
<1>3. ASSUME NEW c \in WiFiCalls(st.bytes) \cup ServerCalls(st.bytes), Perform(c, "any", st)
      PROVE  FrameWhole' /\ NoAnswerNoSuccess'
  <2>1. Good(c, st.bytes)
    BY WiFiCallsAreGood, ServerCallsAreGood, Zenon
  <2>2. "any" \notin {"availServer", "getDataBuf"}
    OBVIOUS
  <2> QED BY <1>2, <1>3, <2>1, <2>2, Zenon
<1>4. ASSUME NEW c \in ServerWaits(st.bytes), Perform(c, "availServer", st)
      PROVE  FrameWhole' /\ NoAnswerNoSuccess'
  <2>1. "availServer" # "getDataBuf"
    OBVIOUS
  <2> QED BY <1>2, <1>4, <2>1, ServerWaitsAreGood, Zenon
<1>5. ASSUME NEW c \in BufferReads(st.bytes), Perform(c, "getDataBuf", st)
      PROVE  FrameWhole' /\ NoAnswerNoSuccess'
  <2>1. "availServer" # "getDataBuf"
    OBVIOUS
  <2> QED BY <1>2, <1>5, <2>1, BufferReadsAreGood, Zenon
<1> QED BY <1>1, <1>3, <1>4, <1>5, Zenon

\* At first no call was made.
LEMMA NoneYet == CallInit => FrameWhole /\ NoAnswerNoSuccess
<1> SUFFICES ASSUME CallInit PROVE FrameWhole /\ NoAnswerNoSuccess
  OBVIOUS
<1>1. call.frame.cmd = 0 /\ function = "any"
  BY Zenon DEF CallInit, NoCall, Call, ReadChars, Piece
<1>2. 0 \notin Telling
  BY CodesAre DEF Telling, Verdicts, YesOrNo, Others, Counts
<1>3. "any" # "availServer" /\ "any" # "getDataBuf"
  OBVIOUS
<1> QED BY <1>1, <1>2, <1>3, Zenon DEF FrameWhole, NoAnswerNoSuccess, Success, Telling, Others

\* Whatever lengths the strings and the buffers have, a frame has the parameters it
\* announces, its end after the last of them, and whole words (but for the five that are
\* padded otherwise).
THEOREM FramesAreWhole == CallSpec => []FrameWhole
<1>1. FrameWhole /\ [CallNext]_callVars => FrameWhole'
  <2>1. FrameWhole /\ UNCHANGED callVars => FrameWhole'
    BY Zenon DEF FrameWhole, callVars
  <2> QED BY <2>1, CallsKeep, Zenon
<1> QED BY <1>1, NoneYet, PTL DEF CallSpec

\* However the module answers, and whatever is skipped before its answer, a call that
\* reports a success was answered, but for availServer() that names socket 0 and
\* getDataBuf() that hands over what was in the buffer before.
THEOREM SuccessIsAnswered == CallSpec => []NoAnswerNoSuccess
<1>1. NoAnswerNoSuccess /\ [CallNext]_callVars => NoAnswerNoSuccess'
  <2>1. ASSUME NoAnswerNoSuccess, UNCHANGED callVars PROVE NoAnswerNoSuccess'
    <3>1. call' = call /\ function' = function /\ heard' = heard
      BY <2>1, Zenon DEF callVars
    <3>2. Success' <=> Success
      BY <3>1, Zenon DEF Success
    <3> QED BY <2>1, <3>1, <3>2, Zenon DEF NoAnswerNoSuccess
  <2> QED BY <2>1, CallsKeep, Zenon
<1> QED BY <1>1, NoneYet, PTL DEF CallSpec

(***************************************************************************)
(* Replies: one parameter, or a list of names.                             *)
(***************************************************************************)

\* The bytes of what is put between three bytes and an end.
LEMMA Between ==
  ASSUME NEW a \in Seq(Nat), Len(a) = 3, NEW b \in Seq(Nat), NEW c \in Seq(Nat)
  PROVE  /\ \A i \in 1..3 : ByteOf((a \o b) \o c, i) = a[i]
         /\ \A i \in 1..Len(b) : ByteOf((a \o b) \o c, 3 + i) = b[i]
<1>1. PICK x \in Seq(Nat) : x = a \o b
  BY Heads
<1>2. PICK n \in Nat : n = Len(b)
  BY LenProperties
<1>3. PICK m \in Nat : m = Len(c)
  BY LenProperties
<1>4. Len(x) = 3 + n
  <2>1. Len(x) = Len(a) + Len(b)
    BY <1>1, Heads, Zenon
  <2> QED BY <1>2, <2>1
<1>5. PICK y \in Seq(Nat) : y = x \o c
  BY Heads
<1>6. Len(y) = 3 + n + m
  <2>1. Len(y) = Len(x) + Len(c)
    BY <1>5, Heads, Zenon
  <2> QED BY <1>3, <1>4, <2>1
<1>7. \A i \in 1..(3 + n) : y[i] = x[i] /\ i <= Len(y)
  <2> TAKE i \in 1..(3 + n)
  <2>1. i \in Nat /\ 1 <= i /\ i <= Len(x)
    BY <1>4
  <2>2. y[i] = x[i]
    BY <1>5, <2>1, InFront, Zenon
  <2> QED BY <1>6, <2>2
<1>8. \A i \in 1..3 : x[i] = a[i] /\ i \in 1..(3 + n)
  <2> TAKE i \in 1..3
  <2>1. i \in Nat /\ 1 <= i /\ i <= Len(a)
    OBVIOUS
  <2>2. x[i] = a[i]
    BY <1>1, <2>1, InFront, Zenon
  <2> QED BY <2>2
<1>9. \A i \in 1..n : x[3 + i] = b[i] /\ 3 + i \in 1..(3 + n)
  <2> TAKE i \in 1..n
  <2>1. i \in Nat /\ 1 <= i /\ i <= Len(b)
    BY <1>2
  <2>2. x[Len(a) + i] = b[i]
    BY <1>1, <2>1, Behind, Zenon
  <2>3. Len(a) + i = 3 + i
    OBVIOUS
  <2>4. x[3 + i] = b[i]
    BY <2>2, <2>3, Zenon
  <2> QED BY <2>4
<1>10. \A i \in 1..3 : ByteOf(y, i) = a[i]
  BY <1>7, <1>8, Zenon DEF ByteOf
<1>11. \A i \in 1..n : ByteOf(y, 3 + i) = b[i]
  BY <1>7, <1>9, Zenon DEF ByteOf
<1> QED BY <1>1, <1>2, <1>5, <1>10, <1>11, Zenon

\* What is read of an answer: what it answers, how many parameters it has, and these.
LEMMA AnswerReads ==
  ASSUME NEW cmd \in Nat, NEW q, NEW E \in Seq(Nat),
         E = FlattenSeq([i \in 1..Len(q) |-> <<Len(q[i])>> \o q[i]]), Len(q) \in Nat
  PROVE  LET s == WiFiAnswer(cmd, q)
         IN /\ IsReplyTo(cmd, s) /\ ParamPos(s) = 3 /\ ByteOf(s, 3) = Len(q)
            /\ \A i \in 1..Len(E) : ByteOf(s, 3 + i) = E[i]
<1>1. PICK A : A = <<START_CMD, cmd + REPLY_FLAG, Len(q)>>
  OBVIOUS
<1>2. /\ A \in Seq(Nat) /\ Len(A) = 3 /\ A[1] = START_CMD /\ A[2] = cmd + REPLY_FLAG
      /\ A[3] = Len(q)
  BY <1>1 DEF START_CMD, REPLY_FLAG
<1>3. PICK Z : Z = <<END_CMD>>
  OBVIOUS
<1>4. Z \in Seq(Nat)
  BY <1>3 DEF END_CMD
<1>5. PICK s : s = WiFiAnswer(cmd, q)
  OBVIOUS
<1>6. s = (A \o E) \o Z
  BY <1>1, <1>3, <1>5, Zenon DEF WiFiAnswer
<1>7. /\ \A i \in 1..3 : ByteOf(s, i) = A[i]
      /\ \A i \in 1..Len(E) : ByteOf(s, 3 + i) = E[i]
  BY <1>2, <1>4, <1>6, Between, ZenonT(30)
<1>8. 1 \in 1..3 /\ 2 \in 1..3 /\ 3 \in 1..3
  OBVIOUS
<1>9. ByteOf(s, 1) = START_CMD /\ ByteOf(s, 2) = cmd + REPLY_FLAG /\ ByteOf(s, 3) = Len(q)
  BY <1>2, <1>7, <1>8, Zenon
<1>10. IsReplyTo(cmd, s) /\ ParamPos(s) = 3
  <2>1. ByteOf(s, 1) \in {START_CMD, ERR_CMD}
    BY <1>9, Zenon
  <2> QED BY <1>9, <2>1, AtOnce
<1> QED BY <1>5, <1>7, <1>9, <1>10, Zenon

\* A reply with one parameter is that parameter, or was lost.
LEMMA ReplyIs ==
  ASSUME NEW cmd \in Nat, NEW p \in Seq(Nat), NEW s \in Replies(cmd, <<p>>)
  PROVE  \/ waitResponseCmd(cmd, 1, s) = Refused /\ s \in Lost
         \/ waitResponseCmd(cmd, 1, s) = Accepted(p)
<1>1. CASE s \in Lost
  BY <1>1, LostIsNoReply, Zenon DEF waitResponseCmd
<1>2. CASE s = WiFiAnswer(cmd, <<p>>)
  <2>1. PICK q : q = <<p>>
    OBVIOUS
  <2>2. Len(q) = 1 /\ q[1] = p
    BY <2>1
  <2>3. PICK n \in Nat : n = Len(p)
    BY LenProperties
  <2>4. PICK e : e = <<n>> \o p
    OBVIOUS
  <2>5. PICK d \in Seq(Nat) : d = <<n>> /\ Len(d) = 1 /\ d[1] = n
    <3>1. <<n>> \in Seq(Nat) /\ Len(<<n>>) = 1 /\ <<n>>[1] = n
      OBVIOUS
    <3> QED BY <3>1, Zenon
  <2>6. e \in Seq(Nat)
    BY <2>4, <2>5, Heads, Zenon
  <2>7. Len(e) = 1 + n
    <3>1. Len(e) = Len(d) + Len(p)
      BY <2>4, <2>5, Heads, Zenon
    <3> QED BY <2>3, <2>5, <3>1
  <2>8. e[1] = n
    <3>1. 1 \in Nat /\ 1 <= 1 /\ 1 <= Len(d)
      BY <2>5
    <3>2. e[1] = d[1]
      BY <2>4, <2>5, <3>1, InFront, Zenon
    <3> QED BY <2>5, <3>2
  <2>9. \A j \in 1..n : e[1 + j] = p[j]
    <3> TAKE j \in 1..n
    <3>1. j \in Nat /\ 1 <= j /\ j <= Len(p)
      BY <2>3
    <3>2. (d \o p)[Len(d) + j] = p[j]
      BY <3>1, Behind, Zenon
    <3> QED BY <2>4, <2>5, <3>2, Zenon
  <2>10. PICK t : t = [i \in 1..Len(q) |-> <<Len(q[i])>> \o q[i]]
    OBVIOUS
  <2>11. t \in Seq(Seq(Nat)) /\ Len(t) = 1 /\ t[1] = e
    <3>1. \A i \in 1..1 : i = 1
      OBVIOUS
    <3>2. \A i \in 1..1 : <<Len(q[i])>> \o q[i] = e
      BY <2>2, <2>3, <2>4, <3>1, Zenon
    <3>3. t = [i \in 1..1 |-> e]
      BY <2>2, <2>10, <3>2, Zenon
    <3> QED BY <2>6, <3>3
  <2>12. t # <<>>
    <3>1. Len(<<>>) = 0 /\ 0 # 1
      BY EmptySeq
    <3> QED BY <2>11, <3>1, Zenon
  <2>13. FlattenSeq(t) = e
    BY <2>11, <2>12, Flattening, Zenon
  <2>14. Len(q) \in Nat
    BY <2>2
  <2>15. /\ IsReplyTo(cmd, s) /\ ParamPos(s) = 3 /\ ByteOf(s, 3) = Len(q)
         /\ \A i \in 1..Len(e) : ByteOf(s, 3 + i) = e[i]
    <3>1. e = FlattenSeq([i \in 1..Len(q) |-> <<Len(q[i])>> \o q[i]])
      BY <2>10, <2>13, Zenon
    <3>2. s = WiFiAnswer(cmd, q)
      BY <1>2, <2>1, Zenon
    <3> QED BY <2>6, <2>14, <3>1, <3>2, AnswerReads, Zenon
  <2>16. 3 + 1 = 4 /\ 1 \in 1..Len(e)
    BY <2>7
  <2>17. ByteOf(s, 4) = n
    BY <2>8, <2>15, <2>16, Zenon
  <2>18. \A j \in 1..n : ByteOf(s, 4 + j) = p[j]
    <3> TAKE j \in 1..n
    <3>1. 1 + j \in 1..Len(e) /\ 3 + (1 + j) = 4 + j
      BY <2>7
    <3> QED BY <2>9, <2>15, <3>1, Zenon
  <2>19. p = [j \in 1..n |-> p[j]]
    BY <2>3
  <2>20. Copy(s, 4, n) = p
    BY <2>18, <2>19, Zenon DEF Copy
  <2> QED BY <2>2, <2>15, <2>16, <2>17, <2>20, Zenon DEF waitResponseCmd
<1> QED BY <1>1, <1>2, Zenon DEF Replies

\* The lengths of the parameters of an answer follow one another.
LEMMA LengthsFollow ==
  ASSUME NEW s
  PROVE  /\ LengthPos(s)[1] = ParamPos(s) + 1
         /\ \A i \in 2..256 : LengthPos(s)[i]
              = LengthPos(s)[i - 1] + ByteOf(s, LengthPos(s)[i - 1]) + 1
<1> DEFINE H(f, i) == IF i = 1 THEN ParamPos(s) + 1 ELSE f[i - 1] + ByteOf(s, f[i - 1]) + 1
           G(f, k) == f = [i \in 1..k |-> H(f, i)]
           P == {k \in Nat : \E f : G(f, k)}
<1>1. 0 \in P
  <2>1. G([i \in 1..0 |-> i], 0)
    OBVIOUS
  <2> QED BY <2>1
<1>2. ASSUME NEW k \in Nat, k \in P PROVE k + 1 \in P
  <2>1. PICK f : G(f, k)
    BY <1>2
  <2> DEFINE g == [i \in 1..(k + 1) |-> H(f, i)]
  <2>2. \A i \in 1..k : f[i] = H(f, i)
    <3> HIDE DEF H
    <3> QED BY <2>1, Zenon
  <2>3. \A i \in 1..(k + 1) : g[i] = H(f, i)
    <3> HIDE DEF H
    <3> QED BY Zenon
  <2>4. ASSUME NEW i \in 1..(k + 1), i # 1 PROVE f[i - 1] = g[i - 1]
    <3>1. i - 1 \in 1..k /\ i - 1 \in 1..(k + 1)
      BY <2>4
    <3> HIDE DEF g, H
    <3> QED BY <2>2, <2>3, <3>1, Zenon
  <2>5. \A i \in 1..(k + 1) : H(f, i) = H(g, i)
    <3> HIDE DEF g
    <3> QED BY <2>4, Zenon
  <2>6. G(g, k + 1)
    <3> HIDE DEF H
    <3> QED BY <2>5, Zenon
  <2> HIDE DEF G, g
  <2> QED BY <2>6
<1> HIDE DEF P
<1>3. \A k \in Nat : k \in P
  BY <1>1, <1>2, Induction, Zenon
<1>4. PICK m \in Nat : m = 256
  OBVIOUS
<1>5. \E f : G(f, m)
  BY <1>3, <1>4, Zenon DEF P
<1>6. LengthPos(s) = CHOOSE f : f = [i \in 1..m |-> H(f, i)]
  BY <1>4, Zenon DEF LengthPos
<1>7. LengthPos(s) = [i \in 1..m |-> H(LengthPos(s), i)]
  <2> DEFINE q == CHOOSE f : G(f, m)
  <2>1. G(q, m)
    BY <1>5, Zenon
  <2> QED BY <1>6, <2>1, Zenon
<1>8. PICK p : p = LengthPos(s)
  OBVIOUS
<1>9. \A i \in 1..m : p[i] = H(p, i)
  <2> HIDE DEF H
  <2> QED BY <1>7, <1>8, Zenon
<1>10. 1 \in 1..m /\ \A i \in 2..m : i \in 1..m /\ i # 1
  BY <1>4
<1>11. p[1] = ParamPos(s) + 1 /\ \A i \in 2..m : p[i] = p[i - 1] + ByteOf(s, p[i - 1]) + 1
  BY <1>9, <1>10, Zenon
<1> QED BY <1>4, <1>8, <1>11, Zenon

(***************************************************************************)
(* What the functions of the WiFi object make of them.                     *)
(***************************************************************************)

\* What a buffer holds after a reply.
LEMMA BufferHolds ==
  ASSUME NEW p, NEW old
  PROVE  /\ Buffer(Refused, old) = old /\ OrFailure(Refused) = WL_FAILURE
         /\ p # <<>> => Buffer(Accepted(p), old) = p /\ OrFailure(Accepted(p)) = p
         /\ ~ Refused.ok /\ Accepted(p).ok
<1>1. ~ Refused.ok /\ Refused.data = <<>> /\ Accepted(p).ok /\ Accepted(p).data = p
  BY Zenon DEF Refused, Accepted
<1> QED BY <1>1, Zenon DEF Buffer, OrFailure

LEMMA BufferEither ==
  ASSUME NEW p, NEW old, NEW r, r = Refused \/ r = Accepted(p)
  PROVE  Buffer(r, old) = p \/ Buffer(r, old) = old
<1>1. CASE r = Refused
  BY <1>1, BufferHolds, Zenon
<1>2. CASE r = Accepted(p)
  <2>1. r.data = p
    BY <1>2, Zenon DEF Accepted
  <2> QED BY <2>1, Zenon DEF Buffer
<1> QED BY <1>1, <1>2

\* The commands the WiFi object waits for.
LEMMA CommandsAreNat ==
  /\ Code.SET_NET_CMD \in Nat /\ Code.SET_AP_NET_CMD \in Nat
  /\ Code.GET_CONN_STATUS_CMD \in Nat /\ Code.GET_CURR_SSID_CMD \in Nat
  /\ Code.REQ_HOST_BY_NAME_CMD \in Nat /\ Code.GET_HOST_BY_NAME_CMD \in Nat
  /\ Code.PING_CMD \in Nat /\ Code.SCAN_NETWORKS \in Nat
BY CodesAre

\* The status is the module's, or 255 for none.
LEMMA StatusIs ==
  ASSUME NEW p \in Seq(Nat), p # <<>>, NEW s \in Replies(Code.GET_CONN_STATUS_CMD, <<p>>)
  PROVE  getConnectionStatus(s).value \in {p, <<255>>}
<1>1. PICK r : r = waitResponseCmd(Code.GET_CONN_STATUS_CMD, 1, s)
  OBVIOUS
<1>2. r = Refused \/ r = Accepted(p)
  BY <1>1, CommandsAreNat, ReplyIs, Zenon
<1>3. PICK old : old = <<255>>
  OBVIOUS
<1>4. getConnectionStatus(s).value = Buffer(r, old)
  BY <1>1, <1>3, Zenon DEF getConnectionStatus, Plain, Call
<1>5. Buffer(r, old) = p \/ Buffer(r, old) = old
  BY <1>2, BufferEither, Zenon
<1> QED BY <1>3, <1>4, <1>5, Zenon

\* The name is the one answered, or none.
LEMMA NameIs ==
  ASSUME NEW p \in Seq(Nat), NEW s \in Replies(Code.GET_CURR_SSID_CMD, <<p>>)
  PROVE  getCurrentSSID(s).value \in {p, <<>>}
<1>1. PICK r : r = waitResponseCmd(Code.GET_CURR_SSID_CMD, 1, s)
  OBVIOUS
<1>2. r = Refused \/ r = Accepted(p)
  BY <1>1, CommandsAreNat, ReplyIs, Zenon
<1>3. PICK old : old = <<>>
  OBVIOUS
<1>4. getCurrentSSID(s).value = Buffer(r, old)
  BY <1>1, <1>3, Zenon DEF getCurrentSSID, Asking, Call
<1>5. Buffer(r, old) = p \/ Buffer(r, old) = old
  BY <1>2, BufferEither, Zenon
<1> QED BY <1>3, <1>4, <1>5, Zenon

\* Only an acknowledgement is taken for one.
LEMMA AcknowledgedIs ==
  ASSUME NEW frame, NEW cmd \in Nat, Whole(frame, cmd), NEW p \in Seq(Nat), p # <<>>,
         NEW s \in Replies(cmd, <<p>>), Acknowledged(Setting(frame, s)).value # WL_FAILURE
  PROVE  p = <<1>>
<1>1. PICK r : r = waitResponseCmd(cmd, 1, s)
  OBVIOUS
<1>2. r = Refused \/ r = Accepted(p)
  BY <1>1, ReplyIs, Zenon
<1>3. frame.cmd = cmd
  BY WholeIs, Zenon
<1>4. Setting(frame, s) = [frame |-> frame, answered |-> r.ok, value |-> OrFailure(r)]
  BY <1>1, <1>3, Zenon DEF Setting, Call
<1>5. OrFailure(r) = WIFI_SPI_ACK
  <2>1. PICK v : v = OrFailure(r)
    OBVIOUS
  <2>2. PICK a : Setting(frame, s) = [frame |-> frame, answered |-> a, value |-> v]
    BY <1>4, <2>1, Zenon
  <2>3. Acknowledged(Setting(frame, s)).value
          = IF v = WIFI_SPI_ACK THEN WL_SUCCESS ELSE WL_FAILURE
    <3>1. PICK c : c = Setting(frame, s)
      OBVIOUS
    <3>2. Acknowledged(c)
            = [c EXCEPT !.value = IF c.value = WIFI_SPI_ACK THEN WL_SUCCESS ELSE WL_FAILURE]
      BY Zenon DEF Acknowledged
    <3>3. Acknowledged(c).value = IF c.value = WIFI_SPI_ACK THEN WL_SUCCESS ELSE WL_FAILURE
      BY <2>2, <3>1, <3>2, Zenon
    <3>4. c.value = v
      <4>1. c = [frame |-> frame, answered |-> a, value |-> v]
        BY <2>2, <3>1, Zenon
      <4> QED BY <4>1
    <3> QED BY <3>1, <3>3, <3>4, Zenon
  <2> QED BY <2>1, <2>3, Zenon
<1>6. WL_FAILURE # <<1>>
  BY DEF WL_FAILURE
<1> QED BY <1>2, <1>5, <1>6, BufferHolds, Zenon DEF WIFI_SPI_ACK

\* begin() and beginAP() without a password go on only where the module took the network.
LEMMA SetUpTells ==
  ASSUME NEW op \in {"begin", "beginAP"}, NEW ack \in {0, 1},
         NEW s \in Replies(Command(op), << <<ack>> >>), SetUp(op, s).value # WL_FAILURE
  PROVE  ack = 1
<1>1. <<ack>> \in Seq(Nat) /\ <<ack>> # <<>> /\ (<<ack>> = <<1>> => ack = 1) /\ 1 \in Nat
  OBVIOUS
<1>2. CASE op = "begin"
  <2>1. Command(op) = Code.SET_NET_CMD /\ SetUp(op, s) = wifiSetNetwork(1, s)
    BY <1>2, Zenon DEF Command, SetUp
  <2>2. PICK f : f = SendCmd(Code.SET_NET_CMD, 1) ++ LastParam(1) ++ Pad(5 + 1)
    OBVIOUS
  <2>3. Whole(f, Code.SET_NET_CMD) /\ SetUp(op, s) = Acknowledged(Setting(f, s))
    BY <1>1, <2>1, <2>2, StringFrame, Zenon DEF wifiSetNetwork
  <2>4. <<ack>> = <<1>>
    BY <1>1, <2>1, <2>3, CommandsAreNat, AcknowledgedIs, Zenon
  <2> QED BY <1>1, <2>4, Zenon
<1>3. CASE op = "beginAP"
  <2>1. "beginAP" # "begin" /\ "beginAP" # "beginKey" /\ "beginAP" # "beginPass"
        /\ "beginAP" # "beginEnterprise"
    OBVIOUS
  <2>2. Command(op) = Code.SET_AP_NET_CMD /\ SetUp(op, s) = wifiSetApNetwork(1, s)
    BY <1>3, <2>1 DEF Command, SetUp
  <2>3. PICK f : f = SendCmd(Code.SET_AP_NET_CMD, 2) ++ SendParam(1) ++ LastParam(1) ++ Pad(3 + 1)
    OBVIOUS
  <2>4. Whole(f, Code.SET_AP_NET_CMD) /\ SetUp(op, s) = Acknowledged(Setting(f, s))
    BY <1>1, <2>2, <2>3, ApNetFrame, Zenon DEF wifiSetApNetwork
  <2>5. <<ack>> = <<1>>
    BY <1>1, <2>2, <2>4, CommandsAreNat, AcknowledgedIs, Zenon
  <2> QED BY <1>1, <2>5, Zenon
<1> QED BY <1>2, <1>3

\* An address was found, or there is none.
LEMMA ResolvedIs == \A ip \in Resolved : ip \in {<<>>, <<5>>}
<1> DEFINE unknown == <<255, 255, 255, 255>>
           R1 == Replies(Code.REQ_HOST_BY_NAME_CMD, << <<1>> >>)
                   \cup Replies(Code.REQ_HOST_BY_NAME_CMD, << <<0>> >>)
           R2 == Replies(Code.GET_HOST_BY_NAME_CMD, << <<5>> >>)
                   \cup Replies(Code.GET_HOST_BY_NAME_CMD, <<unknown>>)
<1>1. \A t \in R2 : getHostByName(<<0>>, t).value \in {<<>>, <<5>>}
  <2> TAKE t \in R2
  <2>1. PICK u : u = unknown
    OBVIOUS
  <2>2. u \in Seq(Nat) /\ u # <<>> /\ <<5>> \in Seq(Nat) /\ <<5>> # <<>>
    BY <2>1
  <2>3. PICK r : r = waitResponseCmd(Code.GET_HOST_BY_NAME_CMD, 1, t)
    OBVIOUS
  <2>4. r = Refused \/ r = Accepted(<<5>>) \/ r = Accepted(u)
    <3> HIDE DEF unknown
    <3>1. CASE t \in Replies(Code.GET_HOST_BY_NAME_CMD, << <<5>> >>)
      BY <2>2, <2>3, <3>1, CommandsAreNat, ReplyIs, Zenon
    <3>2. CASE t \in Replies(Code.GET_HOST_BY_NAME_CMD, <<u>>)
      BY <2>2, <2>3, <3>2, CommandsAreNat, ReplyIs, Zenon
    <3> QED BY <2>1, <3>1, <3>2, Zenon
  <2>5. getHostByName(<<0>>, t).value
          = IF r.ok /\ Buffer(r, <<0>>) # u THEN Buffer(r, <<0>>) ELSE <<>>
    BY <2>1, <2>3, Zenon DEF getHostByName, Call
  <2> HIDE DEF unknown, R2
  <2>6. CASE r = Refused
    BY <2>5, <2>6, BufferHolds, Zenon
  <2>7. CASE r = Accepted(u)
    BY <2>2, <2>5, <2>7, BufferHolds, Zenon
  <2>8. CASE r = Accepted(<<5>>)
    <3>1. PICK x : x = <<5>>
      OBVIOUS
    <3>2. Buffer(r, <<0>>) = x
      BY <2>2, <2>8, <3>1, BufferHolds, Zenon
    <3> QED BY <2>5, <3>1, <3>2, Zenon
  <2> QED BY <2>4, <2>6, <2>7, <2>8
<1>2. Resolved = {IF reqHostByName(1, s).value = <<1>>
                  THEN getHostByName(<<0>>, t).value ELSE <<>> :
                    s \in R1, t \in R2}
  BY DEF Resolved
<1> HIDE DEF R1, R2, unknown
<1>3. ASSUME NEW ip \in Resolved PROVE ip \in {<<>>, <<5>>}
  <2> DEFINE F(s, t) == IF reqHostByName(1, s).value = <<1>>
                        THEN getHostByName(<<0>>, t).value ELSE <<>>
  <2>1. Resolved = {F(s, t) : s \in R1, t \in R2}
    BY <1>2
  <2> HIDE DEF F
  <2>2. PICK s \in R1, t \in R2 : ip = F(s, t)
    BY <2>1
  <2> QED BY <1>1, <2>2, Zenon DEF F
<1> QED BY <1>3, Zenon

LEMMA PingedIs == \A reply \in Pinged : reply \in {WL_PING_ERROR, WL_PING_UNKNOWN_HOST, <<20, 0>>}
<1>1. ASSUME NEW s \in Replies(Code.PING_CMD, << <<20, 0>> >>)
      PROVE  ping(<<0, 0>>, s).value \in {WL_PING_ERROR, <<20, 0>>}
  <2>1. <<20, 0>> \in Seq(Nat) /\ <<20, 0>> # <<>>
    OBVIOUS
  <2>2. PICK r : r = waitResponseCmd(Code.PING_CMD, 1, s)
    OBVIOUS
  <2>3. r = Refused \/ r = Accepted(<<20, 0>>)
    BY <2>1, <2>2, CommandsAreNat, ReplyIs, Zenon
  <2>4. ping(<<0, 0>>, s).value = IF r.ok THEN Buffer(r, <<0, 0>>) ELSE WL_PING_ERROR
    BY <2>2, Zenon DEF ping, Call
  <2> QED BY <2>1, <2>3, <2>4, BufferHolds, Zenon
<1> DEFINE F(ip, s) == IF ip = <<>> THEN WL_PING_UNKNOWN_HOST ELSE ping(<<0, 0>>, s).value
<1>2. Pinged = {F(ip, s) : ip \in Resolved, s \in Replies(Code.PING_CMD, << <<20, 0>> >>)}
  BY DEF Pinged
<1> HIDE DEF F
<1>3. ASSUME NEW reply \in Pinged
      PROVE  reply \in {WL_PING_ERROR, WL_PING_UNKNOWN_HOST, <<20, 0>>}
  <2>1. PICK ip \in Resolved, s \in Replies(Code.PING_CMD, << <<20, 0>> >>) : reply = F(ip, s)
    BY <1>2
  <2> QED BY <1>1, <2>1, Zenon DEF F
<1> QED BY <1>3, Zenon

\* The names of a scan, put one after the other with their lengths: a row of n pairs, each a
\* 1 and the name x.
IsPair(d, x) == d \in Seq(Nat) /\ Len(d) = 2 /\ d[1] = 1 /\ d[2] = x
Row(e, n, x) == /\ e \in Seq(Nat) /\ Len(e) = 2 * n
                /\ \A i \in 1..n : e[2 * i - 1] = 1 /\ e[2 * i] = x
Alike(t, k, d) == t = [i \in 1..k |-> d]
LEMMA PairsInARow ==
  ASSUME NEW k \in Nat, k # 0, NEW x \in Nat, NEW t, NEW d, IsPair(d, x), Alike(t, k, d)
  PROVE  Row(FlattenSeq(t), k, x)
<1>1. d \in Seq(Nat) /\ Len(d) = 2 /\ d[1] = 1 /\ d[2] = x
  BY DEF IsPair
<1>2. t = [i \in 1..k |-> d]
  BY DEF Alike
<1>3. t \in Seq(Seq(Nat)) /\ Len(t) = k /\ \A i \in 1..k : t[i] = d
  <2>1. d \in Seq(Nat)
    BY <1>1
  <2>2. t \in Seq(Seq(Nat)) /\ Len(t) = k
    BY <1>2, <2>1
  <2>3. \A i \in 1..k : t[i] = d
    BY <1>2, Zenon
  <2> QED BY <2>2, <2>3
<1>4. t # <<>>
  <2>1. Len(<<>>) = 0
    BY EmptySeq
  <2> QED BY <1>3, <2>1, Zenon
<1>5. PICK f : /\ FlattenSeq(t) = f[k] /\ f[1] = t[1]
               /\ \A i \in 2..k : f[i] = f[i - 1] \o t[i]
  <2>1. \E f : /\ FlattenSeq(t) = f[Len(t)] /\ f[1] = t[1]
               /\ \A i \in 2..Len(t) : f[i] = f[i - 1] \o t[i]
    <3>1. t \in Seq(Seq(Nat))
      BY <1>3
    <3> QED BY <1>4, <3>1, Flattening, Zenon
  <2> QED BY <1>3, <2>1, Zenon
<1> DEFINE P == {n \in Nat : n + 1 \in 1..k => Row(f[n + 1], n + 1, x)}
<1>6. 1 \in 1..k /\ 0 + 1 = 1
  OBVIOUS
<1>7. Row(d, 1, x)
  <2>1. \A i \in 1..1 : 2 * i - 1 = 1 /\ 2 * i = 2
    OBVIOUS
  <2> QED BY <1>1, <2>1 DEF Row
<1>8. ASSUME NEW n \in Nat, NEW e, Row(e, n, x) PROVE Row(e \o d, n + 1, x)
  <2>1. e \in Seq(Nat) /\ Len(e) = 2 * n
    BY <1>8, Zenon DEF Row
  <2>2. e \o d \in Seq(Nat) /\ Len(e \o d) = Len(e) + Len(d)
    BY <1>1, <2>1, Heads, Zenon
  <2>3. Len(e \o d) = 2 * (n + 1)
    BY <1>1, <2>1, <2>2
  <2>4. ASSUME NEW i \in 1..(n + 1) PROVE (e \o d)[2 * i - 1] = 1 /\ (e \o d)[2 * i] = x
    <3>1. CASE i \in 1..n
      <4>1. 2 * i - 1 \in Nat /\ 1 <= 2 * i - 1 /\ 2 * i - 1 <= Len(e)
            /\ 2 * i \in Nat /\ 1 <= 2 * i /\ 2 * i <= Len(e)
        BY <2>1, <3>1
      <4>2. (e \o d)[2 * i - 1] = e[2 * i - 1]
        BY <1>1, <2>1, <4>1, InFront, Zenon
      <4>3. (e \o d)[2 * i] = e[2 * i]
        BY <1>1, <2>1, <4>1, InFront, Zenon
      <4> QED BY <1>8, <3>1, <4>2, <4>3, Zenon DEF Row
    <3>2. CASE i = n + 1
      <4>1. 1 \in Nat /\ 2 \in Nat /\ 1 <= 1 /\ 1 <= 2 /\ 1 <= Len(d) /\ 2 <= Len(d)
        BY <1>1
      <4>2. (e \o d)[Len(e) + 1] = d[1]
        BY <1>1, <2>1, <4>1, Behind, Zenon
      <4>3. (e \o d)[Len(e) + 2] = d[2]
        BY <1>1, <2>1, <4>1, Behind, Zenon
      <4>4. Len(e) + 1 = 2 * i - 1 /\ Len(e) + 2 = 2 * i
        BY <2>1, <3>2
      <4> QED BY <1>1, <4>2, <4>3, <4>4, Zenon
    <3>3. i \in 1..n \/ i = n + 1
      OBVIOUS
    <3> QED BY <3>1, <3>2, <3>3, Zenon
  <2> QED BY <2>2, <2>3, <2>4, Zenon DEF Row
<1>9. 0 \in P
  <2> QED BY <1>3, <1>5, <1>6, <1>7, Zenon
<1>10. ASSUME NEW n \in Nat, n \in P PROVE n + 1 \in P
  <2> SUFFICES ASSUME (n + 1) + 1 \in 1..k PROVE Row(f[(n + 1) + 1], (n + 1) + 1, x)
    OBVIOUS
  <2>1. /\ n + 1 \in 1..k /\ (n + 1) + 1 \in 2..k /\ ((n + 1) + 1) - 1 = n + 1
        /\ n + 1 \in Nat
    OBVIOUS
  <2>2. Row(f[n + 1], n + 1, x)
    BY <1>10, <2>1, Zenon
  <2>3. f[(n + 1) + 1] = f[n + 1] \o d
    BY <1>3, <1>5, <2>1, Zenon
  <2> QED BY <1>8, <2>1, <2>2, <2>3, Zenon
<1> HIDE DEF P
<1>11. \A n \in Nat : n \in P
  BY <1>9, <1>10, Induction, Zenon
<1>12. PICK n \in Nat : n + 1 = k /\ k \in 1..k
  <2>1. k - 1 \in Nat /\ (k - 1) + 1 = k /\ k \in 1..k
    OBVIOUS
  <2> QED BY <2>1, Zenon
<1>13. Row(FlattenSeq(t), k, x)
  BY <1>5, <1>11, <1>12, Zenon DEF P
<1> QED BY <1>13

LEMMA LeastOfTwo ==
  ASSUME NEW a \in Nat, NEW b \in Nat
  PROVE  Min({a, b}) \in Nat /\ Min({a, b}) <= a /\ Min({a, b}) <= b
<1>1. Min({a, b}) = CHOOSE z \in {a, b} : \A y \in {a, b} : z <= y
  BY Zenon DEF Min
<1>2. \E z \in {a, b} : \A y \in {a, b} : z <= y
  OBVIOUS
<1>3. PICK m : m = Min({a, b})
  OBVIOUS
<1>4. m \in {a, b} /\ \A y \in {a, b} : m <= y
  BY <1>1, <1>2, <1>3, Zenon
<1> QED BY <1>3, <1>4

\* Whatever scan an answer lists, all the names read of it are of that scan.
LEMMA ListIs ==
  ASSUME NEW k \in Nat, NEW x \in Nat,
         NEW s \in Replies(Code.SCAN_NETWORKS, [i \in 1..k |-> <<x>>])
  PROVE  \E n \in Nat : getScanNetworks(s).value = [i \in 1..n |-> <<x>>]
<1>1. PICK cmd \in Nat : cmd = Code.SCAN_NETWORKS
  BY CommandsAreNat
<1>2. PICK r : r = waitResponse(Code.SCAN_NETWORKS, WL_NETWORKS_LIST_MAXNUM, s)
  OBVIOUS
<1>3. getScanNetworks(s).value = r.data
  BY <1>2, Zenon DEF getScanNetworks, Call
<1>4. CASE s \in Lost
  <2>1. r = Refused
    BY <1>1, <1>2, <1>4, LostIsNoReply, Zenon DEF waitResponse
  <2>2. r.data = <<>>
    BY <2>1, Zenon DEF Refused
  <2>3. <<>> = [i \in 1..0 |-> <<x>>] /\ 0 \in Nat
    OBVIOUS
  <2> QED BY <1>3, <2>2, <2>3, Zenon
<1>5. CASE s = WiFiAnswer(cmd, [i \in 1..k |-> <<x>>])
  <2>1. PICK q : q = [i \in 1..k |-> <<x>>]
    OBVIOUS
  <2>2. Len(q) = k
    BY <2>1
  <2>3. PICK t : t = [i \in 1..Len(q) |-> <<Len(q[i])>> \o q[i]]
    OBVIOUS
  <2>4. PICK d : d = <<1>> \o <<x>>
    OBVIOUS
  <2>5. d \in Seq(Nat) /\ Len(d) = 2 /\ d[1] = 1 /\ d[2] = x
    <3>1. PICK a \in Seq(Nat) : a = <<1>>
      <4>1. <<1>> \in Seq(Nat)
        OBVIOUS
      <4> QED BY <4>1, Zenon
    <3>2. PICK b \in Seq(Nat) : b = <<x>>
      <4>1. <<x>> \in Seq(Nat)
        OBVIOUS
      <4> QED BY <4>1, Zenon
    <3>3. Len(a) = 1 /\ a[1] = 1 /\ Len(b) = 1 /\ b[1] = x
      BY <3>1, <3>2
    <3>4. d = a \o b
      BY <2>4, <3>1, <3>2, Zenon
    <3>5. d \in Seq(Nat) /\ Len(d) = Len(a) + Len(b)
      BY <3>4, Heads, Zenon
    <3>6. 1 \in Nat /\ 1 <= 1 /\ 1 <= Len(a) /\ 1 <= Len(b) /\ Len(a) + 1 = 2 /\ 1 + 1 = 2
      BY <3>3
    <3>7. (a \o b)[1] = a[1]
      BY <3>6, InFront, Zenon
    <3>8. (a \o b)[Len(a) + 1] = b[1]
      BY <3>6, Behind, Zenon
    <3> QED BY <3>3, <3>4, <3>5, <3>6, <3>7, <3>8, Zenon
  <2>6. t = [i \in 1..k |-> d]
    <3>1. Len(<<x>>) = 1
      OBVIOUS
    <3>2. \A i \in 1..k : <<Len(q[i])>> \o q[i] = d
      BY <2>1, <2>4, <3>1, Zenon
    <3> QED BY <2>2, <2>3, <3>2, Zenon
  <2>7. PICK E \in Seq(Nat) : /\ E = FlattenSeq(t) /\ Len(E) = 2 * k
                              /\ \A i \in 1..k : E[2 * i - 1] = 1 /\ E[2 * i] = x
    <3>1. CASE k = 0
      <4>1. t = <<>>
        BY <2>6, <3>1
      <4>2. FlattenSeq(t) = <<>>
        <5>1. Len(<<>>) = 0
          BY EmptySeq
        <5> QED BY <4>1, <5>1, Zenon DEF FlattenSeq
      <4>3. <<>> \in Seq(Nat) /\ Len(<<>>) = 2 * k
        BY <3>1
      <4>4. 1..k = {}
        BY <3>1
      <4> QED BY <4>2, <4>3, <4>4, Zenon
    <3>2. CASE k # 0
      <4>1. Row(FlattenSeq(t), k, x)
        <5>1. IsPair(d, x) /\ Alike(t, k, d)
          BY <2>5, <2>6, Zenon DEF IsPair, Alike
        <5> QED BY <3>2, <5>1, PairsInARow, Zenon
      <4> QED BY <4>1, Zenon DEF Row
    <3> QED BY <3>1, <3>2, Zenon
  <2>8. /\ IsReplyTo(cmd, s) /\ ParamPos(s) = 3 /\ ByteOf(s, 3) = k
        /\ \A i \in 1..Len(E) : ByteOf(s, 3 + i) = E[i]
    <3>1. E = FlattenSeq([i \in 1..Len(q) |-> <<Len(q[i])>> \o q[i]])
      BY <2>3, <2>7, Zenon
    <3>2. s = WiFiAnswer(cmd, q) /\ Len(q) \in Nat
      BY <1>5, <2>1, <2>2, Zenon
    <3> QED BY <2>2, <3>1, <3>2, AnswerReads, ZenonT(30)
  <2>9. \A i \in 1..k : ByteOf(s, 2 * i + 2) = 1 /\ ByteOf(s, 2 * i + 3) = x
    <3> TAKE i \in 1..k
    <3>1. 2 * i - 1 \in 1..Len(E) /\ 2 * i \in 1..Len(E)
      BY <2>7
    <3>2. ByteOf(s, 3 + (2 * i - 1)) = E[2 * i - 1] /\ ByteOf(s, 3 + 2 * i) = E[2 * i]
      BY <2>8, <3>1, Zenon
    <3>3. 3 + (2 * i - 1) = 2 * i + 2 /\ 3 + 2 * i = 2 * i + 3
      OBVIOUS
    <3> QED BY <2>7, <3>2, <3>3, Zenon
  <2>10. PICK n \in Nat : n = Min({k, 10})
    BY LeastOfTwo
  <2>11. n <= k /\ n <= 10
    <3>1. 10 \in Nat
      OBVIOUS
    <3> QED BY <2>10, <3>1, LeastOfTwo, Zenon
  <2>12. PICK p : p = LengthPos(s)
    OBVIOUS
  <2>13. p[1] = 4
    <3>1. 3 + 1 = 4
      OBVIOUS
    <3> QED BY <2>8, <2>12, <3>1, LengthsFollow, Zenon
  <2>14. \A i \in 2..n : p[i] = p[i - 1] + ByteOf(s, p[i - 1]) + 1
    <3>1. \A i \in 2..n : i \in 2..256
      BY <2>11
    <3> QED BY <2>12, <3>1, LengthsFollow
  <2> DEFINE P == {m \in Nat : m + 1 \in 1..n => p[m + 1] = 2 * (m + 1) + 2}
  <2>15. 0 \in P
    BY <2>13
  <2>16. ASSUME NEW m \in Nat, m \in P PROVE m + 1 \in P
    <3> SUFFICES ASSUME (m + 1) + 1 \in 1..n PROVE p[(m + 1) + 1] = 2 * ((m + 1) + 1) + 2
      OBVIOUS
    <3>1. /\ m + 1 \in 1..n /\ m + 1 \in 1..k /\ (m + 1) + 1 \in 2..n
          /\ ((m + 1) + 1) - 1 = m + 1
      BY <2>11
    <3>2. p[m + 1] = 2 * (m + 1) + 2
      BY <2>16, <3>1, Zenon
    <3>3. ByteOf(s, 2 * (m + 1) + 2) = 1
      BY <2>9, <3>1, Zenon
    <3>4. p[(m + 1) + 1] = (2 * (m + 1) + 2) + 1 + 1
      BY <2>14, <3>1, <3>2, <3>3, Zenon
    <3> QED BY <3>4
  <2> HIDE DEF P
  <2>17. \A m \in Nat : m \in P
    BY <2>15, <2>16, Induction, Zenon
  <2>18. \A i \in 1..n : p[i] = 2 * i + 2
    <3> TAKE i \in 1..n
    <3>1. PICK m \in Nat : m = i - 1
      OBVIOUS
    <3>2. m + 1 = i
      BY <3>1
    <3> QED BY <2>17, <3>2, Zenon DEF P
  <2>19. \A i \in 1..n : Copy(s, p[i], ByteOf(s, p[i])) = <<x>>
    <3> TAKE i \in 1..n
    <3>1. i \in 1..k
      BY <2>11
    <3>2. p[i] = 2 * i + 2 /\ ByteOf(s, p[i]) = 1
      BY <2>9, <2>18, <3>1, Zenon
    <3>3. \A j \in 1..1 : p[i] + j = 2 * i + 3
      BY <3>2
    <3>4. Copy(s, p[i], ByteOf(s, p[i])) = [j \in 1..1 |-> ByteOf(s, p[i] + j)]
      BY <3>2, Zenon DEF Copy
    <3>5. \A j \in 1..1 : ByteOf(s, p[i] + j) = x
      BY <2>9, <3>1, <3>3, Zenon
    <3>6. [j \in 1..1 |-> ByteOf(s, p[i] + j)] = [j \in 1..1 |-> x]
      BY <3>5, Zenon
    <3>7. [j \in 1..1 |-> x] = <<x>>
      OBVIOUS
    <3> QED BY <3>4, <3>6, <3>7, Zenon
  <2>20. Params(s, n) = [i \in 1..n |-> <<x>>]
    <3>1. Params(s, n) = [i \in 1..n |-> Copy(s, p[i], ByteOf(s, p[i]))]
      BY <2>12, Zenon DEF Params
    <3> QED BY <2>19, <3>1, Zenon
  <2>21. r.data = Params(s, n)
    <3>1. r = [ok |-> n # 0, data |-> Params(s, n)]
      BY <1>1, <1>2, <2>8, <2>10, Zenon DEF waitResponse, WL_NETWORKS_LIST_MAXNUM
    <3> QED BY <3>1, Zenon
  <2> QED BY <1>3, <2>20, <2>21, Zenon
<1> QED BY <1>1, <1>4, <1>5, Zenon DEF Replies

(***************************************************************************)
(* The WiFi object.  What its state is made of, and that a begin() or      *)
(* beginAP() without a password waits only for the network the module is   *)
(* on: the module must have taken it for the function to wait, and until   *)
(* the function returns nothing else is asked of the module.               *)
(***************************************************************************)
RadioOK == \E n, st \in Nat : radio = [net |-> n, status |-> st]
DoingOK == \E op, n, left, st : /\ doing = [op |-> op, net |-> n, status |-> st, left |-> left]
                                /\ st \in Waiting
CachedOK == /\ scans \in {0, 1}
            /\ \E ip : \E list \in Seq(Seq(Nat)) : cached = [ip |-> ip, list |-> list]
OnItsNetwork == doing.op \in {"begin", "beginAP"} => radio.net = doing.net
WiFiInv == RadioOK /\ DoingOK /\ CachedOK /\ OnItsNetwork

\* What the two properties say of a step.
Told == /\ Returns({"begin", "beginAP"})
              /\ ret'.value \in {<<WL_CONNECTED>>, <<WL_AP_LISTENING>>}
              => radio.net = doing.net /\ ret'.value = <<radio.status>>
        /\ Returns({"hostByName"}) => ret'.value \in {<<>>, <<5>>}
        /\ Returns({"ping"}) => ret'.value \in {WL_PING_ERROR, WL_PING_UNKNOWN_HOST, <<20, 0>>}
Fresh == /\ Returns({"SSID"}) => ret'.value \in {<<>>, Name}
         /\ Returns({"scan"}) =>
              \A i \in 1..ret'.value[1] : i \in DOMAIN cached'.list
                                          /\ cached'.list[i] = <<scans>>

\* What is of no concern to either property.
Silent == {"none", "beginKey", "beginPass", "beginEnterprise", "beginAPPass", "status", "localIP",
           "disconnect", "end"}
LEMMA NothingSaid ==
  ASSUME ret' = ret \/ \E op \in Silent : \E v : ret' = [op |-> op, value |-> v]
  PROVE  Told /\ Fresh
<1>1. ret' = ret \/ ret'.op \in Silent
  <2>1. CASE ret' = ret
    BY <2>1
  <2>2. ASSUME NEW op \in Silent, NEW v, ret' = [op |-> op, value |-> v] PROVE ret'.op \in Silent
    BY <2>2, Zenon
  <2> QED BY <2>1, <2>2, Zenon
<1>2. \A x \in {"begin", "beginAP", "hostByName", "ping", "SSID", "scan"} : x \notin Silent
  BY DEF Silent
<1>3. \A ops :
        ops \subseteq {"begin", "beginAP", "hostByName", "ping", "SSID", "scan"} => ~ Returns(ops)
  BY <1>1, <1>2, Zenon DEF Returns
<1>4. /\ ~ Returns({"begin", "beginAP"}) /\ ~ Returns({"hostByName"}) /\ ~ Returns({"ping"})
      /\ ~ Returns({"SSID"}) /\ ~ Returns({"scan"})
  BY <1>3
<1> QED BY <1>4, Zenon DEF Told, Fresh

\* A step that only returns something keeps all this.
LEMMA Stays ==
  ASSUME WiFiInv, UNCHANGED <<radio, cached, scans, doing>>
  PROVE  WiFiInv'
<1>1. radio' = radio /\ cached' = cached /\ scans' = scans /\ doing' = doing
  OBVIOUS
<1> QED BY <1>1, Zenon DEF WiFiInv, RadioOK, DoingOK, CachedOK, OnItsNetwork

LEMMA NothingOK == Nothing.op = "none" /\ \E op, n, left, st :
                     /\ Nothing = [op |-> op, net |-> n, status |-> st, left |-> left]
                     /\ st \in Waiting
<1>1. WL_IDLE_STATUS \in Waiting
  BY Zenon DEF Waiting
<1> QED BY <1>1, Zenon DEF Nothing

\* A function that returns leaves nothing to wait for.
LEMMA StopsDoing ==
  ASSUME WiFiInv, RadioOK', CachedOK', doing' = Nothing
  PROVE  WiFiInv'
<1>1. doing'.op \notin {"begin", "beginAP"}
  <2>1. doing'.op = "none"
    BY NothingOK, Zenon
  <2> QED BY <2>1
<1>2. DoingOK'
  BY NothingOK, Zenon DEF DoingOK
<1> QED BY <1>1, <1>2, Zenon DEF WiFiInv, OnItsNetwork

LEMMA KeepsRadio == radio' = radio /\ RadioOK => RadioOK'
BY Zenon DEF RadioOK
LEMMA KeepsCached == cached' = cached /\ scans' = scans /\ CachedOK => CachedOK'
BY Zenon DEF CachedOK

LEMMA BeginTells ==
  ASSUME WiFiInv, Begin
  PROVE  WiFiInv' /\ Told /\ Fresh
<1>1. PICK op \in Begins, n \in Networks, ack \in {0, 1} :
        \E s \in Replies(Command(op), << <<ack>> >>) :
          LET failed == SetUp(op, s).value = WL_FAILURE
          IN /\ Idle
             /\ radio' = IF ack = 1 THEN [net |-> n, status |-> WL_IDLE_STATUS] ELSE radio
             /\ doing' = IF failed THEN Nothing
                         ELSE [Nothing EXCEPT !.op = op, !.net = n]
             /\ IF failed
                THEN Return(op, IF op \in AccessPoints THEN <<WL_AP_FAILED>>
                                ELSE <<WL_CONNECT_FAILED>>)
                ELSE Return("none", <<>>)
             /\ UNCHANGED <<cached, scans>>
  BY Zenon DEF Begin
<1>2. PICK s \in Replies(Command(op), << <<ack>> >>) :
          LET failed == SetUp(op, s).value = WL_FAILURE
          IN /\ Idle
             /\ radio' = IF ack = 1 THEN [net |-> n, status |-> WL_IDLE_STATUS] ELSE radio
             /\ doing' = IF failed THEN Nothing
                         ELSE [Nothing EXCEPT !.op = op, !.net = n]
             /\ IF failed
                THEN Return(op, IF op \in AccessPoints THEN <<WL_AP_FAILED>>
                                ELSE <<WL_CONNECT_FAILED>>)
                ELSE Return("none", <<>>)
             /\ UNCHANGED <<cached, scans>>
  BY <1>1, Zenon
<1>3. RadioOK'
  <2>1. n \in Nat /\ WL_IDLE_STATUS \in Nat
    BY WiFiAssumption DEF WL_IDLE_STATUS
  <2>2. CASE ack = 1
    BY <1>2, <2>1, <2>2, Zenon DEF RadioOK
  <2>3. CASE ack # 1
    <3>1. radio' = radio
      BY <1>2, <2>3, Zenon
    <3> QED BY <3>1, KeepsRadio, Zenon DEF WiFiInv
  <2> QED BY <2>2, <2>3
<1>4. CachedOK'
  BY <1>2, KeepsCached, Zenon DEF WiFiInv
<1>5. CASE SetUp(op, s).value = WL_FAILURE
  <2>1. WiFiInv'
    BY <1>2, <1>3, <1>4, <1>5, StopsDoing, Zenon
  <2>2. PICK v : ret' = [op |-> op, value |-> v] /\ v \in {<<WL_AP_FAILED>>, <<WL_CONNECT_FAILED>>}
    <3>1. CASE op \in AccessPoints
      BY <1>2, <1>5, <3>1, Zenon DEF Return
    <3>2. CASE op \notin AccessPoints
      BY <1>2, <1>5, <3>2, Zenon DEF Return
    <3> QED BY <3>1, <3>2
  <2>3. v \notin {<<WL_CONNECTED>>, <<WL_AP_LISTENING>>}
    BY <2>2 DEF WL_AP_FAILED, WL_CONNECT_FAILED, WL_CONNECTED, WL_AP_LISTENING
  <2>4. ret'.op = op /\ ret'.value = v
    BY <2>2, Zenon
  <2>5. op \notin {"hostByName", "ping", "SSID", "scan"}
    <3>1. op \in Stations \cup AccessPoints
      BY WiFiAssumption, Zenon
    <3> QED BY <3>1 DEF Stations, AccessPoints
  <2>6. ~ Returns({"hostByName"}) /\ ~ Returns({"ping"}) /\ ~ Returns({"SSID"})
        /\ ~ Returns({"scan"})
    BY <2>4, <2>5, Zenon DEF Returns
  <2> QED BY <2>1, <2>3, <2>4, <2>6, Zenon DEF Told, Fresh
<1>6. CASE SetUp(op, s).value # WL_FAILURE
  <2>1. ret' = [op |-> "none", value |-> <<>>]
    BY <1>2, <1>6, Zenon DEF Return
  <2>2. doing' = [op |-> op, net |-> n, status |-> WL_IDLE_STATUS, left |-> 0]
    BY <1>2, <1>6, Zenon DEF Nothing
  <2>3. DoingOK'
    <3>1. WL_IDLE_STATUS \in Waiting
      BY Zenon DEF Waiting
    <3> QED BY <2>2, <3>1, Zenon DEF DoingOK
  <2>4. OnItsNetwork'
    <3> SUFFICES ASSUME doing'.op \in {"begin", "beginAP"} PROVE radio'.net = doing'.net
      BY Zenon DEF OnItsNetwork
    <3>1. doing'.op = op /\ doing'.net = n
      BY <2>2, Zenon
    <3>2. ack = 1
      BY <1>6, <3>1, SetUpTells, Zenon
    <3> QED BY <1>2, <3>1, <3>2, Zenon
  <2>5. "none" \in Silent
    BY Zenon DEF Silent
  <2> QED BY <1>3, <1>4, <2>1, <2>3, <2>4, <2>5, NothingSaid, Zenon DEF WiFiInv
<1> QED BY <1>5, <1>6

LEMMA BeginsAre == \A op \in Begins : op \notin {"hostByName", "ping", "SSID", "scan"}
<1>1. Begins \subseteq Stations \cup AccessPoints
  BY WiFiAssumption, Zenon
<1> QED BY <1>1 DEF Stations, AccessPoints

LEMMA PollTells ==
  ASSUME WiFiInv, PollStatus
  PROVE  WiFiInv' /\ Told /\ Fresh
<1>1. doing.op \in Begins /\ radio' = radio /\ cached' = cached /\ scans' = scans
  BY Zenon DEF PollStatus
<1>2. PICK s \in Replies(Code.GET_CONN_STATUS_CMD, << <<radio.status>> >>) :
        IF getConnectionStatus(s).value[1] \in Waiting
        THEN doing' = [doing EXCEPT !.status = getConnectionStatus(s).value[1]] /\ UNCHANGED ret
        ELSE doing' = Nothing /\ Return(doing.op, <<getConnectionStatus(s).value[1]>>)
  BY Zenon DEF PollStatus
<1>3. PICK st : st = getConnectionStatus(s).value[1]
  OBVIOUS
<1>4. st = radio.status \/ st = 255
  <2>1. PICK net, now \in Nat : radio = [net |-> net, status |-> now]
    BY Zenon DEF WiFiInv, RadioOK
  <2>2. radio.status = now
    BY <2>1, Zenon
  <2>3. <<now>> \in Seq(Nat) /\ <<now>> # <<>> /\ <<now>>[1] = now /\ <<255>>[1] = 255
    OBVIOUS
  <2>4. getConnectionStatus(s).value \in {<<now>>, <<255>>}
    BY <2>2, <2>3, StatusIs, Zenon
  <2>5. CASE getConnectionStatus(s).value = <<now>>
    BY <1>3, <2>2, <2>3, <2>5, Zenon
  <2>6. CASE getConnectionStatus(s).value = <<255>>
    BY <1>3, <2>3, <2>6
  <2> QED BY <2>4, <2>5, <2>6
<1>5. RadioOK' /\ CachedOK'
  BY <1>1, KeepsRadio, KeepsCached, Zenon DEF WiFiInv
<1>6. CASE st \in Waiting
  <2>1. ret' = ret /\ doing' = [doing EXCEPT !.status = st]
    BY <1>2, <1>3, <1>6, Zenon
  <2>2. PICK op, n, left, was : doing = [op |-> op, net |-> n, status |-> was, left |-> left]
    BY Zenon DEF WiFiInv, DoingOK
  <2>3. doing' = [op |-> op, net |-> n, status |-> st, left |-> left]
    BY <2>1, <2>2, Zenon
  <2>4. DoingOK'
    BY <1>6, <2>3, Zenon DEF DoingOK
  <2>5. doing'.op = doing.op /\ doing'.net = doing.net
    BY <2>2, <2>3, Zenon
  <2>6. OnItsNetwork'
    BY <1>1, <2>5, Zenon DEF WiFiInv, OnItsNetwork
  <2> QED BY <1>5, <2>1, <2>4, <2>6, NothingSaid, Zenon DEF WiFiInv
<1>7. CASE st \notin Waiting
  <2>1. doing' = Nothing /\ ret' = [op |-> doing.op, value |-> <<st>>]
    BY <1>2, <1>3, <1>7, Zenon DEF Return
  <2>2. WiFiInv'
    BY <1>5, <2>1, StopsDoing, Zenon
  <2>3. ret'.op = doing.op /\ ret'.value = <<st>>
    BY <2>1, Zenon
  <2>4. ~ Returns({"hostByName"}) /\ ~ Returns({"ping"}) /\ ~ Returns({"SSID"})
        /\ ~ Returns({"scan"})
    BY <1>1, <2>3, BeginsAre, Zenon DEF Returns
  <2>5. ret'.value \in {<<WL_CONNECTED>>, <<WL_AP_LISTENING>>} => st = radio.status
    <3>1. st # 255 => st = radio.status
      BY <1>4
    <3>2. <<st>> \in {<<WL_CONNECTED>>, <<WL_AP_LISTENING>>} => st # 255
      BY DEF WL_CONNECTED, WL_AP_LISTENING
    <3> QED BY <2>3, <3>1, <3>2, Zenon
  <2>6. doing.op \in {"begin", "beginAP"} => radio.net = doing.net
    BY Zenon DEF WiFiInv, OnItsNetwork
  <2> QED BY <2>2, <2>3, <2>4, <2>5, <2>6, Zenon DEF Told, Fresh, Returns
<1> QED BY <1>6, <1>7

LEMMA TimeOutTells ==
  ASSUME WiFiInv, TimeOut
  PROVE  WiFiInv' /\ Told /\ Fresh
<1>1. /\ doing.op \in Begins /\ radio' = radio /\ cached' = cached /\ scans' = scans
      /\ doing' = Nothing /\ ret' = [op |-> doing.op, value |-> <<doing.status>>]
  BY Zenon DEF TimeOut, Return
<1>2. WiFiInv'
  BY <1>1, KeepsRadio, KeepsCached, StopsDoing, Zenon DEF WiFiInv
<1>3. ret'.op = doing.op /\ ret'.value = <<doing.status>>
  BY <1>1, Zenon
<1>4. ~ Returns({"hostByName"}) /\ ~ Returns({"ping"}) /\ ~ Returns({"SSID"}) /\ ~ Returns({"scan"})
  BY <1>1, <1>3, BeginsAre, Zenon DEF Returns
<1>5. doing.status \in Waiting
  <2>1. PICK op, n, left, was : doing = [op |-> op, net |-> n, status |-> was, left |-> left]
                                /\ was \in Waiting
    BY Zenon DEF WiFiInv, DoingOK
  <2> QED BY <2>1, Zenon
<1>6. ret'.value \notin {<<WL_CONNECTED>>, <<WL_AP_LISTENING>>}
  BY <1>3, <1>5 DEF Waiting, WL_IDLE_STATUS, WL_NO_SSID_AVAIL, WL_SCAN_COMPLETED, WL_CONNECTED,
                   WL_AP_LISTENING
<1> QED BY <1>2, <1>4, <1>6, Zenon DEF Told, Fresh

\* What scanNetworks() returns when it was not started.
LEMMA NoneIsFresh ==
  ASSUME ret' = [op |-> "scan", value |-> <<-1>>]
  PROVE  Told /\ Fresh
<1>1. ret'.op = "scan" /\ ret'.value = <<-1>>
  BY Zenon
<1>2. <<-1>>[1] = -1 /\ \A i \in 1..(-1) : FALSE
  OBVIOUS
<1>3. \A i \in 1..ret'.value[1] : FALSE
  BY <1>1, <1>2, Zenon
<1>4. "scan" \notin {"begin", "beginAP"} /\ "scan" # "hostByName" /\ "scan" # "ping"
      /\ "scan" # "SSID"
  OBVIOUS
<1>5. /\ ~ Returns({"begin", "beginAP"}) /\ ~ Returns({"hostByName"}) /\ ~ Returns({"ping"})
      /\ ~ Returns({"SSID"})
  BY <1>1, <1>4, Zenon DEF Returns
<1> QED BY <1>3, <1>5, Zenon DEF Told, Fresh

LEMMA ScanTells ==
  ASSUME WiFiInv, Scan
  PROVE  WiFiInv' /\ Told /\ Fresh
<1>1. PICK failed \in BOOLEAN :
        /\ radio' = radio /\ cached' = cached /\ scans' = 1 - scans
        /\ doing' = IF failed THEN Nothing ELSE [Nothing EXCEPT !.op = "scan", !.left = 10]
        /\ IF failed THEN Return("scan", <<-1>>) ELSE Return("none", <<>>)
  <2>1. PICK ack \in {0, 1} : \E s \in Replies(Code.START_SCAN_NETWORKS, << <<ack>> >>) :
          LET failed == startScanNetworks(s).value = WL_FAILURE
          IN /\ Idle
             /\ scans' = 1 - scans
             /\ doing' = IF failed THEN Nothing
                         ELSE [Nothing EXCEPT !.op = "scan", !.left = 10]
             /\ IF failed THEN Return("scan", <<-1>>) ELSE Return("none", <<>>)
             /\ UNCHANGED <<radio, cached>>
    BY Zenon DEF Scan
  <2>2. PICK s : LET failed == startScanNetworks(s).value = WL_FAILURE
          IN /\ Idle
             /\ scans' = 1 - scans
             /\ doing' = IF failed THEN Nothing
                         ELSE [Nothing EXCEPT !.op = "scan", !.left = 10]
             /\ IF failed THEN Return("scan", <<-1>>) ELSE Return("none", <<>>)
             /\ UNCHANGED <<radio, cached>>
    BY <2>1, Zenon
  <2>3. CASE startScanNetworks(s).value = WL_FAILURE
    <3>1. TRUE \in BOOLEAN
      OBVIOUS
    <3> QED BY <2>2, <2>3, <3>1, Zenon
  <2>4. CASE startScanNetworks(s).value # WL_FAILURE
    <3>1. FALSE \in BOOLEAN
      OBVIOUS
    <3> QED BY <2>2, <2>4, <3>1, Zenon
  <2> QED BY <2>3, <2>4
<1>2. RadioOK' /\ CachedOK'
  <2>1. RadioOK'
    BY <1>1, KeepsRadio, Zenon DEF WiFiInv
  <2>2. scans' \in {0, 1}
    BY <1>1 DEF WiFiInv, CachedOK
  <2>3. cached' = cached /\ CachedOK
    BY <1>1, Zenon DEF WiFiInv
  <2> QED BY <2>1, <2>2, <2>3, Zenon DEF CachedOK
<1>3. CASE failed
  <2>1. WiFiInv'
    BY <1>1, <1>2, <1>3, StopsDoing, Zenon
  <2> QED BY <1>1, <1>3, <2>1, NoneIsFresh, Zenon DEF Return
<1>4. CASE ~ failed
  <2>1. ret' = [op |-> "none", value |-> <<>>] /\ "none" \in Silent
    BY <1>1, <1>4, Zenon DEF Return, Silent
  <2>2. doing' = [op |-> "scan", net |-> 0, status |-> WL_IDLE_STATUS, left |-> 10]
    BY <1>1, <1>4, Zenon DEF Nothing
  <2>3. DoingOK'
    <3>1. WL_IDLE_STATUS \in Waiting
      BY Zenon DEF Waiting
    <3> QED BY <2>2, <3>1, Zenon DEF DoingOK
  <2>4. OnItsNetwork'
    <3>1. doing'.op = "scan"
      BY <2>2, Zenon
    <3> QED BY <3>1 DEF OnItsNetwork
  <2> QED BY <1>2, <2>1, <2>3, <2>4, NothingSaid, Zenon DEF WiFiInv
<1> QED BY <1>3, <1>4

\* The names read are put in front of what the list held.
InFrontOf(list, n, e) == /\ list \in Seq(Seq(Nat))
                         /\ \A i \in 1..n : i \in DOMAIN list /\ list[i] = e
LEMMA PutInFront ==
  ASSUME NEW e \in Seq(Nat), NEW n \in Nat, NEW old \in Seq(Seq(Nat)), NEW names, Alike(names, n, e)
  PROVE  Len(names) = n /\ InFrontOf(names \o SubSeq(old, n + 1, Len(old)), n, e)
<1>1. e \in Seq(Nat)
  OBVIOUS
<1>2. names = [i \in 1..n |-> e]
  BY Zenon DEF Alike
<1>3. names \in Seq(Seq(Nat)) /\ Len(names) = n /\ \A i \in 1..n : names[i] = e
  <2>1. \A i \in 1..n : names[i] = e
    BY <1>2, Zenon
  <2>2. names \in Seq(Seq(Nat)) /\ Len(names) = n
    BY <1>1, <1>2
  <2> QED BY <2>1, <2>2
<1>4. PICK m \in Nat : m = Len(old)
  BY LenProperties
<1>5. PICK rest \in Seq(Seq(Nat)) : rest = SubSeq(old, n + 1, m)
  <2>1. \A i \in (n + 1)..m : i \in 1..Len(old)
    BY <1>4
  <2>2. \A i \in (n + 1)..m : old[i] \in Seq(Nat)
    BY <2>1, ElementOfSeq, Zenon
  <2>3. n + 1 \in Int /\ m \in Int
    BY <1>4
  <2>4. SubSeq(old, n + 1, m) \in Seq(Seq(Nat))
    BY <2>2, <2>3, SubSeqProperties
  <2> QED BY <2>4, Zenon
<1>6. PICK l \in Nat : l = Len(rest)
  BY LenProperties
<1>7. PICK list : list = names \o rest
  OBVIOUS
<1>8. list \in Seq(Seq(Nat)) /\ Len(list) = n + l /\ \A i \in 1..n : list[i] = names[i]
  <2>1. \A i \in 1..Len(names) : (names \o rest)[i] = names[i]
    <3> TAKE i \in 1..Len(names)
    <3>1. i \in 1..(Len(names) + Len(rest)) /\ i <= Len(names)
      BY <1>3, <1>6
    <3> QED BY <1>3, <3>1, ConcatProperties, Zenon
  <2>2. list \in Seq(Seq(Nat)) /\ Len(list) = Len(names) + Len(rest)
    BY <1>3, <1>7, ConcatProperties, Zenon
  <2> QED BY <1>3, <1>6, <1>7, <2>1, <2>2, Zenon
<1>9. \A i \in 1..n : i \in DOMAIN list
  <2>1. DOMAIN list = 1..Len(list)
    BY <1>8, LenProperties
  <2>2. \A i \in 1..n : i \in 1..(n + l)
    OBVIOUS
  <2> QED BY <1>8, <2>1, <2>2, Zenon
<1> QED BY <1>3, <1>4, <1>5, <1>7, <1>8, <1>9, Zenon DEF InFrontOf

LEMMA ListedIs ==
  ASSUME NEW x \in {0, 1}, NEW names \in Listed[x]
  PROVE  \E n \in Nat : names = [i \in 1..n |-> <<x>>]
<1>1. names \in UNION {{getScanNetworks(s).value :
         s \in Replies(Code.SCAN_NETWORKS, [i \in 1..k |-> <<x>>])} : k \in Found}
  BY Zenon DEF Listed
<1>2. PICK k \in Found : names \in {getScanNetworks(s).value :
         s \in Replies(Code.SCAN_NETWORKS, [i \in 1..k |-> <<x>>])}
  BY <1>1, Zenon
<1>3. PICK s \in Replies(Code.SCAN_NETWORKS, [i \in 1..k |-> <<x>>]) :
        names = getScanNetworks(s).value
  BY <1>2, Zenon
<1>4. k \in Nat /\ x \in Nat
  BY WiFiAssumption
<1>5. \E n \in Nat : getScanNetworks(s).value = [i \in 1..n |-> <<x>>]
  BY <1>4, ListIs, Zenon
<1> QED BY <1>3, <1>5, Zenon

LEMMA ScanPollTells ==
  ASSUME WiFiInv, ScanPoll
  PROVE  WiFiInv' /\ Told /\ Fresh
<1>1. doing.op = "scan" /\ radio' = radio /\ scans' = scans
  BY Zenon DEF ScanPoll
<1>2. PICK names \in Listed[scans] :
        /\ cached' = [cached EXCEPT !.list = names \o SubSeq(@, Len(names) + 1, Len(@))]
        /\ IF Len(names) = 0 /\ doing.left > 1
           THEN doing' = [doing EXCEPT !.left = @ - 1] /\ UNCHANGED ret
           ELSE doing' = Nothing /\ Return("scan", <<Len(names)>>)
  BY Zenon DEF ScanPoll
<1>3. PICK ip : \E old \in Seq(Seq(Nat)) : cached = [ip |-> ip, list |-> old]
  BY Zenon DEF WiFiInv, CachedOK
<1>4. PICK old \in Seq(Seq(Nat)) : cached = [ip |-> ip, list |-> old]
  BY <1>3, Zenon
<1>5. PICK x \in {0, 1} : x = scans
  BY Zenon DEF WiFiInv, CachedOK
<1>6. PICK n \in Nat : names = [i \in 1..n |-> <<x>>]
  BY <1>5, ListedIs, Zenon
<1>7. PICK list : list = names \o SubSeq(old, n + 1, Len(old))
  OBVIOUS
<1>8. /\ Len(names) = n /\ list \in Seq(Seq(Nat))
      /\ \A i \in 1..n : i \in DOMAIN list /\ list[i] = <<x>>
  <2>1. x \in Nat
    BY <1>5
  <2>2. <<x>> \in Seq(Nat)
    BY <2>1
  <2>3. PICK e \in Seq(Nat) : e = <<x>>
    BY <2>2, Zenon
  <2>4. Alike(names, n, e)
    BY <1>6, <2>3, Zenon DEF Alike
  <2>5. Len(names) = n /\ InFrontOf(names \o SubSeq(old, n + 1, Len(old)), n, e)
    BY <2>4, PutInFront, Zenon
  <2> QED BY <1>7, <2>3, <2>5, Zenon DEF InFrontOf
<1>9. cached' = [ip |-> ip, list |-> list]
  BY <1>2, <1>4, <1>7, <1>8, Zenon
<1>10. CachedOK' /\ RadioOK'
  <2>1. CachedOK'
    BY <1>1, <1>8, <1>9, Zenon DEF WiFiInv, CachedOK
  <2> QED BY <1>1, <2>1, KeepsRadio, Zenon DEF WiFiInv
<1>11. CASE n = 0 /\ doing.left > 1
  <2>1. ret' = ret /\ doing' = [doing EXCEPT !.left = doing.left - 1]
    BY <1>2, <1>8, <1>11, Zenon
  <2>2. PICK op, net, left, st : doing = [op |-> op, net |-> net, status |-> st, left |-> left]
                                 /\ st \in Waiting
    BY Zenon DEF WiFiInv, DoingOK
  <2>3. PICK now : doing' = [op |-> op, net |-> net, status |-> st, left |-> now]
    BY <2>1, <2>2, Zenon
  <2>4. DoingOK'
    BY <2>2, <2>3, Zenon DEF DoingOK
  <2>5. doing'.op = "scan"
    BY <1>1, <2>2, <2>3, Zenon
  <2>6. OnItsNetwork'
    BY <2>5 DEF OnItsNetwork
  <2> QED BY <1>10, <2>1, <2>4, <2>6, NothingSaid, Zenon DEF WiFiInv
<1>12. CASE ~ (n = 0 /\ doing.left > 1)
  <2>1. doing' = Nothing /\ ret' = [op |-> "scan", value |-> <<n>>]
    BY <1>2, <1>8, <1>12, Zenon DEF Return
  <2>2. WiFiInv'
    BY <1>10, <2>1, StopsDoing, Zenon
  <2>3. ret'.op = "scan" /\ ret'.value = <<n>>
    BY <2>1, Zenon
  <2>4. <<n>>[1] = n
    OBVIOUS
  <2>5. ret'.value[1] = n /\ cached'.list = list
    BY <1>9, <2>3, <2>4, Zenon
  <2>6. "scan" \notin {"begin", "beginAP"} /\ "scan" # "hostByName" /\ "scan" # "ping"
        /\ "scan" # "SSID"
    OBVIOUS
  <2>7. /\ ~ Returns({"begin", "beginAP"}) /\ ~ Returns({"hostByName"}) /\ ~ Returns({"ping"})
        /\ ~ Returns({"SSID"})
    BY <2>3, <2>6, Zenon DEF Returns
  <2> QED BY <1>5, <1>8, <2>2, <2>5, <2>7, Zenon DEF Told, Fresh
<1> QED BY <1>11, <1>12

LEMMA CommandsTell ==
  ASSUME WiFiInv, Status \/ LocalIP \/ Disconnect \/ End \/ ModuleMoves
  PROVE  WiFiInv' /\ Told /\ Fresh
<1>1. PICK net, now \in Nat : radio = [net |-> net, status |-> now]
  BY Zenon DEF WiFiInv, RadioOK
<1>2. CASE Status
  <2>1. PICK v : ret' = [op |-> "status", value |-> v]
    BY <1>2, Zenon DEF Status, Return
  <2>2. "status" \in Silent
    BY Zenon DEF Silent
  <2> QED BY <1>2, <2>1, <2>2, NothingSaid, Stays, Zenon DEF Status
<1>3. CASE LocalIP
  <2>1. PICK v : ret' = [op |-> "localIP", value |-> v]
    BY <1>3, Zenon DEF LocalIP, Return
  <2>2. "localIP" \in Silent
    BY Zenon DEF Silent
  <2>3. PICK new : cached' = [cached EXCEPT !.ip = new]
    BY <1>3, Zenon DEF LocalIP
  <2>4. PICK ip : \E list \in Seq(Seq(Nat)) : cached = [ip |-> ip, list |-> list]
    BY Zenon DEF WiFiInv, CachedOK
  <2>5. PICK list \in Seq(Seq(Nat)) : cached = [ip |-> ip, list |-> list]
    BY <2>4, Zenon
  <2>6. cached' = [ip |-> new, list |-> list]
    BY <2>3, <2>5, Zenon
  <2>7. radio' = radio /\ scans' = scans /\ doing' = doing
    BY <1>3, Zenon DEF LocalIP
  <2>8. CachedOK'
    BY <2>7, <2>6, Zenon DEF WiFiInv, CachedOK
  <2>9. WiFiInv'
    BY <2>7, <2>8, Zenon DEF WiFiInv, RadioOK, DoingOK, OnItsNetwork
  <2> QED BY <2>1, <2>2, <2>9, NothingSaid, Zenon
<1>4. CASE Disconnect \/ End \/ ModuleMoves
  <2>1. /\ cached' = cached /\ scans' = scans /\ doing' = doing
        /\ \E n, st \in Nat : radio' = [net |-> n, status |-> st]
        /\ radio'.net = radio.net \/ doing = Nothing
        /\ ret' = ret \/ \E op \in {"disconnect", "end"} : \E v : ret' = [op |-> op, value |-> v]
    <3>1. CASE Disconnect
      <4>1. PICK took \in BOOLEAN : \E s :
              /\ radio' = IF took THEN [radio EXCEPT !.status = WL_DISCONNECTED] ELSE radio
              /\ Return("disconnect", disconnect(s).value)
        BY <3>1, Zenon DEF Disconnect
      <4>2. WL_DISCONNECTED \in Nat
        BY DEF WL_DISCONNECTED
      <4>3. radio' = [net |-> net, status |-> WL_DISCONNECTED] \/ radio' = radio
        <5>1. CASE took
          BY <1>1, <4>1, <5>1, Zenon
        <5>2. CASE ~ took
          BY <4>1, <5>2, Zenon
        <5> QED BY <5>1, <5>2
      <4>4. (\E n, st \in Nat : radio' = [net |-> n, status |-> st]) /\ radio'.net = radio.net
        <5>1. CASE radio' = radio
          BY <1>1, <5>1, Zenon
        <5>2. CASE radio' = [net |-> net, status |-> WL_DISCONNECTED]
          <6>1. radio'.net = radio.net
            BY <1>1, <5>2, Zenon
          <6> QED BY <4>2, <5>2, <6>1, Zenon
        <5> QED BY <4>3, <5>1, <5>2
      <4>5. "disconnect" \in {"disconnect", "end"}
        OBVIOUS
      <4> QED BY <3>1, <4>1, <4>4, <4>5, Zenon DEF Disconnect, Return
    <3>2. CASE End
      <4>1. radio' = [net |-> 0, status |-> WL_IDLE_STATUS] /\ doing = Nothing
        BY <3>2, Zenon DEF End, Reset, Idle
      <4>2. 0 \in Nat /\ WL_IDLE_STATUS \in Nat /\ "end" \in {"disconnect", "end"}
        BY DEF WL_IDLE_STATUS
      <4> QED BY <3>2, <4>1, <4>2, Zenon DEF End, Return
    <3>3. CASE ModuleMoves
      <4>1. PICK st \in {WL_NO_SSID_AVAIL, WL_CONNECTED, WL_CONNECTION_LOST, WL_AP_LISTENING} :
              radio' = [radio EXCEPT !.status = st]
        BY <3>3, Zenon DEF ModuleMoves
      <4>2. st \in Nat
        BY DEF WL_NO_SSID_AVAIL, WL_CONNECTED, WL_CONNECTION_LOST, WL_AP_LISTENING
      <4>3. radio' = [net |-> net, status |-> st]
        BY <1>1, <4>1, Zenon
      <4>4. radio'.net = radio.net
        BY <1>1, <4>3, Zenon
      <4> QED BY <3>3, <4>2, <4>3, <4>4, Zenon DEF ModuleMoves
    <3> QED BY <1>4, <3>1, <3>2, <3>3
  <2>2. {"disconnect", "end"} \subseteq Silent
    BY DEF Silent
  <2>3. Told /\ Fresh
    BY <2>1, <2>2, NothingSaid, Zenon
  <2>4. RadioOK' /\ CachedOK' /\ DoingOK'
    BY <2>1, Zenon DEF WiFiInv, RadioOK, CachedOK, DoingOK
  <2>5. OnItsNetwork'
    <3>1. CASE radio'.net = radio.net
      BY <2>1, <3>1, Zenon DEF WiFiInv, OnItsNetwork
    <3>2. CASE doing = Nothing
      <4>1. doing'.op = "none"
        BY <2>1, <3>2, NothingOK, Zenon
      <4> QED BY <4>1 DEF OnItsNetwork
    <3> QED BY <2>1, <3>1, <3>2
  <2> QED BY <2>3, <2>4, <2>5, Zenon DEF WiFiInv
<1> QED BY <1>2, <1>3, <1>4

LEMMA NameTells ==
  ASSUME WiFiInv, SSID
  PROVE  WiFiInv' /\ Told /\ Fresh
<1>1. PICK s \in Replies(Code.GET_CURR_SSID_CMD, <<Name>>) :
        ret' = [op |-> "SSID", value |-> getCurrentSSID(s).value]
  BY Zenon DEF SSID, Return
<1>2. Name \in Seq(Nat)
  <2>1. PICK net, now \in Nat : radio = [net |-> net, status |-> now]
    BY Zenon DEF WiFiInv, RadioOK
  <2>2. radio.net = net
    BY <2>1, Zenon
  <2>3. <<net>> \in Seq(Nat) /\ <<>> \in Seq(Nat)
    OBVIOUS
  <2> QED BY <2>2, <2>3, Zenon DEF Name
<1>3. getCurrentSSID(s).value \in {Name, <<>>}
  BY <1>2, NameIs, Zenon
<1>4. ret'.op = "SSID" /\ ret'.value \in {<<>>, Name}
  BY <1>1, <1>3, Zenon
<1>5. "SSID" \notin {"begin", "beginAP"} /\ "SSID" # "hostByName" /\ "SSID" # "ping"
      /\ "SSID" # "scan"
  OBVIOUS
<1>6. /\ ~ Returns({"begin", "beginAP"}) /\ ~ Returns({"hostByName"}) /\ ~ Returns({"ping"})
      /\ ~ Returns({"scan"})
  BY <1>4, <1>5, Zenon DEF Returns
<1>7. WiFiInv'
  BY Stays, Zenon DEF SSID
<1> QED BY <1>4, <1>6, <1>7, Zenon DEF Told, Fresh

LEMMA HostTells ==
  ASSUME WiFiInv, HostByName
  PROVE  WiFiInv' /\ Told /\ Fresh
<1>1. WiFiInv'
  BY Stays, Zenon DEF HostByName
<1>2. CASE \E ip \in Resolved : Return("hostByName", ip)
  <2>1. PICK ip \in Resolved : ret' = [op |-> "hostByName", value |-> ip]
    BY <1>2, Zenon DEF Return
  <2>2. ret'.op = "hostByName" /\ ret'.value \in {<<>>, <<5>>}
    BY <2>1, ResolvedIs, Zenon
  <2>3. "hostByName" \notin {"begin", "beginAP"} /\ "hostByName" # "ping" /\ "hostByName" # "SSID"
        /\ "hostByName" # "scan"
    OBVIOUS
  <2>4. /\ ~ Returns({"begin", "beginAP"}) /\ ~ Returns({"ping"}) /\ ~ Returns({"SSID"})
        /\ ~ Returns({"scan"})
    BY <2>2, <2>3, Zenon DEF Returns
  <2> QED BY <1>1, <2>2, <2>4, Zenon DEF Told, Fresh
<1>3. CASE \E reply \in Pinged : Return("ping", reply)
  <2>1. PICK reply \in Pinged : ret' = [op |-> "ping", value |-> reply]
    BY <1>3, Zenon DEF Return
  <2>2. ret'.op = "ping" /\ ret'.value \in {WL_PING_ERROR, WL_PING_UNKNOWN_HOST, <<20, 0>>}
    BY <2>1, PingedIs, Zenon
  <2>3. "ping" \notin {"begin", "beginAP"} /\ "ping" # "hostByName" /\ "ping" # "SSID"
        /\ "ping" # "scan"
    OBVIOUS
  <2>4. /\ ~ Returns({"begin", "beginAP"}) /\ ~ Returns({"hostByName"}) /\ ~ Returns({"SSID"})
        /\ ~ Returns({"scan"})
    BY <2>2, <2>3, Zenon DEF Returns
  <2> QED BY <1>1, <2>2, <2>4, Zenon DEF Told, Fresh
<1> QED BY <1>2, <1>3, Zenon DEF HostByName

LEMMA WiFiStarts == WiFiInit => WiFiInv
<1> SUFFICES ASSUME WiFiInit PROVE WiFiInv
  OBVIOUS
<1>1. radio = [net |-> 0, status |-> WL_IDLE_STATUS] /\ scans = 0 /\ doing = Nothing
      /\ cached = [ip |-> << <<0>>, <<0>>, <<0>> >>, list |-> <<>>]
  BY Zenon DEF WiFiInit, Reset
<1>2. 0 \in Nat /\ WL_IDLE_STATUS \in Nat /\ 0 \in {0, 1}
  BY DEF WL_IDLE_STATUS
<1>3. << <<0>>, <<0>>, <<0>> >> \in Seq(Seq(Nat)) /\ <<>> \in Seq(Seq(Nat))
  <2>1. <<0>> \in Seq(Nat)
    OBVIOUS
  <2>2. \A q \in Seq(Nat) : <<q, q, q>> \in Seq(Seq(Nat))
    OBVIOUS
  <2>3. <<>> \in Seq(Seq(Nat))
    OBVIOUS
  <2> QED BY <2>1, <2>2, <2>3, Zenon
<1>4. RadioOK /\ CachedOK
  BY <1>1, <1>2, <1>3, Zenon DEF RadioOK, CachedOK
<1>5. DoingOK
  BY <1>1, NothingOK, Zenon DEF DoingOK
<1>6. doing.op = "none"
  BY <1>1, NothingOK, Zenon
<1>7. OnItsNetwork
  BY <1>6 DEF OnItsNetwork
<1> QED BY <1>4, <1>5, <1>7, Zenon DEF WiFiInv

LEMMA WiFiSteps ==
  ASSUME WiFiInv, [WiFiNext]_wifiVars
  PROVE  WiFiInv' /\ Told /\ Fresh
<1>1. CASE UNCHANGED wifiVars
  BY <1>1, Stays, NothingSaid, Zenon DEF wifiVars
<1>2. CASE WiFiNext
  BY <1>2, BeginTells, PollTells, TimeOutTells, ScanTells, ScanPollTells, CommandsTell, NameTells,
     HostTells, Zenon DEF WiFiNext
<1> QED BY <1>1, <1>2

\* For every set of networks, every length of a scan's list and every loss of a reply: begin()
\* and beginAP() without a password report a connection only on the network they were told,
\* and an address is reported, or pinged, only when it was found.
THEOREM ReportsAreSo == WiFiSpec => ReportsAreTrue
<1>1. WiFiInv /\ [WiFiNext]_wifiVars => WiFiInv'
  BY WiFiSteps, Zenon
<1>2. WiFiInv /\ [WiFiNext]_wifiVars => [Told]_wifiVars
  BY WiFiSteps, Zenon
<1> QED BY <1>1, <1>2, WiFiStarts, PTL DEF WiFiSpec, ReportsAreTrue, Told

\* Likewise: SSID() names no network the board has left, and the names scanNetworks() counts
\* are those of its own scan.
THEOREM BuffersAreOfNow == WiFiSpec => BuffersAreFresh
<1>1. WiFiInv /\ [WiFiNext]_wifiVars => WiFiInv'
  BY WiFiSteps, Zenon
<1>2. WiFiInv /\ [WiFiNext]_wifiVars => [Fresh]_wifiVars
  BY WiFiSteps, Zenon
<1> QED BY <1>1, <1>2, WiFiStarts, PTL DEF WiFiSpec, BuffersAreFresh, Fresh

====
