--------------------------------- MODULE Aes ---------------------------------
(***************************************************************************)
(* security.c: AES-128 of one block, as smart config uses it.  The code    *)
(* unrolls the cipher by hand, byte by byte, with the substitution and the *)
(* shift of rows in one, and decrypts the columns by a correction          *)
(* ("barreto") followed by the columns step of encryption.                 *)
(***************************************************************************)
EXTENDS ByteArrays, Bitwise

sbox == <<
  \h63, \h7c, \h77, \h7b, \hf2, \h6b, \h6f, \hc5, \h30, \h01, \h67, \h2b, \hfe, \hd7, \hab, \h76,
  \hca, \h82, \hc9, \h7d, \hfa, \h59, \h47, \hf0, \had, \hd4, \ha2, \haf, \h9c, \ha4, \h72, \hc0,
  \hb7, \hfd, \h93, \h26, \h36, \h3f, \hf7, \hcc, \h34, \ha5, \he5, \hf1, \h71, \hd8, \h31, \h15,
  \h04, \hc7, \h23, \hc3, \h18, \h96, \h05, \h9a, \h07, \h12, \h80, \he2, \heb, \h27, \hb2, \h75,
  \h09, \h83, \h2c, \h1a, \h1b, \h6e, \h5a, \ha0, \h52, \h3b, \hd6, \hb3, \h29, \he3, \h2f, \h84,
  \h53, \hd1, \h00, \hed, \h20, \hfc, \hb1, \h5b, \h6a, \hcb, \hbe, \h39, \h4a, \h4c, \h58, \hcf,
  \hd0, \hef, \haa, \hfb, \h43, \h4d, \h33, \h85, \h45, \hf9, \h02, \h7f, \h50, \h3c, \h9f, \ha8,
  \h51, \ha3, \h40, \h8f, \h92, \h9d, \h38, \hf5, \hbc, \hb6, \hda, \h21, \h10, \hff, \hf3, \hd2,
  \hcd, \h0c, \h13, \hec, \h5f, \h97, \h44, \h17, \hc4, \ha7, \h7e, \h3d, \h64, \h5d, \h19, \h73,
  \h60, \h81, \h4f, \hdc, \h22, \h2a, \h90, \h88, \h46, \hee, \hb8, \h14, \hde, \h5e, \h0b, \hdb,
  \he0, \h32, \h3a, \h0a, \h49, \h06, \h24, \h5c, \hc2, \hd3, \hac, \h62, \h91, \h95, \he4, \h79,
  \he7, \hc8, \h37, \h6d, \h8d, \hd5, \h4e, \ha9, \h6c, \h56, \hf4, \hea, \h65, \h7a, \hae, \h08,
  \hba, \h78, \h25, \h2e, \h1c, \ha6, \hb4, \hc6, \he8, \hdd, \h74, \h1f, \h4b, \hbd, \h8b, \h8a,
  \h70, \h3e, \hb5, \h66, \h48, \h03, \hf6, \h0e, \h61, \h35, \h57, \hb9, \h86, \hc1, \h1d, \h9e,
  \he1, \hf8, \h98, \h11, \h69, \hd9, \h8e, \h94, \h9b, \h1e, \h87, \he9, \hce, \h55, \h28, \hdf,
  \h8c, \ha1, \h89, \h0d, \hbf, \he6, \h42, \h68, \h41, \h99, \h2d, \h0f, \hb0, \h54, \hbb, \h16 >>

rsbox == <<
  \h52, \h09, \h6a, \hd5, \h30, \h36, \ha5, \h38, \hbf, \h40, \ha3, \h9e, \h81, \hf3, \hd7, \hfb,
  \h7c, \he3, \h39, \h82, \h9b, \h2f, \hff, \h87, \h34, \h8e, \h43, \h44, \hc4, \hde, \he9, \hcb,
  \h54, \h7b, \h94, \h32, \ha6, \hc2, \h23, \h3d, \hee, \h4c, \h95, \h0b, \h42, \hfa, \hc3, \h4e,
  \h08, \h2e, \ha1, \h66, \h28, \hd9, \h24, \hb2, \h76, \h5b, \ha2, \h49, \h6d, \h8b, \hd1, \h25,
  \h72, \hf8, \hf6, \h64, \h86, \h68, \h98, \h16, \hd4, \ha4, \h5c, \hcc, \h5d, \h65, \hb6, \h92,
  \h6c, \h70, \h48, \h50, \hfd, \hed, \hb9, \hda, \h5e, \h15, \h46, \h57, \ha7, \h8d, \h9d, \h84,
  \h90, \hd8, \hab, \h00, \h8c, \hbc, \hd3, \h0a, \hf7, \he4, \h58, \h05, \hb8, \hb3, \h45, \h06,
  \hd0, \h2c, \h1e, \h8f, \hca, \h3f, \h0f, \h02, \hc1, \haf, \hbd, \h03, \h01, \h13, \h8a, \h6b,
  \h3a, \h91, \h11, \h41, \h4f, \h67, \hdc, \hea, \h97, \hf2, \hcf, \hce, \hf0, \hb4, \he6, \h73,
  \h96, \hac, \h74, \h22, \he7, \had, \h35, \h85, \he2, \hf9, \h37, \he8, \h1c, \h75, \hdf, \h6e,
  \h47, \hf1, \h1a, \h71, \h1d, \h29, \hc5, \h89, \h6f, \hb7, \h62, \h0e, \haa, \h18, \hbe, \h1b,
  \hfc, \h56, \h3e, \h4b, \hc6, \hd2, \h79, \h20, \h9a, \hdb, \hc0, \hfe, \h78, \hcd, \h5a, \hf4,
  \h1f, \hdd, \ha8, \h33, \h88, \h07, \hc7, \h31, \hb1, \h12, \h10, \h59, \h27, \h80, \hec, \h5f,
  \h60, \h51, \h7f, \ha9, \h19, \hb5, \h4a, \h0d, \h2d, \he5, \h7a, \h9f, \h93, \hc9, \h9c, \hef,
  \ha0, \he0, \h3b, \h4d, \hae, \h2a, \hf5, \hb0, \hc8, \heb, \hbb, \h3c, \h83, \h53, \h99, \h61,
  \h17, \h2b, \h04, \h7e, \hba, \h77, \hd6, \h26, \he1, \h69, \h14, \h63, \h55, \h21, \h0c, \h7d >>

Rcon == << \h8d, \h01, \h02, \h04, \h08, \h10, \h20, \h40, \h80, \h1b, \h36 >>

\* An array of 16 bytes: a sequence, built once.
Block(byte(_)) == [i \in 1..16 |-> byte(i - 1)] \o <<>>

\* The columns of a block are 4 bytes apart.
Column(i) == 4 * (i \div 4)
Below(i, n) == Column(i) + ((i + n) % 4)

-----------------------------------------------------------------------------
(* The key: sixteen bytes for each round, made from those of the last.     *)

\* Mutant: the bytes of the last word are not rotated.
FirstKeyWord_NotRotated(last, n) ==
  [i \in 1..4 |-> At(sbox, last[12 + i])
                    ^^ (last[i] ^^ (IF i = 1 THEN At(Rcon, n) ELSE 0))]

FirstKeyWord(last, n) ==
  [i \in 1..4 |-> At(sbox, last[13 + (i % 4)])
                    ^^ (last[i] ^^ (IF i = 1 THEN At(Rcon, n) ELSE 0))]

NextRoundKey(last, n) ==
  LET Next4(word, at) == [i \in 1..4 |-> word[i] ^^ last[at + i]] \o <<>>
      w0 == FirstKeyWord(last, n) \o <<>>
      w1 == Next4(w0, 4)
      w2 == Next4(w1, 8)
  IN  w0 \o w1 \o w2 \o Next4(w2, 12)

expandKey(key) ==
  LET Expand[n \in 0..10] ==
        IF n = 0 THEN key
        ELSE LET ek == Expand[n - 1]
             IN  ek \o NextRoundKey(SubSeq(ek, 16 * n - 15, 16 * n), n)
  IN  Expand[10]

-----------------------------------------------------------------------------
(* The steps of a round.                                                   *)

galois_mul2(value) ==
  IF value \div 128 # 0 THEN ((2 * value) % UINT8) ^^ \h1b ELSE 2 * value

AddLastKey(state, ek) ==
  Block(LAMBDA i : At(ek, 160 + i) ^^ At(state, i))

\* Round key, sbox and the shift of row i % 4 by as many columns.
SubShift(state, ek, round) ==
  Block(LAMBDA i : LET from == (i + 4 * (i % 4)) % 16
                   IN  At(sbox, At(ek, 16 * round + from) ^^ At(state, from)))

ColumnSum(state, i) ==
  (At(state, i) ^^ At(state, Below(i, 1)))
    ^^ (At(state, Below(i, 2)) ^^ At(state, Below(i, 3)))

MixColumns(state) ==
  Block(LAMBDA i :
          (At(state, i) ^^ galois_mul2(At(state, i) ^^ At(state, Below(i, 1))))
            ^^ ColumnSum(state, i))

\* "barreto": what turns MixColumns into its inverse.
Barreto(state) ==
  Block(LAMBDA i : At(state, i) ^^
          galois_mul2(galois_mul2(At(state, i) ^^ At(state, Below(i, 2)))))

\* rsbox, the shift back and the round key.
InvSubShift(state, ek, round) ==
  Block(LAMBDA i : LET from == (i + 12 * (i % 4)) % 16
                   IN  At(ek, 16 * round + i) ^^ At(rsbox, At(state, from)))

-----------------------------------------------------------------------------
(* The cipher: nine rounds, and a tenth without columns.                   *)

aes_encr(state, ek) ==
  LET After[n \in 0..9] ==
        IF n = 0 THEN state
                 ELSE MixColumns(SubShift(After[n - 1], ek, n - 1))
  IN  AddLastKey(SubShift(After[9], ek, 9), ek)

aes_decr(state, ek) ==
  LET Before[n \in 0..9] ==
        IF n = 9 THEN InvSubShift(AddLastKey(state, ek), ek, 9)
                 ELSE InvSubShift(MixColumns(Barreto(Before[n + 1])), ek, n)
  IN  Before[0]

aes_encrypt(state, key) == aes_encr(state, expandKey(key))

aes_decrypt(state, key) == aes_decr(state, expandKey(key))

-----------------------------------------------------------------------------
(* The reference, from the definition of AES over GF(2^8).                 *)

\* The product of a and b modulo x^8 + x^4 + x^3 + x + 1, by the bits of b.
Times(a, b) ==
  LET Sum[n \in 0..8] ==      \* the bits of b from n on, times a
        IF n = 8 THEN 0
        ELSE LET rest    == Sum[n + 1]
                 doubled == IF rest < 128 THEN 2 * rest ELSE (2 * rest) ^^ \h11b
             IN  doubled ^^ (IF (b \div 2^(n)) % 2 = 1 THEN a ELSE 0)
  IN  Sum[0]

RotateLeft(x, n) == ((x * 2^n) % UINT8) + (x \div 2^(8 - n))

\* The byte whose field inverse the affine map of the S-box takes to s.
Unaffine(s) ==
  (RotateLeft(s, 1) ^^ RotateLeft(s, 3)) ^^ (RotateLeft(s, 6) ^^ 5)

\* The product of a block's columns with a circulant matrix, by its first row.
TimesMatrix(row, state) ==
  Block(LAMBDA i :
    LET Term(n) == Times(row[n + 1], At(state, Below(i, n)))
    IN  (Term(0) ^^ Term(1)) ^^ (Term(2) ^^ Term(3)))

\* The step of columns is linear: blocks of one bit stand for all.
OneBit == {Block(LAMBDA i : IF i = p THEN 2^b ELSE 0) : p \in 0..15, b \in 0..7}

Counting == Block(LAMBDA i : i)
Doubled  == Block(LAMBDA i : 17 * i)
Squares  == Block(LAMBDA i : (i * i * 7 + 200) % UINT8)

\* The cipher text FIPS-197 gives for Doubled under Counting.
PublishedCipher ==
  << \h69, \hc4, \he0, \hd8, \h6a, \h7b, \h04, \h30,
     \hd8, \hcd, \hb7, \h80, \h70, \hb4, \hc5, \h5a >>

-----------------------------------------------------------------------------
(* Properties *)

SboxIsAffineInverse ==
  /\ Unaffine(At(sbox, 0)) = 0
  /\ \A x \in 1..255 : Times(x, Unaffine(At(sbox, x))) = 1

ColumnsAreProducts ==
  \A s \in OneBit : MixColumns(s) = TimesMatrix(<<2, 3, 1, 1>>, s)

PublishedCipherReached == aes_encrypt(Doubled, Counting) = PublishedCipher

\* The unrolled encryption is AES: the table sbox holds the affine image of
\* each inverse, the column step multiplies with the matrix of AES, and the
\* whole gives the published text (security.c:181-285).
EncryptionIsAes ==
  SboxIsAffineInverse /\ ColumnsAreProducts /\ PublishedCipherReached

TablesInvert == \A x \in 0..255 : At(rsbox, At(sbox, x)) = x

ColumnsInvert == \A s \in OneBit : MixColumns(Barreto(MixColumns(s))) = s

BlocksInvert ==
  \A s, k \in {Counting, Doubled, Squares} :
    \A c \in {aes_encrypt(s, k)} : aes_decrypt(c, k) = s

\* Decryption undoes encryption, for every byte through the tables, every bit
\* through the columns, and blocks through all rounds (security.c:305-435).
DecryptionInverts == TablesInvert /\ ColumnsInvert /\ BlocksInvert
==============================================================================
