---------------------------- MODULE MC_HciCommands ----------------------------
(* The commands of the driver with arguments of a few lengths, and the pure  *)
(* functions beside them over bounded inputs: they share a run.              *)
EXTENDS PureFunctions, Aes, Integers

\* The cipher of smart config is AES in both directions, so that a profile
\* encrypted by any implementation of it can be read (security.c:103-474).
CipherIsAes == pc = "idle" => EncryptionIsAes /\ DecryptionInverts

\* Tables of up to 4 networks.
SmallTables ==
  UNION {{[i \in 1..n |-> Entry(f[i][1], f[i][2], i)] :
            f \in [1..n -> (0..2) \X BOOLEAN]} : n \in 0..4}

\* Text of n bytes, and the extremes: blanks, zeros, and bytes that look like
\* the length of a passphrase of 31 bytes.
Text(n)      == [i \in 1..n |-> 33 + ((i * 29) % 90)] \o <<>>
Equal(n, x)  == [i \in 1..n |-> x] \o <<>>
NamesMC      == {Text(1), Text(32)}
PassphrasesMC == {Text(n) : n \in {8, 15, 16, 17, 24, 30, 31, 32}}
                 \cup {Equal(31, 32), Equal(32, 255)}
WepKeysMC    == {Text(5), Text(13), Equal(13, 0), Equal(13, 31)}
CipherKeysMC == {Squares}
AddResultsMC == {-1, 7}
==============================================================================
