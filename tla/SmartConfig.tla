----------------------------- MODULE SmartConfig -----------------------------
(***************************************************************************)
(* wlan_smart_config_process of wlan.c: the profile a phone has sent lies  *)
(* in two files of the device's NVMEM, the key of the cipher in one, and   *)
(* in the other, as the comment in the code describes it,                  *)
(*   the length of the network name, the name, the length 32, the          *)
(*   security type, and 32 encrypted bytes that hold the length of the     *)
(*   passphrase and the passphrase -- or, if that has 32 bytes, only it.   *)
(* The function has to find out which, from the decrypted bytes alone, and *)
(* hands the profile to wlan_add_profile.                                  *)
(*                                                                         *)
(* The cipher is a parameter; the one of the driver is in Aes.             *)
(***************************************************************************)
EXTENDS ByteArrays

CONSTANTS Encrypt(_, _), Decrypt(_, _),  \* of a block of 16 bytes, with a key
          CipherKeys,                    \* keys in the key file
          Names,                         \* network names
          Passphrases, WepKeys,          \* what the profiles hold
          AddResults                     \* what wlan_add_profile may return

\* Names of up to 32 bytes, passphrases of 8 to 32 bytes that are text (no
\* control characters), WEP keys of the two lengths there are.
ASSUME TextsAssumption ==
  /\ \A name \in Names : name \in Seq(Octet) /\ Len(name) <= 32
  /\ \A text \in Passphrases : text \in Seq(32..255) /\ Len(text) \in 8..32
  /\ \A text \in WepKeys : text \in Seq(Octet) /\ Len(text) \in {5, 13}

SMART_CONFIG_PROFILE_SIZE == 67
WLAN_SEC_UNSEC == 0
WLAN_SEC_WEP   == 1
WLAN_SEC_WPA   == 2
WLAN_SEC_WPA2  == 3

\* What the function returns, and what it has passed to wlan_add_profile, whose
\* own value it is then: the index of the profile, or -1 if the device has not
\* stored it.  A read of NVMEM (external) returns a status and its bytes.
NothingAdded(ret) == [ret |-> ret, added |-> FALSE]
Added(ret, sec, ssid, key) == [ret |-> ret, added |-> TRUE,
                               sec |-> sec, ssid |-> ssid, key |-> key]

\* aes_decrypt works in place on 16 bytes of an array.
DecryptAt(array, from, key) ==
  Bytes(array, 0, from) \o Decrypt(Bytes(array, from, 16), key)
    \o Bytes(array, from + 16, Len(array) - from - 16)

\* Mutant: a passphrase of 31 bytes is not told from one of 32.
FindKey_Only32(array, at) ==
  IF At(array, at + 31) # 0 THEN [from |-> at, len |-> 32]
                            ELSE [from |-> at + 1, len |-> At(array, at)]

\* Where the passphrase is (decKeyPtr) and how long it is (keyLen).
FindKey(array, at) ==
  CASE At(array, at + 31) # 0 /\ At(array, at) = 31 ->
         [from |-> at + 1, len |-> 31]
    [] At(array, at + 31) # 0 /\ At(array, at) # 31 ->
         [from |-> at, len |-> 32]
    [] At(array, at + 31) = 0 ->
         [from |-> at + 1, len |-> At(array, at)]

\* The second block is decrypted if the declared length says there is one.
Decrypted(array, at, key) ==
  LET first == DecryptAt(array, at, key)
  IN  IF At(array, At(array, 0) + 1) > 16
      THEN DecryptAt(first, at + 16, key) ELSE first

\* The cases of the security type; WEP takes four keys of keyLen bytes from
\* decKeyPtr on and is told to use the first.  A type that is none of them adds
\* nothing and returns the 0 of the read before.
AddProfile(array, key, result) ==
  LET ssidLen == At(array, 0)
      sec     == At(array, ssidLen + 2)
      ssid    == Bytes(array, 1, ssidLen)
      text    == Bytes(array, key.from, key.len)
  IN  CASE sec = WLAN_SEC_UNSEC -> Added(result, sec, ssid, <<>>)
        [] sec = WLAN_SEC_WEP   -> Added(result, sec, ssid, text)
        [] sec \in {WLAN_SEC_WPA, WLAN_SEC_WPA2} ->
             Added(result, WLAN_SEC_WPA2, ssid, text)
        [] OTHER -> NothingAdded(0)

\* The two reads and the add are commands; keyRead, profileRead and addResult
\* are what the device answers to them.
wlan_smart_config_process(keyRead, profileRead, addResult) ==
  IF keyRead.ret # 0 THEN NothingAdded(keyRead.ret)
  ELSE IF profileRead.ret # 0 THEN NothingAdded(profileRead.ret)
  ELSE LET at    == At(profileRead.bytes, 0) + 3
           array == Decrypted(profileRead.bytes, at, keyRead.bytes)
       IN  AddProfile(array, FindKey(array, at), addResult)

-----------------------------------------------------------------------------
(* What is stored (external).                                              *)

Zeros(n) == [i \in 1..n |-> 0]

Plain(text) == IF Len(text) = 32 THEN text
               ELSE <<Len(text)>> \o text \o Zeros(31 - Len(text))

Stored(sec, name, text, key) ==
  LET bytes == <<Len(name)>> \o name \o <<32, sec>>
                 \o Encrypt(Bytes(Plain(text), 0, 16), key)
                 \o Encrypt(Bytes(Plain(text), 16, 16), key)
  IN  bytes \o Zeros(SMART_CONFIG_PROFILE_SIZE - Len(bytes))

Texts(sec) == CASE sec = WLAN_SEC_UNSEC -> {<<>>}
                [] sec = WLAN_SEC_WEP   -> WepKeys
                [] sec \in {WLAN_SEC_WPA, WLAN_SEC_WPA2} -> Passphrases

\* What was encrypted is decrypted: the keys and blocks are those in use.
ASSUME CipherAssumption ==
  \A sec \in 0..3, key \in CipherKeys : \A text \in Texts(sec), half \in {0, 16} :
    LET block  == Bytes(Plain(text), half, 16)
        cipher == Encrypt(block, key)
    IN  /\ cipher \in Seq(Octet) /\ Len(cipher) = 16
        /\ Decrypt(cipher, key) = block

Read(ret, bytes) == [ret |-> ret, bytes |-> bytes]

-----------------------------------------------------------------------------
(* Properties *)

\* Name and passphrase come out as they went in, whatever their lengths, as a
\* profile of the stored security type, WPA as WPA2; and whether the device has
\* stored it, and where, is what the function returns (wlan.c:1144-1250).
KeysRecovered ==
  \A sec \in 0..3, name \in Names, key \in CipherKeys, result \in AddResults :
    \A text \in Texts(sec) :
      wlan_smart_config_process(Read(0, key),
                                Read(0, Stored(sec, name, text, key)), result)
        = Added(result, IF sec = WLAN_SEC_WPA THEN WLAN_SEC_WPA2 ELSE sec,
                name, text)

\* If one of the two reads fails its status is returned and no profile added.
ReadErrorsReturned ==
  \A a, b \in {0, 1}, key \in CipherKeys, result \in AddResults : a + b > 0 =>
    wlan_smart_config_process(
        Read(a, key), Read(b, Zeros(SMART_CONFIG_PROFILE_SIZE)), result)
      = NothingAdded(1)
==============================================================================
