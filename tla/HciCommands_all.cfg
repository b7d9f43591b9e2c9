SPECIFICATION FairSpec
CONSTANTS SsidLens = {1, 32}
          KeyLens = {0, 8, 45, 46, 61, 62, 63}
          WepKeyLens = {5, 13}
          NameLens = {1, 99, 113, 114, 230, 231}
          ServiceLens = {5, 32, 33}
          OptLens = {4, 101, 102}
          SendLens = {1, 64}
          DatagramLens = {1, 64, 80, 81, 1400}
          NvmemLens = {6, 32, 104, 105}
          PatchLens = {0, 5, 32, 64, 101}
          Encrypt <- aes_encrypt
          Decrypt <- aes_decrypt
          CipherKeys <- CipherKeysMC
          Names <- NamesMC
          Passphrases <- PassphrasesMC
          WepKeys <- WepKeysMC
          AddResults <- AddResultsMC
          Tables <- SmallTables
INVARIANTS FrameOnBus
           OwnBytesOnly
           ResultExact
           OnlyOverrunsStop
           PatchWritten
           CipherIsAes
           ProfileRecovered
           ScanReported
           PacketsRead
PROPERTIES CallReturns
