---------------------------- MODULE StreamCipher ----------------------------
(***************************************************************************)
(* The byte stream cipher of an encrypted connection, AES-128 in CFB8 mode *)
(* (loadstone-net crypto.rs: Cfb8).  Each byte is combined with the first  *)
(* byte of the encrypted register, and the register holds the last bytes   *)
(* of ciphertext.  The block cipher itself is any function of the register *)
(* here, and a symbol keeps whatever else it carries besides its byte.     *)
(*                                                                         *)
(* Functions where TLC should evaluate an argument once.                   *)
(***************************************************************************)
LOCAL INSTANCE Integers
LOCAL INSTANCE Sequences

CONSTANTS
  Values,       \* values of a byte (256)
  BlockLen,     \* BLOCK_LEN, bytes in the register (16)
  EncryptBlock, \* the first byte of a register once it is encrypted under the key
  Secret        \* the shared secret, the register's first content

Octets    == 0 .. Values - 1
Registers == [1 .. BlockLen -> Octets]
Symbol    == [byte : Octets, deflated : Seq([byte : Octets, deflated : {<<>>}])]

\* a ^ b, bit by bit: the sum of two bits without the carry.
Xor[a \in Octets] ==
  [b \in Octets |-> IF a = 0 THEN b ELSE ((a + b) % 2) + 2 * Xor[a \div 2][b \div 2]]

\* Faulty variant: the keystream of one block serves for the whole of it.
CachedKeystream(register) == EncryptBlock[Secret]

NextKeystreamByte(register) == EncryptBlock[register]

Output(register, input) == Xor[input][NextKeystreamByte(register)]

Feedback(encrypting, input, output) == IF encrypting THEN output ELSE input

\* What a register has been fed, its first content included.
Histories == {fed \in Seq(Octets) : Len(fed) >= BlockLen}

\* The register after that.
Register(fed) == SubSeq(fed, Len(fed) - BlockLen + 1, Len(fed))

\* One byte passes, all that was fed into the register before it being fed.
Feed(encrypting, input) ==
  [fed \in Histories |->
     Append(fed, Feedback(encrypting, input, Output(Register(fed), input)))]

\* The register and all that is fed into it while the bytes of data pass.
Fed(encrypting, register, data) ==
  LET fed[i \in 0 .. Len(data)] ==
        IF i = 0 THEN register ELSE Feed(encrypting, data[i].byte)[fed[i - 1]]
  IN  fed[Len(data)]

\* What becomes of data, given all that was fed into the register meanwhile.
Passed(data) ==
  [fed \in Histories |->
     [out      |-> [i \in 1 .. Len(data) |->
                      [data[i] EXCEPT !.byte = Output(SubSeq(fed, i, i + BlockLen - 1), @)]],
      register |-> Register(fed)]]

\* Cfb8::transform: the bytes that come out and the register they leave behind.
Transform(encrypting, register, data) == Passed(data)[Fed(encrypting, register, data)]

\* The bytes of a stream as the definition of CFB8 encrypts them: each is combined with
\* the encryption of the BlockLen bytes before it, the secret standing before the first.
Ciphertext(data) ==
  LET cipher[i \in 0 .. Len(data)] ==
        IF i = 0 THEN Secret
        ELSE LET before == cipher[i - 1]
             IN  Append(before, Xor[data[i].byte][EncryptBlock[SubSeq(before, i, i + BlockLen - 1)]])
  IN  cipher[Len(data)]

Cfb8(data) ==
  LET all == Ciphertext(data)
  IN  [i \in 1 .. Len(data) |-> [data[i] EXCEPT !.byte = all[BlockLen + i]]]
=============================================================================
