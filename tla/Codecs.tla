-------------------------------- MODULE Codecs --------------------------------
(***************************************************************************)
(* The pure algorithms of the program, put to the test: the numbers and    *)
(* the key exchange of MTProto, the formats of the wire, the forms of text.*)
(* A question is a tuple <<form, inputs...>>; each module says what must   *)
(* hold of the answer (NumberAgrees, KeyAgrees, WireAgrees, TextAgrees).   *)
(***************************************************************************)
EXTENDS KeyExchange

CONSTANTS ByteBase, PacketMax, Schema, HashBlock, LengthSize, CodeMax,  \* see WireFormats
          MaxDepth, IntBits,                                            \* see TextForms
          Questions       \* BOUND: of each family (numbers, keys, wire, text) those asked

Formats == INSTANCE WireFormats
Forms == INSTANCE TextForms

VARIABLE question

codecVars == <<question>>

CodecInit == question \in UNION {{family} \X Questions[family] : family \in DOMAIN Questions}

\* Every algorithm answers as its reference definition does: long arithmetic by words
\* as the integers do, what is written read back as it was, hashes and ciphers fed in
\* pieces as fed at once, times and texts as their standards say.
CodecsAgree == LET q == question[2] IN
    CASE question[1] = "numbers" -> NumberAgrees(q)
      [] question[1] = "keys" -> KeyAgrees(q)
      [] question[1] = "wire" -> Formats!WireAgrees(q)
      [] question[1] = "text" -> Forms!TextAgrees(q)
      [] OTHER -> TRUE  \* nothing is asked
===============================================================================
