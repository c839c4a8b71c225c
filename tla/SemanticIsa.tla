------------------------------ MODULE SemanticIsa ------------------------------
(***************************************************************************)
(* The binary framing of an instruction stream (semantic_isa.rs), one      *)
(* element per field the code puts or takes.  Reading past the end fails.  *)
(***************************************************************************)
EXTENDS Integers, Sequences, SequencesExt

\* A word that is no namespace.
Magic == -1

IsaVersion == 1

\* Opcode: what each instruction is on the wire.
OpcodeBytes == <<"ExpectObject", "Allocate", "AllocateDiscard", "LoadLocal", "StoreLocal",
                 "PushCell", "Define", "Forget", "Reject">>

EncodeInstruction(ins) ==
    <<(CHOOSE b \in DOMAIN OpcodeBytes : OpcodeBytes[b] = ins.op) - 1, ins.arg, ins.imm>>

EncodeTable(table) ==
    FoldLeft(LAMBDA out, entry : out \o entry, <<Len(table)>>, table)

EncodeFrame(frame) ==
    <<Magic, frame.version, frame.namespace>>
        \o EncodeTable(frame.slots) \o EncodeTable(frame.predicates) \o EncodeTable(frame.literals)
        \o <<frame.locals, Len(frame.code)>>
        \o FoldLeft(LAMBDA out, ins : out \o EncodeInstruction(ins), <<>>, frame.code)

-----------------------------------------------------------------------------
(* A cursor is the words, the position of the next one and whether every    *)
(* read so far succeeded.                                                    *)

Cursor(words) == [words |-> words, at |-> 1, ok |-> TRUE]

\* n fields further on, if there are that many.
Skip(c, n) == IF c.ok /\ c.at + n - 1 <= Len(c.words) THEN [c EXCEPT !.at = @ + n]
              ELSE [c EXCEPT !.ok = FALSE]

Peek(c) == IF c.ok /\ c.at <= Len(c.words) THEN c.words[c.at] ELSE 0

\* A counted run of records of `width' fields: the cursor behind it, and it.
AfterRun(c, width) == Skip(Skip(c, 1), Peek(c) * width)

Run(c, width) ==
    [i \in 1..Peek(c) |-> SubSeq(c.words, c.at + 1 + (i - 1) * width, c.at + i * width)]

DecodeInstruction(record) ==
    [op |-> OpcodeBytes[record[1] + 1], arg |-> record[2], imm |-> record[3]]

\* decode_instruction_stream_frame; ok is FALSE where it returns an error.
DecodeFrame(words) ==
    LET header == Skip(Cursor(words), 3)
        slots == AfterRun(header, 2)
        predicates == AfterRun(slots, 2)
        literals == AfterRun(predicates, 2)
        locals == Skip(literals, 1)
        code == AfterRun(locals, 3)
        valid == /\ code.ok /\ words[1] = Magic /\ words[2] = IsaVersion
                 /\ \A record \in Range(Run(locals, 3)) : record[1] + 1 \in DOMAIN OpcodeBytes
    IN  IF ~valid THEN [ok |-> FALSE]
        ELSE [ok |-> TRUE, consumed |-> code.at - 1,
              frame |-> [version |-> words[2], namespace |-> words[3],
                         slots |-> Run(header, 2), predicates |-> Run(slots, 2),
                         literals |-> Run(predicates, 2), locals |-> Peek(literals),
                         code |-> [i \in DOMAIN Run(locals, 3) |->
                                      DecodeInstruction(Run(locals, 3)[i])]]]
=============================================================================
