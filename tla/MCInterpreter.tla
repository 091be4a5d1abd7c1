----------------------------- MODULE MCInterpreter -----------------------------
(* What the interpreter starts from, one at a time: stories and what is      *)
(* attached to them; instructions of small images; and calls, texts and saved*)
(* states as MCCallStack has them.                                           *)
EXTENDS MCCallStack, Decoder, Story

VARIABLE focus
interpreterVars == <<vars, acts, snaps, decoderVars, storyVars, focus>>

\* Programs of nop, jump and jz with short constants, and a few of add and of longer opcodes.
MCImages == [1 .. Length -> {0, 1, 32, 34, 254}]
            \cup {<<16, 1, 0, 254, 0>>, <<0, 16, 17, 0, 1>>, <<16, 0, 0, 32, 1>>}
            \cup {<<0, 129, 32, 0, 0>>, <<129, 1, 0, 0, 32>>, <<192, 0, 0, 16, 0>>, <<0, 0, 129, 32, 1>>}

FirstImage == <<254, 254, 254, 254, 254>>

-----------------------------------------------------------------------------
GoodHeader == [version |-> TRUE, checksum |-> TRUE, ram_start |-> 1, ext_start |-> 2, end_mem |-> 3, start_func |-> 1]
MCHeaders == ("game" :> GoodHeader) @@ ("other" :> GoodHeader)
             @@ ("long" :> [GoodHeader EXCEPT !.ext_start = 3]) @@ ("sum" :> [GoodHeader EXCEPT !.checksum = FALSE])

Code(id) == DataCells(id) \o DataCells("code")
Chunk(tag, key, data) == [tag |-> tag, key |-> key, data |-> data]
Bare(id)       == [bytes |-> Code(id), chunks |-> <<>>]
Bundle(chunks) == [bytes |-> Archive(chunks), chunks |-> chunks]
Beside(suffix, chunks) == [suffix |-> suffix, bytes |-> Archive(chunks), chunks |-> chunks]

Png   == Chunk("PNG ", {<<"Pict", 1>>}, DataCells("p"))
Jpeg  == Chunk("JPEG", {<<"Pict", 1>>}, <<>>)
Aiff  == Chunk("FORM", {<<"Snd ", 3>>}, TagCells("AIFF") \o DataCells("s"))
Named(title) == Chunk("IFmd", {}, DataCells(title))
Frontis == Chunk("Fspc", {}, NumberCells(1))
Ident(id)    == Chunk("IFhd", {}, DataCells(id))

MCExecutables ==
  {Bare("game"), Bare("long"), Bare("sum"),
   Bundle(<<Chunk("GLUL", {<<"Exec", 0>>}, Code("game")), Named("Own"), Png>>),
   Bundle(<<Png, Chunk("GLUL", {}, Code("other"))>>),
   Bundle(<<Chunk("ZCOD", {<<"Exec", 0>>}, Code("game"))>>)}
MCArchives ==
  {Bundle(<<Frontis, Png, Aiff>>), Bundle(<<Named("Given"), Ident("game"), Png>>), Bundle(<<Ident("other"), Aiff>>),
   Bundle(<<Png, Jpeg>>), Bundle(<<Chunk("GLUL", {}, Code("game")), Png>>)}
MCSiblings == {Beside(0, <<Png, Named("Beside")>>), Beside(1, <<Aiff>>), Beside(1, <<Png>>)}

File(stem, number, extension, starts, cells) ==
  [stem |-> stem, number |-> number, extension |-> extension, starts |-> starts, cells |-> cells]
Form(length, type) == TagCells("FORM") \o NumberCells(length) \o TagCells(type) \o DataCells("a")
MCLooseFiles ==
  <<File("DATA", {2}, "txt", "", DataCells("t")), File("DATA", {3}, "iff", "FORM", Form(3, "TEXT")),
    File("FRONTIS", {}, "", "", NumberCells(1)), File("IDENT", {}, "", "", DataCells("game")),
    File("LOOPING", {}, "", "", DataCells("l")), File("LOOPING", {}, "bin", "", DataCells("m")),
    File("METADATA", {}, "xml", "", DataCells("Loose")), File("NOTES", {}, "txt", "", DataCells("n")),
    File("PIC", {1}, "", "PNG ", DataCells("q") \o DataCells("r")), File("PIC", {1}, "jpg", "", DataCells("j")),
    File("SND", {3}, "aif", "FORM", Form(3, "AIFF")), File("SND", {4}, "aif", "FORM", Form(2, "AIFF")),
    File("STORY", {}, "", "", DataCells("z"))>>

-----------------------------------------------------------------------------
InterpreterInit ==
  /\ MCInit /\ DecoderInit /\ StoryInit
  /\ focus \in {"calls", "decoder", "story"}
  /\ focus = "calls" \/ alphabet = CHOOSE first \in Alphabets : TRUE
  /\ focus = "decoder" \/ image = FirstImage

InterpreterNext ==
  \/ focus = "calls" /\ MCNext /\ UNCHANGED <<decoderVars, storyVars, focus>>
  \/ focus = "decoder" /\ DecoderNext /\ UNCHANGED <<vars, acts, snaps, storyVars, focus>>
  \/ focus = "story" /\ StoryNext /\ UNCHANGED <<vars, acts, snaps, decoderVars, focus>>

InterpreterSpec == InterpreterInit /\ [][InterpreterNext]_interpreterVars
=============================================================================
