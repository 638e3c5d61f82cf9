------------------------------ MODULE MCIrStores ------------------------------
(***************************************************************************)
(* One run for the programs that keep or make files or a database: those   *)
(* of the infrared bench with the frame format they check, the generators  *)
(* of the firmware's tables, the packager of the circuit board and the maker *)
(* of the srun library.  They share no state with each other: program says *)
(* which one an execution is about, the others stay at rest.               *)
(***************************************************************************)
EXTENDS IrLibrary, LegacyStore, CaptureStudio, CaptureConsole, DependencyDownload,
        FrameFormat, LearnedStates, PcbRelease, SrunLibrary

CONSTANTS f1, bad, p1, p2, s1, s2, gerber, drill, header, code

VARIABLE program

Cool1 == [key |-> "cool", ver |-> 1]
Cool2 == [key |-> "cool", ver |-> 2]
MCCodes == {Cool1, Cool2}
MCLegacyDirs ==
    {[code |-> Cool1, status |-> "draft", quality |-> "complete", bins |-> {f1, bad}],
     [code |-> Cool2, status |-> "approved", quality |-> "complete", bins |-> {f1}]}
MCInputs ==
    {[code |-> Cool1, quality |-> "complete"], [code |-> Cool1, quality |-> "swingUnknown"],
     [code |-> Cool2, quality |-> "incomplete"]}
MCStateCodes == {Cool1, Cool2}
MCRemoteFrames == [c \in MCStateCodes |-> IF c = Cool1 THEN {f1} ELSE {f1, bad}]

\* Files and manifest as they should be, twice; a file missing; a manifest
\* behind its files; a tree that fails the other checks; a manifest with a row
\* too many.
Tree(g, d, gListed, dListed, isFit) ==
    LET files(x, y) == [f \in HashedFiles |-> IF f = gerber THEN x ELSE y]
    IN  [files |-> files(g, d), rows |-> RightRows(files(gListed, dListed)),
         fit |-> isFit]
MCTrees == {Tree(1, 1, 1, 1, TRUE), Tree(2, 1, 2, 1, TRUE), Tree(Absent, 1, 1, 1, TRUE),
            Tree(2, 2, 1, 2, TRUE), Tree(2, 2, 2, 2, FALSE),
            [Tree(1, 1, 1, 1, TRUE) EXCEPT !.rows = Append(@, Row(Stranger, 1))]}

\* Two whole trees, one with a file missing and one with an unknown file.
Srun(h, c, unknown) ==
    [files |-> [f \in SrunFiles |-> IF f = header THEN h ELSE c], unknown |-> unknown]
MCSrunTrees == {Srun(1, 1, FALSE), Srun(2, 2, FALSE), Srun(NotThere, 1, FALSE),
                Srun(3, 1, TRUE)}

\* A program at rest starts in one state only.
Init ==
    /\ program \in {"library", "store", "studio", "console", "download", "frame",
                   "learned", "fixed", "pcb", "srun"}
    /\ LibraryInit /\ (program # "library" => metaHash = "none")
    /\ StoreInit /\ CaptureInit
    /\ ConsoleInit /\ (program # "console" => bins = [i \in Numbers |-> "none"])
    /\ DownloadInit
    /\ program # "download" => /\ file = NoFile /\ oldName = NoFile
                              /\ server.checksum /\ server.sized /\ server.ranges
    /\ FrameInit /\ (program # "frame" => frame = MakeFrame(0, <<>>))
    /\ LearnedInit
    /\ program # "learned" => form = s1
    /\ program # "fixed" => fixed.listed = {}
    /\ PcbInit
    /\ program # "pcb" => head = Tree(1, 1, 1, 1, TRUE) /\ work.kind = "package"
    /\ SrunInit /\ (program # "srun" => source = Srun(1, 1, FALSE))

Next ==
    /\ UNCHANGED program
    /\ \/ /\ program = "library" /\ LibraryNext
          /\ UNCHANGED <<storeVars, captureVars, consoleVars, downloadVars,
                       frameVars, pcbVars, srunVars, learnedVars>>
       \/ /\ program = "store" /\ StoreNext
          /\ UNCHANGED <<allLibraryVars, captureVars, consoleVars,
                       downloadVars, frameVars, pcbVars, srunVars,
                       learnedVars>>
       \/ /\ program = "studio" /\ CaptureNext
          /\ UNCHANGED <<allLibraryVars, storeVars, consoleVars,
                       downloadVars, frameVars, pcbVars, srunVars,
                       learnedVars>>
       \/ /\ program = "console" /\ ConsoleNext
          /\ UNCHANGED <<allLibraryVars, storeVars, captureVars,
                       downloadVars, frameVars, pcbVars, srunVars,
                       learnedVars>>
       \/ /\ program = "download" /\ DownloadNext
          /\ UNCHANGED <<allLibraryVars, storeVars, captureVars,
                       consoleVars, frameVars, pcbVars, srunVars,
                       learnedVars>>
       \/ /\ program = "frame" /\ FrameNext
          /\ UNCHANGED <<allLibraryVars, storeVars, captureVars,
                       consoleVars, downloadVars, pcbVars, srunVars,
                       learnedVars>>
       \/ /\ program = "pcb" /\ PcbNext
          /\ UNCHANGED <<allLibraryVars, storeVars, captureVars,
                       consoleVars, downloadVars, frameVars,
                       learnedVars, srunVars>>
       \/ /\ \/ program = "learned" /\ LearnedNext /\ UNCHANGED fixed
             \/ program = "fixed" /\ FixedNext
          /\ UNCHANGED <<allLibraryVars, storeVars, captureVars,
                       consoleVars, downloadVars, frameVars,
                       pcbVars, srunVars>>
       \/ /\ program = "srun" /\ SrunNext
          /\ UNCHANGED <<allLibraryVars, storeVars, captureVars,
                       consoleVars, downloadVars, frameVars,
                       pcbVars, learnedVars>>

Spec == Init /\ [][Next]_<<program, allLibraryVars, storeVars, captureVars, consoleVars,
                           downloadVars, frameVars, pcbVars, srunVars, learnedVars>>

\* Every variable of these programs has its type.
StoresTypeOK ==
    /\ LibraryTypeOK /\ StoreTypeOK /\ CaptureTypeOK /\ ConsoleTypeOK
    /\ DownloadTypeOK /\ FrameTypeOK /\ LearnedTypeOK /\ PcbTypeOK
    /\ SrunTypeOK

\* At most one process has the library open (StudioRuntime), and what it holds
\* canonical for an approved state is a valid frame that was captured for that
\* state as it is defined (IrLibrary).
LibraryTruth == OneLibraryOwner /\ CanonicalTruth

\* What a later reader relies on stays: no step changes an approved state of the
\* database (IrLibrary), and none replaces a frame recorded in the file library
\* (LegacyStore).
ApprovedKept == ApprovedFrozen /\ FramesKept

\* What a capture program counts as captured is on disk as it was counted: in
\* the window (CaptureStudio) and in the terminal (CaptureConsole).
CountedOnDisk == CountedComplete /\ KeptOrSound

\* What the firmware is compiled with was captured and chosen for what it
\* stands for: the Learning Studio's include (IrLibrary), the table of the
\* learned states and the frame of capture 002 (LearnedStates).
GeneratedBacked == IncludeBacked /\ TableOwned /\ FixedListed

\* What a tool accepts from outside, or hands out, is exactly what it stands
\* for: a downloaded archive (DependencyDownload), the manufacturing package
\* (PcbRelease), the library made for the Arduino IDE (SrunLibrary).
DeliveredExact == ResumeExact /\ PackageExact /\ SrunExact

Symmetry == Permutations({p1, p2})
=============================================================================
