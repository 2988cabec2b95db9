------------------------------ MODULE MCParts ------------------------------
(* Values for the constants of Parts that a .cfg cannot write down.        *)
EXTENDS Parts

Area(lo, hi) == [lo |-> lo, hi |-> hi]

\* The areas in use when the boot code looks for memory: the end of the BIOS
\* area, memory above USER_MEM_START, the kernel image (twice, as in skip),
\* no command line, and two modules.
BootAreas == {<<Area(3, 4), Area(21, 25), Area(4, 6), Area(4, 6), Area(0, 0),
                Area(13, 14), Area(5, 7)>>}

\* A letter, a digit, minus, keypad star, both shifts, both controls, both
\* locks, an arrow, two codes that no key of the tables has, print screen
\* and pause.
TestKeys ==
    {<<\h1E>>, <<\h02>>, <<\h0C>>, <<\h37>>, <<\h2A>>, <<\h36>>, <<\h1D>>, <<\hE0, \h1D>>,
     <<\h3A>>, <<\h45>>, <<\hE0, \h48>>, <<\h5B>>, <<\hE0, \h5B>>, PrintScreen, Pause}
=============================================================================
