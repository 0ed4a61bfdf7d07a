---------------------------- MODULE MediaCapture ----------------------------
(***************************************************************************)
(* What a run draws and plays (cartridge-media, graphics.rs HeadlessDisplay *)
(* and the audio captures of the runtime's host.rs): windows, the frames   *)
(* presented in them, and rendered audio, kept until the run ends within a *)
(* budget of pieces and of bytes.                                          *)
(*                                                                         *)
(* Data abstraction: a window is known by its size, a document by its      *)
(* simulation tick and by whether it is well formed; the bytes of a frame  *)
(* are the size of its window, those of a sound its length.                *)
(***************************************************************************)
EXTENDS Integers, Sequences, FiniteSets

CONSTANTS MaxWindows,   \* GraphicsLimits::max_windows
          MaxPixels,    \* GraphicsLimits::max_pixels
          MaxFrames,    \* MAX_CAPTURED_FRAMES
          MaxCaptured,  \* MAX_CAPTURED_GRAPHICS_BYTES
          MaxRenders,   \* MAX_CAPTURED_AUDIO_RENDERS
          MaxSound      \* MAX_CAPTURED_AUDIO_BYTES

ASSUME MediaAssumption ==
    /\ {MaxWindows, MaxPixels, MaxFrames, MaxCaptured, MaxRenders, MaxSound} \subseteq Nat

Ok(value) == [tag |-> "ok", value |-> value]

Err == [tag |-> "error"]

NoTick == -1

\* HeadlessDisplay::new, and the empty captures of HostState.
NewMedia == [windows |-> {}, next |-> 1, frames |-> <<>>, captured |-> 0,
             renders |-> 0, sound |-> 0]

\* validate_window
ValidWindow(size) == size > 0 /\ size <= MaxPixels

Window(media, handle) == {w \in media.windows : w.handle = handle}

\* HeadlessDisplay::open
OpenWindow(media, size) ==
    IF ~ValidWindow(size) \/ Cardinality(media.windows) = MaxWindows
    THEN [media |-> media, out |-> Err]
    ELSE [media |-> [media EXCEPT !.next = @ + 1,
                        !.windows = @ \cup {[handle |-> media.next, size |-> size,
                                             frame |-> 0, tick |-> NoTick]}],
          out |-> Ok(media.next)]

\* HeadlessDisplay::resize
ResizeWindow(media, handle, size) ==
    IF ~ValidWindow(size) \/ Window(media, handle) = {}
    THEN [media |-> media, out |-> Err]
    ELSE [media |-> [media EXCEPT !.windows = {IF w.handle = handle THEN [w EXCEPT !.size = size] ELSE w :
                                                w \in media.windows}],
          out |-> Ok(0)]

\* HeadlessDisplay::close
CloseWindow(media, handle) ==
    IF Window(media, handle) = {} THEN [media |-> media, out |-> Err]
    ELSE [media |-> [media EXCEPT !.windows = @ \ Window(media, handle)], out |-> Ok(0)]

\* The budget of HeadlessDisplay::present, with the frame.
Fits(media, size) == Len(media.frames) < MaxFrames /\ media.captured + size <= MaxCaptured

\* HeadlessDisplay::present: a frame over the budget closes the capture for
\* every frame after it.
PresentFrame(media, handle, tick) ==
    IF Len(media.frames) = MaxFrames \/ media.captured >= MaxCaptured
    THEN [media |-> media, out |-> Err]
    ELSE IF \A w \in Window(media, handle) : tick < w.tick
    THEN [media |-> media, out |-> Err]
    ELSE LET w == CHOOSE x \in Window(media, handle) : TRUE
             shot == [handle |-> handle, frame |-> w.frame, tick |-> tick, size |-> w.size]
         IN  IF ~Fits(media, w.size)
             THEN [media |-> [media EXCEPT !.captured = MaxCaptured], out |-> Err]
             ELSE [media |-> [media EXCEPT
                        !.windows = (@ \ {w}) \cup {[w EXCEPT !.frame = @ + 1, !.tick = tick]},
                        !.frames = Append(@, shot),
                        !.captured = @ + w.size],
                   out |-> [tag |-> "ok", receipt |-> shot]]

\* audio_render: the sound is rendered first and dropped when it is too long.
RenderSound(media, length) ==
    IF media.renders = MaxRenders \/ media.sound >= MaxSound
    THEN [media |-> media, out |-> Err]
    ELSE IF media.sound + length > MaxSound
    THEN [media |-> [media EXCEPT !.sound = MaxSound], out |-> Err]
    ELSE [media |-> [media EXCEPT !.renders = @ + 1, !.sound = @ + length], out |-> Ok(length)]

-----------------------------------------------------------------------------
\* The frames of a window are numbered without a gap, with ticks that never go
\* back, across resizes, refused frames and windows that are closed and opened
\* again, and no more of them are kept than allowed (HeadlessDisplay::present).
FramesInOrder(media) ==
    /\ Len(media.frames) <= MaxFrames /\ media.captured <= MaxCaptured
    /\ media.renders <= MaxRenders /\ media.sound <= MaxSound
    /\ \A i, j \in DOMAIN media.frames :
          i < j /\ media.frames[i].handle = media.frames[j].handle =>
              /\ media.frames[i].tick <= media.frames[j].tick
              /\ media.frames[i].frame < media.frames[j].frame
    /\ \A i \in DOMAIN media.frames : media.frames[i].frame > 0 =>
          \E j \in 1 .. i - 1 : /\ media.frames[j].handle = media.frames[i].handle
                                /\ media.frames[j].frame = media.frames[i].frame - 1

\* The frames are in order, and the bytes of those that are kept are within the
\* budget (HeadlessDisplay::present).
CaptureIsOrdered(media) ==
    /\ FramesInOrder(media)
    /\ LET bytes[i \in 0 .. Len(media.frames)] ==
               IF i = 0 THEN 0 ELSE bytes[i - 1] + media.frames[i].size
       IN  bytes[Len(media.frames)] <= media.captured
=============================================================================
