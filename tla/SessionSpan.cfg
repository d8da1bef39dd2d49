\* seqnum_t scaled to 16 values and the window to 4: the stream wraps from
\* every starting number, and every step of either sign below the window is
\* taken at either end.
CONSTANTS
  SeqMod = 16
  Window = 4
  MaxSpan = 8
SPECIFICATION Spec
INVARIANTS
  TypeOK
  SpanTracked
