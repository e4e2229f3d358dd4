\* Two threads start three spans, roots and children; the sampler is changed
\* and a context sent before the second.  Words of 16 bits.
CONSTANTS
  NULL = NULL
  Threads = {t1, t2}
  WordBits = 16
  ShiftA = 7
  ShiftB = 9
  ShiftC = 8
  Multiplier = 23837
  Seed = 0
  FallbackSeed = 31765
  TraceIdLen = 4
  SpanIdLen = 2
  TextMax = 4
  Samplers <- MCSamplers
  Texts <- MCTexts
  Alterations <- MCAlterations
  MaxSpans = 3
  MaxSpansEarly = 1
SPECIFICATION Spec
INVARIANTS IdsUnique TracesAreTrees ContextIntact
SYMMETRY ThreadSymmetry
CHECK_DEADLOCK FALSE
