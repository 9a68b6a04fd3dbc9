SPECIFICATION PromptSpec
CONSTANTS
  ui = ui
  loader = loader
  first = first
  second = second
  piano = piano
  raw = raw
  loop = loop
  Slots = {0, 1}
  Texts = {piano, raw}
  Overrides = {raw}
  Audios = {loop}
  Weightings = {{0}}
  Setters = {ui, loader}
  MaxCalls = 3
  Fetchers = {first, second}
SYMMETRY Interchangeable
INVARIANTS SlotConsistent FlagKept PostServed
