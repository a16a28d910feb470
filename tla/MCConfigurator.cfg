SPECIFICATION RenderSpec
CONSTANTS
  None = None
  Elsewhere = Elsewhere
  pump = pump
  cyclops = cyclops
  mine = mine
  a1 = a1
  a2 = a2
  d1 = d1
  d2 = d2
  c1 = c1
  c2 = c2
  Views = {pump, cyclops, mine}
  Assets = {a1, a2}
  Displays = {d1, d2}
  Canvases = {"640x480", "240x240"}
  Defaults = {pump, cyclops}
  Circular = cyclops
  Clients = {c1, c2}
  Designs <- MCDesigns
  DefaultDesign <- MCDefaultDesign
  DisplayCanvas <- MCDisplayCanvas
  Bytes <- MCBytes
  Configured <- MCConfigured
  MaxLayouts = 3
  MaxAssets = 2
  MaxTotal = 2
  MaxBindings = 1
  MaxRerouted = 1
CONSTRAINT RenderBound
SYMMETRY Symmetry
INVARIANTS RestartSound BoundIsLive
PROPERTIES ImplementsLibrary OnlyStaleRendersFail
