----------------------------- MODULE Catalogue -----------------------------
(***************************************************************************)
(* The built-in nodes: what each definition of nodes/ declares to the      *)
(* compiler, the editor and the parameter fields.  Labels, help texts,     *)
(* aliases and the runtime factories are left out; the behaviour of the    *)
(* runtimes is in the modules of the nodes.  Rules between parameters are  *)
(* there where they order two of them; those of crop, noise, convolve, the *)
(* morphology, the region of a video and the ranges of remap_number and    *)
(* channel_to_pitch, which depend on other values, are left out.           *)
(***************************************************************************)
EXTENDS Nodes, TLC

\* The generic types of the ports (nodes/utility/core.py,
\* nodes/utility/dynamic.py, nodes/image/runtime_support.py).
T == TypeVariable("T", {}, "")
SCALAR_T == TypeVariable("T", {"INT", "FLOAT"}, "FLOAT")
DYNAMIC_T == TypeVariable("T", {"FLOAT", "INT", "IMAGE", "CHANNEL"}, "")
DYNAMIC_ARRAY_T == ArrayTypeVariable("T", {"FLOAT", "INT", "IMAGE", "CHANNEL"})
IMAGE_OR_CHANNEL == TypeVariable("IMAGE_OR_CHANNEL", {"IMAGE", "CHANNEL"}, "")

Image == Type("IMAGE")
Channel == Type("CHANNEL")
Midi == Type("MIDI_STATE")

\* _definition of nodes/image/filters.py and of nodes/image/adjustments.py.
Filter(parameters) ==
  NodeDefinition("STATELESS", [image |-> Required(IMAGE_OR_CHANNEL)],
     [image |-> IMAGE_OR_CHANNEL], parameters)

DynamicAdjustment(parameters) == Filter(parameters)

Adjustment(parameters) ==
  NodeDefinition("STATELESS", [image |-> Required(Image)], [image |-> Image], parameters)

-----------------------------------------------------------------------------
(* Sources (nodes/input).                                                   *)

LoadCameraNode ==
  [NodeDefinition("SOURCE",
     NoPorts,
     [image |-> Image, processed_index |-> Type("INT")],
     [device_id |-> RestartSource(Text),
      requested_width |-> RestartSource(Integer(1280, 1, Inf)),
      requested_height |-> RestartSource(Integer(720, 1, Inf)),
      requested_fps |-> RestartSource(Float(30000, 100, Inf)),
      backend_preference |-> RestartSource(Choice(0, 4)),
      process_every_nth_frame |-> RestartSource(Integer(1, 1, Inf)),
      reconnect_automatically |-> RestartSource(Flag(TRUE))]) EXCEPT
     !.cache = "NEVER"]

LoadVideoNode ==
  [NodeDefinition("SOURCE",
     NoPorts,
     [image |-> Image, processed_index |-> Type("INT")],
     [file_path |-> RestartSource(Text),
      playback_speed |-> RestartSource(Float(1000, 250, 4000)),
      process_every_nth_frame |-> RestartSource(Integer(1, 1, Inf)),
      loop |-> RestartSource(Flag(FALSE)),
      loop_start_s |-> RestartSource(Float(0, 0, Inf)),
      loop_end_s |-> RestartSource(Float(0, 0, Inf)),
      stream_index |-> RestartSource(Integer(0, 0, Inf))]) EXCEPT
     !.version = 2, !.migrations = {0, 1}, !.cache = "NEVER"]

-----------------------------------------------------------------------------
(* Image nodes (nodes/image).                                               *)

NoiseParameters ==
  [noise_type |-> Choice(0, 3), amount |-> Float(50, 0, Inf),
   seed |-> Integer(0, -Inf, Inf), monochrome |-> Flag(FALSE),
   animate_seed |-> Flag(FALSE), channels |-> Choice(0, 5)]

AddNoiseNode ==
  [Filter(NoiseParameters) EXCEPT
     !.version = 2, !.migrations = {1}]

AddScalarNode ==
  [DynamicAdjustment([value |-> AnyFloat(0), channels |-> Choice(0, 5)]) EXCEPT
     !.version = 2, !.migrations = {1}]

BlendParameters ==
  [blend_mode |-> Choice(0, 7), opacity |-> Float(1000, 0, 1000),
   alpha_policy |-> Choice(0, 3)]

BlendImagesNode ==
  NodeDefinition("STATELESS",
     [a |-> Required(Image), b |-> Required(Image),
      mask |-> Optional(Channel)],
     [image |-> Image],
     BlendParameters)

BrightnessNode ==
  [Adjustment([offset |-> AnyFloat(0), channels |-> Choice(0, 5)]) EXCEPT
     !.version = 2, !.migrations = {1}]

CannyParameters ==
  [low_threshold |-> Float(100, 0, 1000),
   high_threshold |-> Float(300, 0, 1000),
   aperture_size |-> OneOf(3, {3, 5, 7}), l2_gradient |-> Flag(FALSE),
   pre_blur_sigma |-> Float(0, 0, Inf)]

CannyNode ==
  [NodeDefinition("STATELESS",
     [image |-> Required(Image)],
     [channel |-> Channel],
     CannyParameters) EXCEPT
     !.ordered = {<<"low_threshold", "high_threshold", FALSE>>}]

ChangeColourSpaceNode ==
  [NodeDefinition("STATELESS", [image |-> Required(Image)], [image |-> Image],
     [target_colour_space |-> Choice(2, 6)]) EXCEPT
     !.version = 2, !.migrations = {1}]

ClampNode ==
  [DynamicAdjustment(
     [minimum |-> AnyFloat(0), maximum |-> AnyFloat(1000),
      channels |-> Choice(0, 5)]) EXCEPT
     !.version = 2,
     !.migrations = {1},
     !.ordered = {<<"minimum", "maximum", FALSE>>}]

ColourLevelsNode ==
  [Adjustment(
     [input_black |-> AnyFloat(0), input_white |-> AnyFloat(1000),
      gamma |-> Float(1000, 1, Inf), output_black |-> AnyFloat(0),
      output_white |-> AnyFloat(1000), channels |-> Choice(0, 5)]) EXCEPT
     !.version = 2,
     !.migrations = {1},
     !.ordered = {<<"input_black", "input_white", TRUE>>}]

CombineChannelsNode ==
  [NodeDefinition("STATELESS",
     [channel_1 |-> Required(Channel), channel_2 |-> Required(Channel),
      channel_3 |-> Required(Channel)],
     [image |-> Image],
     [target_colour_space |-> Recompile(Choice(1, 6))]) EXCEPT
     !.version = 2, !.migrations = {1}, !.noData = TRUE]

ContrastNode ==
  [Adjustment(
     [factor |-> AnyFloat(1000), pivot |-> AnyFloat(500),
      channels |-> Choice(0, 5)]) EXCEPT
     !.version = 2, !.migrations = {1}]

ConvolveParameters ==
  [kernel |-> Matrix, normalization |-> Choice(0, 3),
   scale |-> AnyFloat(1000), delta |-> AnyFloat(0),
   border_mode |-> Choice(0, 5)]

ConvolveNode ==
  Filter(ConvolveParameters)

CropNode ==
  [NodeDefinition("STATELESS",
     [image |-> Required(IMAGE_OR_CHANNEL)],
     [image |-> IMAGE_OR_CHANNEL],
     [coordinate_mode |-> Choice(0, 2), left |-> AnyFloat(0),
      top |-> AnyFloat(0), right |-> AnyFloat(1000),
      bottom |-> AnyFloat(1000), out_of_bounds |-> Choice(0, 3),
      pad_colour |-> Colour]) EXCEPT
     !.ordered = {<<"left", "right", TRUE>>,
         <<"top", "bottom", TRUE>>}]

DifferenceNode ==
  NodeDefinition("STATELESS",
     [a |-> Required(Image), b |-> Required(Image)],
     [image |-> Image],
     [normalize |-> Flag(FALSE)])

MorphParameters ==
  [kernel_shape |-> Choice(0, 3), kernel_width |-> Stepped(3, 1, Inf, 2),
   kernel_height |-> Stepped(3, 1, Inf, 2), iterations |-> Integer(1, 1, Inf),
   anchor_x |-> Integer(-1, -1, Inf), anchor_y |-> Integer(-1, -1, Inf),
   border_mode |-> Choice(0, 5), process_alpha |-> Flag(FALSE)]

DilateNode ==
  Filter(MorphParameters)

DivideScalarNode ==
  [DynamicAdjustment(
     [value |-> AnyFloat(1000), near_zero_policy |-> Choice(0, 3),
      epsilon |-> Float(1, 1, Inf), channels |-> Choice(0, 5)]) EXCEPT
     !.version = 2, !.migrations = {1}]

ErodeNode ==
  Filter(MorphParameters)

FlipNode ==
  NodeDefinition("STATELESS",
     [image |-> Required(IMAGE_OR_CHANNEL)],
     [image |-> IMAGE_OR_CHANNEL],
     [mode |-> Choice(0, 3)])

GammaNode ==
  [Adjustment([gamma |-> Float(1000, 1, Inf), channels |-> Choice(0, 5)]) EXCEPT
     !.version = 2, !.migrations = {1}]

GaussianParameters ==
  [kernel_width |-> Stepped(3, 1, Inf, 2),
   kernel_height |-> Stepped(3, 1, Inf, 2), sigma_x |-> Float(0, 0, Inf),
   sigma_y |-> Float(0, 0, Inf), border_mode |-> Choice(0, 5)]

GaussianBlurNode ==
  Filter(GaussianParameters)

HighPassParameters ==
  [sigma |-> Float(1000, 1, Inf), display_offset |-> AnyFloat(0),
   gain |-> AnyFloat(1000), border_mode |-> Choice(0, 5)]

HighPassNode ==
  Filter(HighPassParameters)

HoldImageNode ==
  NodeDefinition("STATEFUL", [image |-> Required(Image)], [image |-> Image],
     [delay_frames |-> Recompile(Integer(1, 1, 600)),
      memory_limit_mb |-> Recompile(Integer(256, 1, 4096))])

HueNode ==
  [Adjustment([turns |-> Float(0, 0, 1000)]) EXCEPT
     !.version = 2, !.migrations = {1}]

InvertColourNode ==
  [Adjustment(NoParameters) EXCEPT
     !.version = 2, !.migrations = {1}]

LowPassParameters ==
  [sigma |-> Float(1000, 1, Inf), border_mode |-> Choice(0, 5)]

LowPassNode ==
  Filter(LowPassParameters)

MultiplyScalarNode ==
  [DynamicAdjustment([value |-> AnyFloat(1000), channels |-> Choice(0, 5)]) EXCEPT
     !.version = 2, !.migrations = {1}]

PosterizeParameters ==
  [levels |-> Integer(4, 2, Inf), clamp_input |-> Flag(TRUE),
   channels |-> Choice(0, 5)]

PosterizeNode ==
  [Filter(PosterizeParameters) EXCEPT
     !.version = 2, !.migrations = {1}]

PosterizeTimeNode ==
  NodeDefinition("STATEFUL", [image |-> Required(Image)], [image |-> Image],
     [interval_frames |-> Integer(2, 1, 600)])

ResizeNode ==
  NodeDefinition("STATELESS",
     [image |-> Required(IMAGE_OR_CHANNEL)],
     [image |-> IMAGE_OR_CHANNEL],
     [width |-> Integer(500, 1, 8192), height |-> Integer(500, 1, 8192),
      preserve_aspect |-> Flag(TRUE), fit_mode |-> Choice(1, 3),
      interpolation |-> Choice(0, 6)])

RotateNode ==
  NodeDefinition("STATELESS",
     [image |-> Required(IMAGE_OR_CHANNEL)],
     [image |-> IMAGE_OR_CHANNEL],
     [angle_degrees |-> AnyFloat(0), centre_x |-> Float(500, 0, 1000),
      centre_y |-> Float(500, 0, 1000), expand_canvas |-> Flag(FALSE),
      interpolation |-> Choice(0, 6), border_mode |-> Choice(0, 5),
      border_colour |-> Colour])

SaturationNode ==
  Adjustment([factor |-> Float(1000, 0, Inf)])

SeparateChannelsNode ==
  [NodeDefinition("STATELESS",
     [image |-> Required(Image)],
     [channel_1 |-> Channel, channel_2 |-> Channel, channel_3 |-> Channel],
     NoParameters) EXCEPT
     !.version = 2, !.migrations = {1}]

SharpenParameters ==
  [amount |-> AnyFloat(1000), sigma |-> Float(1000, 1, Inf),
   threshold |-> Float(0, 0, Inf), border_mode |-> Choice(0, 5)]

SharpenNode ==
  Filter(SharpenParameters)

StretchContrastNode ==
  [Adjustment(
     [mode |-> Choice(0, 2), lower_percentile |-> Float(0, 0, 100000),
      upper_percentile |-> Float(100000, 0, 100000),
      ignore_non_finite |-> Flag(TRUE), constant_policy |-> Choice(0, 3),
      channels |-> Choice(0, 5)]) EXCEPT
     !.version = 2,
     !.migrations = {1},
     !.ordered = {<<"lower_percentile", "upper_percentile", TRUE>>}]

ThresholdParameters ==
  [mode |-> Choice(0, 5), threshold |-> AnyFloat(500),
   maximum |-> AnyFloat(1000)]

ThresholdNode ==
  NodeDefinition("STATELESS",
     [channel |-> Required(Channel)],
     [channel |-> Channel],
     ThresholdParameters)

ToLuminanceNode ==
  NodeDefinition("STATELESS",
     [image |-> Required(Image)],
     [channel |-> Channel],
     NoParameters)

-----------------------------------------------------------------------------
(* Image to music (nodes/synesthesia).                                      *)

MusicalParameters ==
  [root_pitch_class |-> Choice(0, 12), scale |-> Choice(0, 15),
   custom_scale_mask |-> Text, midi_minimum |-> Integer(0, 0, 127),
   midi_maximum |-> Integer(127, 0, 127), midi_channel |-> Integer(1, 1, 16),
   maximum_polyphony |-> Integer(16, 1, 128),
   minimum_velocity |-> Integer(1, 1, 127),
   maximum_velocity |-> Integer(127, 1, 127)]

MusicalOrder ==
  {<<"midi_minimum", "midi_maximum", FALSE>>,
   <<"minimum_velocity", "maximum_velocity", FALSE>>}

ChannelToPitchNode ==
  [NodeDefinition("STATELESS",
     [value |-> Required(Channel), parameter_a |-> Optional(Channel),
      parameter_b |-> Optional(Channel)],
     [midi |-> Midi],
     MusicalParameters @@
     [occupancy_threshold_percent |-> Float(0, 0, 100000),
      minimum_a |-> AnyFloat(0), maximum_a_enabled |-> Flag(FALSE),
      maximum_a |-> AnyFloat(1000), minimum_b |-> AnyFloat(0),
      maximum_b_enabled |-> Flag(FALSE), maximum_b |-> AnyFloat(1000),
      ignore_non_finite |-> Flag(TRUE), binning_mode |-> Choice(0, 1)]) EXCEPT
     !.ordered = MusicalOrder]

EdgesToPitchNode ==
  [NodeDefinition("STATELESS", [edges |-> Required(Channel)], [midi |-> Midi],
     MusicalParameters @@
     [minimum_contour_area |-> Float(1000, 0, Inf),
      minimum_contour_perimeter |-> Float(1000, 0, Inf),
      retrieval_mode |-> Choice(0, 2), pitch_feature |-> Choice(2, 6),
      velocity_feature |-> Choice(6, 7), pitch_minimum |-> AnyFloat(0),
      pitch_maximum |-> AnyFloat(1000), velocity_minimum |-> AnyFloat(0),
      velocity_maximum |-> AnyFloat(1000),
      contour_limit |-> Integer(128, 1, 4096)]) EXCEPT
     !.ordered = MusicalOrder \cup
        {<<"pitch_minimum", "pitch_maximum", TRUE>>,
         <<"velocity_minimum", "velocity_maximum", TRUE>>}]

FourierNode ==
  [NodeDefinition("STATEFUL", [value |-> Required(Channel)], [midi |-> Midi],
     MusicalParameters @@
     [window |-> Choice(1, 3), subtract_mean |-> Flag(TRUE),
      frequency_mapping |-> Choice(0, 3),
      frequency_minimum |-> Float(0, 0, 1000),
      frequency_maximum |-> Float(1000, 0, 1000),
      amplitude_floor |-> AnyFloat(0), amplitude_ceiling |-> AnyFloat(10000),
      dc_exclusion_radius |-> Float(0, 0, 1000),
      band_aggregation |-> Choice(0, 2),
      percentile |-> Float(90000, 0, 100000),
      activation_threshold |-> Float(0, 0, 1000),
      analysis_max_dimension |-> Integer(0, 0, 4096)]) EXCEPT
     !.ordered = MusicalOrder \cup
        {<<"frequency_minimum", "frequency_maximum", TRUE>>,
         <<"amplitude_floor", "amplitude_ceiling", TRUE>>}]

OpticalFlowNode ==
  [NodeDefinition("STATELESS",
     [current |-> Required(Image), reference |-> Required(Image)],
     [midi |-> Midi],
     MusicalParameters @@
     [flow_preset |-> Choice(1, 3),
      minimum_motion_magnitude |-> Float(500, 0, Inf),
      pitch_feature |-> Choice(0, 4), velocity_feature |-> Choice(0, 3),
      grid_rows |-> Integer(4, 1, 64), grid_columns |-> Integer(4, 1, 64),
      aggregation |-> Choice(0, 2), magnitude_minimum |-> Float(0, 0, Inf),
      magnitude_maximum |-> Float(10000, 0, Inf),
      analysis_max_dimension |-> Integer(0, 0, 4096)]) EXCEPT
     !.ordered = MusicalOrder \cup
        {<<"magnitude_minimum", "magnitude_maximum", TRUE>>}]

RegionGridNode ==
  [NodeDefinition("STATELESS", [image |-> Required(Image)], [midi |-> Midi],
     MusicalParameters @@
     [metric |-> Choice(0, 7), grid_rows |-> Integer(4, 1, 64),
      grid_columns |-> Integer(4, 1, 64),
      activation_threshold |-> Float(500, 0, 1000)]) EXCEPT
     !.ordered = MusicalOrder]

ScanlineNode ==
  [NodeDefinition("STATEFUL", [value |-> Required(Channel)], [midi |-> Midi],
     MusicalParameters @@
     [direction |-> Choice(0, 3), advance_rows |-> Integer(1, 1, 8192),
      line_thickness |-> Integer(1, 1, 8192), metric |-> Choice(0, 2),
      aggregation |-> Choice(0, 2),
      activation_threshold |-> Float(0, 0, 1000),
      velocity_curve_exponent |-> Float(1000, 10, 16000)]) EXCEPT
     !.ordered = MusicalOrder]

-----------------------------------------------------------------------------
(* Utilities (nodes/utility).                                               *)

BufferNode ==
  NodeDefinition("STATEFUL",
     [value |-> Required(DYNAMIC_T)],
     [values |-> DYNAMIC_ARRAY_T],
     [capacity |-> Recompile(Integer(8, 1, 600))])

CompareNode ==
  NodeDefinition("STATELESS",
     [a |-> Required(Type("FLOAT")), b |-> Required(Type("FLOAT"))],
     [value |-> Type("BOOL")],
     [operation |-> Choice(0, 7), absolute_tolerance |-> Float(1, 0, Inf),
      relative_tolerance |-> Float(1, 0, Inf)])

ConditionalNode ==
  NodeDefinition("STATELESS",
     [condition |-> Required(Type("BOOL")), if_true |-> Required(T),
      if_false |-> Required(T)],
     [value |-> T],
     NoParameters)

CurveNode ==
  NodeDefinition("STATELESS",
     [value |-> Required(DYNAMIC_T)],
     [value |-> DYNAMIC_T],
     [curve |-> Choice(0, 4), exponent |-> Float(1000, 1, Inf),
      gain |-> Float(4000, 1, Inf), midpoint |-> AnyFloat(500)])

FloatToIntegerNode ==
  NodeDefinition("STATELESS",
     [value |-> Required(Type("FLOAT"))],
     [value |-> Type("INT")],
     [mode |-> Choice(0, 4)])

LogicNode ==
  NodeDefinition("STATELESS",
     [a |-> Required(Type("BOOL")), b |-> Required(Type("BOOL"))],
     [value |-> Type("BOOL")],
     [operation |-> Choice(0, 6)])

MathNode ==
  [NodeDefinition("STATELESS",
     [a |-> Required(Type("FLOAT")), b |-> Optional(Type("FLOAT"))],
     [value |-> Type("FLOAT")],
     [operation |-> Choice(0, 16)]) EXCEPT
     !.unary = {8, 9, 10, 11, 12, 13, 14, 15}]

MidiMergeNode ==
  [NodeDefinition("STATELESS", NoPorts, [midi |-> Midi],
     NoParameters) EXCEPT
     !.family = VariadicInputSpec("midi", Midi, 2)]

ModuloAccumulatorNode ==
  NodeDefinition("STATEFUL",
     [value |-> Required(DYNAMIC_T)],
     [value |-> DYNAMIC_T],
     [modulo |-> Float(1000, 1, Inf)])

MultiplyVelocityNode ==
  NodeDefinition("STATELESS", [midi |-> Required(Midi)], [midi |-> Midi],
     [factor |-> Float(1000, 0, Inf)])

NormalizeNode ==
  [NodeDefinition("STATELESS",
     [value |-> Required(DYNAMIC_T)],
     [value |-> DYNAMIC_T],
     [mode |-> Choice(0, 2), input_minimum |-> AnyFloat(0),
      input_maximum |-> AnyFloat(1000), output_minimum |-> AnyFloat(0),
      output_maximum |-> AnyFloat(1000)]) EXCEPT
     !.ordered = {<<"output_minimum", "output_maximum", FALSE>>}]

NumberNode ==
  [NodeDefinition("STATELESS", NoPorts, [value |-> SCALAR_T],
     [value |-> AnyFloat(0)]) EXCEPT
     !.version = 4, !.migrations = {0, 1, 2, 3}, !.cache = "STATIC"]

PassThroughNode ==
  NodeDefinition("STATELESS", [value |-> Required(T)], [value |-> T],
     NoParameters)

RemapNumberNode ==
  NodeDefinition("STATELESS",
     [value |-> Required(Type("FLOAT"))],
     [value |-> Type("FLOAT")],
     [input_minimum |-> AnyFloat(0), input_maximum |-> AnyFloat(1000),
      output_minimum |-> AnyFloat(0), output_maximum |-> AnyFloat(1000),
      clamp |-> Flag(FALSE)])

StatisticsNode ==
  [NodeDefinition("STATELESS", NoPorts, [value |-> DYNAMIC_T],
     [statistic |-> Choice(0, 6), percentile |-> Float(50000, 0, 100000)]) EXCEPT
     !.version = 2,
     !.migrations = {1},
     !.family = VariadicInputSpec("values", DYNAMIC_ARRAY_T, 1)]

TransposeNode ==
  NodeDefinition("STATELESS", [midi |-> Required(Midi)], [midi |-> Midi],
     [semitones |-> Integer(0, -127, 127)])

-----------------------------------------------------------------------------
(* Visualizers (nodes/visualization).                                       *)

ChannelDisplayNode ==
  [NodeDefinition("VISUALIZER", [channel |-> Required(Channel)], NoOutputs,
     [fit_mode |-> Choice(1, 3), value_display_mode |-> Choice(0, 1),
      show_histogram |-> Flag(FALSE)]) EXCEPT
     !.version = 2, !.migrations = {1}, !.cache = "NEVER"]

DisplayImageDataNode ==
  [NodeDefinition("VISUALIZER", [image |-> Required(Image)], NoOutputs,
     [fit_mode |-> Choice(1, 3), checkerboard_alpha |-> Flag(TRUE),
      value_display_mode |-> Choice(0, 1), show_histogram |-> Flag(FALSE)]) EXCEPT
     !.version = 2, !.migrations = {1}, !.cache = "NEVER"]

NoteVisualizerNode ==
  [NodeDefinition("VISUALIZER", [midi |-> Required(Midi)], NoOutputs,
     NoParameters) EXCEPT
     !.cache = "NEVER"]

-----------------------------------------------------------------------------
(* Sinks (nodes/output).                                                    *)

GenerateAudioNode ==
  [NodeDefinition("SINK", [midi |-> Required(Midi)], NoOutputs,
     [enabled |-> Flag(FALSE), waveform |-> Choice(0, 3),
      volume |-> Float(150, 0, 1000), attack_ms |-> Float(10000, 0, 2000000),
      release_ms |-> Float(80000, 0, 5000000),
      max_voices |-> Integer(32, 1, 128), output_device |-> Text]) EXCEPT
     !.cache = "NEVER", !.noData = TRUE]

SendMidiNode ==
  [NodeDefinition("SINK", [midi |-> Required(Midi)], NoOutputs,
     [output_port |-> Recompile(Text),
      velocity_update_policy |-> Choice(0, 3),
      velocity_change_threshold |-> Integer(4, 0, 127)]) EXCEPT
     !.cache = "NEVER", !.noData = TRUE]
-----------------------------------------------------------------------------
(* create_builtin_registry: the node types by the last part of their        *)
(* identifier.                                                              *)

\* create_builtin_registry.
BuiltinRegistry ==
  [add_noise |-> AddNoiseNode, add_scalar |-> AddScalarNode,
   blend_images |-> BlendImagesNode, brightness |-> BrightnessNode,
   canny |-> CannyNode, change_colour_space |-> ChangeColourSpaceNode,
   clamp |-> ClampNode, colour_levels |-> ColourLevelsNode,
   combine_channels |-> CombineChannelsNode, contrast |-> ContrastNode,
   convolve |-> ConvolveNode, crop |-> CropNode,
   difference |-> DifferenceNode, dilate |-> DilateNode,
   divide_scalar |-> DivideScalarNode, erode |-> ErodeNode, flip |-> FlipNode,
   gamma |-> GammaNode, gaussian_blur |-> GaussianBlurNode,
   high_pass |-> HighPassNode, hold_image |-> HoldImageNode, hue |-> HueNode,
   invert_colour |-> InvertColourNode, low_pass |-> LowPassNode,
   multiply_scalar |-> MultiplyScalarNode, posterize |-> PosterizeNode,
   posterize_time |-> PosterizeTimeNode, resize |-> ResizeNode,
   rotate |-> RotateNode, saturation |-> SaturationNode,
   separate_channels |-> SeparateChannelsNode, sharpen |-> SharpenNode,
   stretch_contrast |-> StretchContrastNode, threshold |-> ThresholdNode,
   to_luminance |-> ToLuminanceNode, load_camera |-> LoadCameraNode,
   load_video |-> LoadVideoNode, generate_audio |-> GenerateAudioNode,
   send_midi |-> SendMidiNode, channel_to_pitch |-> ChannelToPitchNode,
   edges_to_pitch |-> EdgesToPitchNode, fourier |-> FourierNode,
   optical_flow |-> OpticalFlowNode, region_grid |-> RegionGridNode,
   scanline |-> ScanlineNode, buffer |-> BufferNode, compare |-> CompareNode,
   conditional |-> ConditionalNode, curve |-> CurveNode,
   float_to_integer |-> FloatToIntegerNode, logic |-> LogicNode,
   math |-> MathNode, midi_merge |-> MidiMergeNode,
   modulo_accumulator |-> ModuloAccumulatorNode,
   multiply_velocity |-> MultiplyVelocityNode, normalize |-> NormalizeNode,
   number |-> NumberNode, pass_through |-> PassThroughNode,
   remap_number |-> RemapNumberNode, statistics |-> StatisticsNode,
   transpose |-> TransposeNode, channel_display |-> ChannelDisplayNode,
   display_image_data |-> DisplayImageDataNode,
   note_visualizer |-> NoteVisualizerNode]

-----------------------------------------------------------------------------
(* What the catalogue promises at start-up and to the editor.              *)

\* Every definition is accepted by the constructors, its default literals
\* among the rest, and a node saved under any version that has a migration
\* comes out with the version of today (tests of the registry).
ASSUME ContractsHold ==
  \A t \in DOMAIN BuiltinRegistry :
    LET d == BuiltinRegistry[t]
    IN /\ ContractIsSound(d)
       /\ \A saved \in d.migrations : MigratedVersion(d, saved) = d.version

Specs ==
  UNION {{BuiltinRegistry[t].parameters[p] : p \in DOMAIN BuiltinRegistry[t].parameters}
           : t \in DOMAIN BuiltinRegistry}

\* Numbers of either type, and those at the bounds of a parameter.
Probes(spec) ==
  [type : {"INT", "FLOAT"},
   v : {-2501, -1, 0, 1, 2, 3, 4, 499, 500, 501, 1000, 1500, 2500, 128000}]
    \cup {Value(spec.type, x) :
            x \in (IF spec.lo = -Inf THEN {} ELSE spec.lo - 1 .. spec.lo + 1)
                    \cup (IF spec.hi = Inf THEN {} ELSE spec.hi - 1 .. spec.hi + 1)}

\* No number from a field or a connection is refused at run time: it is moved
\* to one the parameter takes, and that one is left as it is
\* (ParameterSpec.sanitize_value, connected_value).
ASSUME NumbersAreTaken ==
  \A spec \in {s \in Specs : Numeric(s.type)} :
    \A number \in Probes(spec) :
      LET taken == ConnectedValue(spec, number)
      IN Validates(spec, taken) /\ SanitizeValue(spec, taken) = taken
=============================================================================
